--------------------------- MODULE KaiCacheProofs ---------------------------
(* Proofs about the cache, for any keys, values, limit and lifetimes: what the  *)
(* hash table, the list and the counter agree on, and that every operation does *)
(* what the CacheStore promises.                                                *)
EXTENDS KaiCache, SequenceTheorems, FiniteSetTheorems, TLAPS

---------------------------------------------------------------------------
(* Lists of entries *)

Unique(s) ==
  \A i, j \in DOMAIN s : s[i].key = s[j].key /\ i # j => s[i].key \in LongKeys

Ordered(s) == \A i, j \in DOMAIN s : i < j => s[i].age <= s[j].age

(* s is t with some entries, perhaps none, taken out.                           *)
Part(s, t) ==
  \E place \in [DOMAIN s -> DOMAIN t] :
    /\ \A i, j \in DOMAIN s : i < j => place[i] < place[j]
    /\ \A i \in DOMAIN s : s[i] = t[place[i]]

LEMMA PartLists ==
  ASSUME NEW s \in Seq(Entries), NEW t \in Seq(Entries), Part(s, t), Unique(t), Ordered(t)
  PROVE  Unique(s) /\ Ordered(s)
<1>1. PICK place \in [DOMAIN s -> DOMAIN t] :
        /\ \A i, j \in DOMAIN s : i < j => place[i] < place[j]
        /\ \A i \in DOMAIN s : s[i] = t[place[i]]
  BY DEF Part
<1>2. DOMAIN s = 1..Len(s) /\ DOMAIN t = 1..Len(t)
  OBVIOUS
<1>3. ASSUME NEW i \in DOMAIN s, NEW j \in DOMAIN s, i # j PROVE place[i] # place[j]
  BY <1>1, <1>2, <1>3
<1>4. Unique(s)
  BY <1>1, <1>3 DEF Unique
<1>5. Ordered(s)
  BY <1>1 DEF Ordered
<1> QED BY <1>4, <1>5

LEMMA Same ==
  ASSUME NEW s \in Seq(Entries)
  PROVE  Part(s, s)
<1> DEFINE place == [i \in DOMAIN s |-> i]
<1>1. place \in [DOMAIN s -> DOMAIN s]
  OBVIOUS
<1>2. \A i \in DOMAIN s : place[i] = i
  OBVIOUS
<1> HIDE DEF place
<1> QED BY <1>1, <1>2 DEF Part

LEMMA RemovedAt ==
  ASSUME NEW s \in Seq(Entries), NEW k \in 1..Len(s)
  PROVE  /\ RemoveAt(s, k) \in Seq(Entries)
         /\ Len(RemoveAt(s, k)) = Len(s) - 1
         /\ \A i \in 1..Len(s) - 1 : RemoveAt(s, k)[i] = IF i < k THEN s[i] ELSE s[i + 1]
<1> DEFINE n == Len(s)
           r == RemoveAt(s, k)
<1>1. n \in Nat /\ k \in 1..n /\ \A i \in 1..n : s[i] \in Entries
  OBVIOUS
<1>2. r = SubSeq(s, 1, k - 1) \o SubSeq(s, k + 1, n)
  BY DEF RemoveAt
<1> HIDE DEF n, r
<1>3. /\ SubSeq(s, 1, k - 1) \in Seq(Entries)
      /\ Len(SubSeq(s, 1, k - 1)) = k - 1
      /\ \A i \in 1..k - 1 : SubSeq(s, 1, k - 1)[i] = s[i]
  BY <1>1, SubSeqProperties DEF n
<1>4. /\ SubSeq(s, k + 1, n) \in Seq(Entries)
      /\ Len(SubSeq(s, k + 1, n)) = n - k
      /\ \A i \in 1..n - k : SubSeq(s, k + 1, n)[i] = s[k + i]
  BY <1>1, SubSeqProperties DEF n
<1>5. /\ r \in Seq(Entries) /\ Len(r) = n - 1
      /\ \A i \in 1..n - 1 : r[i] = IF i <= k - 1 THEN SubSeq(s, 1, k - 1)[i]
                                    ELSE SubSeq(s, k + 1, n)[i - (k - 1)]
  <2> DEFINE a == SubSeq(s, 1, k - 1)
             b == SubSeq(s, k + 1, n)
  <2>1. a \in Seq(Entries) /\ b \in Seq(Entries) /\ Len(a) = k - 1 /\ Len(b) = n - k
    BY <1>3, <1>4
  <2> HIDE DEF a, b
  <2>2. /\ a \o b \in Seq(Entries) /\ Len(a \o b) = Len(a) + Len(b)
        /\ \A i \in 1..Len(a) + Len(b) :
             (a \o b)[i] = IF i <= Len(a) THEN a[i] ELSE b[i - Len(a)]
    BY <2>1, ConcatProperties
  <2>3. Len(a) + Len(b) = n - 1
    BY <1>1, <2>1
  <2>4. /\ a \o b \in Seq(Entries) /\ Len(a \o b) = n - 1
        /\ \A i \in 1..n - 1 : (a \o b)[i] = IF i <= k - 1 THEN a[i] ELSE b[i - (k - 1)]
    BY <2>1, <2>2, <2>3
  <2> QED BY <1>2, <2>4 DEF a, b
<1>6. \A i \in 1..n - 1 : r[i] = IF i < k THEN s[i] ELSE s[i + 1]
  <2> TAKE i \in 1..n - 1
  <2>1. CASE i < k
    BY <1>1, <1>3, <1>5, <2>1
  <2>2. CASE i >= k
    <3>1. i - (k - 1) \in 1..n - k /\ k + (i - (k - 1)) = i + 1 /\ ~(i < k)
      BY <1>1, <2>2
    <3>2. SubSeq(s, k + 1, n)[i - (k - 1)] = s[k + (i - (k - 1))]
      BY <1>4, <3>1
    <3>3. r[i] = SubSeq(s, k + 1, n)[i - (k - 1)]
      BY <1>1, <1>5, <2>2
    <3> QED BY <3>1, <3>2, <3>3
  <2> QED BY <1>1, <2>1, <2>2
<1> QED BY <1>5, <1>6 DEF n, r

(* Taking an entry off the list leaves the others in their order, and whoever   *)
(* is left stood at another place.                                              *)
LEMMA RemovedPart ==
  ASSUME NEW s \in Seq(Entries), NEW k \in 1..Len(s)
  PROVE  /\ Part(RemoveAt(s, k), s)
         /\ \A i \in DOMAIN RemoveAt(s, k) :
              \E j \in DOMAIN s : j # k /\ RemoveAt(s, k)[i] = s[j]
         /\ \A j \in DOMAIN s :
              j = k \/ \E i \in DOMAIN RemoveAt(s, k) : RemoveAt(s, k)[i] = s[j]
<1> DEFINE r == RemoveAt(s, k)
           place == [i \in 1..Len(s) - 1 |-> IF i < k THEN i ELSE i + 1]
<1>1. /\ r \in Seq(Entries) /\ Len(r) = Len(s) - 1
      /\ \A i \in 1..Len(s) - 1 : r[i] = IF i < k THEN s[i] ELSE s[i + 1]
  BY RemovedAt
<1> HIDE DEF r
<1>2. DOMAIN r = 1..Len(s) - 1 /\ DOMAIN s = 1..Len(s) /\ Len(s) \in Nat
  BY <1>1
<1>3. place \in [DOMAIN r -> DOMAIN s]
  BY <1>2
<1>4. \A i \in DOMAIN r : place[i] = IF i < k THEN i ELSE i + 1
  BY <1>2
<1> HIDE DEF place
<1>5. \A i \in DOMAIN r : r[i] = s[place[i]] /\ place[i] # k
  BY <1>1, <1>2, <1>4
<1>6. \A i, j \in DOMAIN r : i < j => place[i] < place[j]
  BY <1>2, <1>4
<1>7. Part(r, s)
  BY <1>3, <1>5, <1>6 DEF Part
<1>8. \A i \in DOMAIN r : \E j \in DOMAIN s : j # k /\ r[i] = s[j]
  BY <1>3, <1>5
<1>9. ASSUME NEW j \in DOMAIN s, j # k PROVE \E i \in DOMAIN r : r[i] = s[j]
  <2>1. CASE j < k
    BY <1>1, <1>2, <2>1
  <2>2. CASE j > k
    <3>1. j - 1 \in DOMAIN r /\ ~(j - 1 < k) /\ (j - 1) + 1 = j
      BY <1>2, <2>2
    <3> QED BY <1>1, <1>2, <3>1
  <2> QED BY <1>2, <1>9, <2>1, <2>2
<1> QED BY <1>7, <1>8, <1>9 DEF r

LEMMA FrontPart ==
  ASSUME NEW s \in Seq(Entries), s # <<>>
  PROVE  Front(s) \in Seq(Entries) /\ Len(Front(s)) = Len(s) - 1 /\ Part(Front(s), s)
<1> DEFINE r == Front(s)
           place == [i \in 1..Len(s) - 1 |-> i]
<1>1. Len(s) \in Nat \ {0} /\ DOMAIN s = 1..Len(s) /\ \A i \in 1..Len(s) : s[i] \in Entries
  BY EmptySeq
<1>2. /\ r \in Seq(Entries) /\ Len(r) = Len(s) - 1
      /\ \A i \in 1..Len(s) - 1 : r[i] = s[i]
  BY <1>1, SubSeqProperties DEF Front
<1> HIDE DEF r
<1>3. DOMAIN r = 1..Len(s) - 1
  BY <1>2
<1>4. place \in [DOMAIN r -> DOMAIN s]
  BY <1>1, <1>3
<1>5. \A i \in DOMAIN r : place[i] = i
  BY <1>3
<1> HIDE DEF place
<1>6. Part(r, s)
  BY <1>2, <1>3, <1>4, <1>5 DEF Part
<1> QED BY <1>2, <1>6 DEF r

(* A fresh entry at the head of a list.                                         *)
LEMMA Prepended ==
  ASSUME NEW s \in Seq(Entries), NEW e \in Entries
  PROVE  /\ <<e>> \o s \in Seq(Entries) /\ Len(<<e>> \o s) = Len(s) + 1
         /\ (<<e>> \o s)[1] = e
         /\ \A i \in 1..Len(s) : (<<e>> \o s)[i + 1] = s[i]
         /\ \A i \in 1..Len(s) + 1 : i = 1 \/ (i - 1 \in DOMAIN s /\ (<<e>> \o s)[i] = s[i - 1])
<1>1. <<e>> \in Seq(Entries) /\ Len(<<e>>) = 1 /\ <<e>>[1] = e
  OBVIOUS
<1>2. Len(s) \in Nat /\ DOMAIN s = 1..Len(s)
  OBVIOUS
<1>3. /\ <<e>> \o s \in Seq(Entries) /\ Len(<<e>> \o s) = 1 + Len(s)
      /\ \A i \in 1..1 + Len(s) : (<<e>> \o s)[i] = IF i <= 1 THEN <<e>>[i] ELSE s[i - 1]
  BY <1>1, ConcatProperties
<1> QED BY <1>1, <1>2, <1>3

LEMMA PrependedLists ==
  ASSUME NEW s \in Seq(Entries), NEW e \in Entries, Unique(s), Ordered(s),
         e.age = 0, \A i \in DOMAIN s : s[i].key = e.key => e.key \in LongKeys
  PROVE  Unique(<<e>> \o s) /\ Ordered(<<e>> \o s)
<1> DEFINE r == <<e>> \o s
<1>1. /\ r \in Seq(Entries) /\ Len(r) = Len(s) + 1 /\ r[1] = e
      /\ \A i \in 1..Len(s) + 1 : i = 1 \/ (i - 1 \in DOMAIN s /\ r[i] = s[i - 1])
  BY Prepended
<1> HIDE DEF r
<1>2. DOMAIN r = 1..Len(s) + 1 /\ Len(s) \in Nat /\ DOMAIN s = 1..Len(s)
  BY <1>1
<1>3. Unique(r)
  <2>1. ASSUME NEW i \in DOMAIN r, NEW j \in DOMAIN r, r[i].key = r[j].key, i # j
        PROVE  r[i].key \in LongKeys
    <3>1. CASE i = 1
      <4>1. j - 1 \in DOMAIN s /\ r[j] = s[j - 1] /\ r[i] = e
        BY <1>1, <1>2, <2>1, <3>1
      <4> QED BY <2>1, <4>1
    <3>2. CASE j = 1
      <4>1. i - 1 \in DOMAIN s /\ r[i] = s[i - 1] /\ r[j] = e
        BY <1>1, <1>2, <2>1, <3>2
      <4> QED BY <2>1, <4>1
    <3>3. CASE i # 1 /\ j # 1
      <4>1. i - 1 \in DOMAIN s /\ j - 1 \in DOMAIN s /\ i - 1 # j - 1
        BY <1>1, <1>2, <2>1, <3>3
      <4>2. r[i] = s[i - 1] /\ r[j] = s[j - 1]
        BY <1>1, <1>2, <3>3
      <4> QED BY <2>1, <4>1, <4>2 DEF Unique
    <3> QED BY <3>1, <3>2, <3>3
  <2> QED BY <2>1 DEF Unique
<1>4. Ordered(r)
  <2>1. ASSUME NEW i \in DOMAIN r, NEW j \in DOMAIN r, i < j
        PROVE  r[i].age <= r[j].age
    <3>1. j # 1 /\ j - 1 \in DOMAIN s /\ r[j] = s[j - 1]
      BY <1>1, <1>2, <2>1
    <3>2. s[j - 1] \in Entries
      BY <3>1
    <3>3. CASE i = 1
      BY <1>1, <3>1, <3>2, <3>3 DEF Entries
    <3>4. CASE i # 1
      <4>1. i - 1 \in DOMAIN s /\ r[i] = s[i - 1] /\ i - 1 < j - 1
        BY <1>1, <1>2, <2>1, <3>4
      <4> QED BY <3>1, <4>1 DEF Ordered
    <3> QED BY <3>3, <3>4
  <2> QED BY <2>1 DEF Ordered
<1> QED BY <1>3, <1>4 DEF r
---------------------------------------------------------------------------
(* Looking a key up *)

ListOK == lru \in Seq(Entries) /\ Unique(lru) /\ Ordered(lru)

LEMMA FindFacts ==
  ASSUME ListOK, NEW k \in Keys
  PROVE  /\ Held(k) => /\ k \notin LongKeys
                       /\ Find(k) \in DOMAIN lru /\ lru[Find(k)].key = k
                       /\ \A i \in DOMAIN lru : lru[i].key = k => i = Find(k)
         /\ ~Held(k) => \A i \in DOMAIN lru : lru[i].key = k => k \in LongKeys
<1>1. DOMAIN lru = 1..Len(lru) /\ Len(lru) \in Nat
  BY DEF ListOK
<1>2. CASE k \in LongKeys
  BY <1>2 DEF Find, Held
<1>3. CASE k \notin LongKeys
  <2> DEFINE I == {i \in 1..Len(lru) : lru[i].key = k}
  <2>1. Find(k) = IF I # {} THEN Min(I) ELSE 0
    BY <1>3 DEF Find, SelectInSeq
  <2>2. ASSUME NEW i \in I PROVE I = {i}
    BY <1>1, <1>3 DEF ListOK, Unique
  <2>3. ASSUME NEW i \in I PROVE Min(I) = i
    BY <1>1, <2>2 DEF Min
  <2>4. CASE I = {}
    BY <1>1, <2>1, <2>4 DEF Held
  <2>5. CASE I # {}
    <3>1. PICK i \in I : TRUE
      BY <2>5
    <3>2. Find(k) = i
      BY <2>1, <2>3, <2>5, <3>1
    <3> QED BY <1>1, <1>3, <2>2, <3>1, <3>2 DEF Held
  <2> QED BY <2>4, <2>5
<1> QED BY <1>2, <1>3
---------------------------------------------------------------------------
(* The inductive invariant.  Nothing bounds the list once the statistics have   *)
(* been reset but the memory there is, and then the count may lag behind it by  *)
(* as much, which is how far below zero removals can take it.                   *)

CountersOK ==
  /\ Len(lru) <= Memory
  /\ inserts \in (-Memory)..MaxCount /\ inserts >= Len(lru) - Memory
  /\ life \in {"live", "destroyed", "corrupt"}
  /\ reset \in BOOLEAN

CallOK ==
  call \in [op : {"none", "put", "get", "remove", "flush"},
            key : Keys \cup {None}, value : Values \cup {None}]

ListInv == ListOK /\ CountersOK /\ CapacityKept
IInv == ListInv /\ CallOK

LEMMA LongestLife ==
  MaxTtl \in Nat /\ \A t \in Ttls \cup {Ttl} : t \in Nat /\ t <= MaxTtl
BY KaiCacheAssumption DEF MaxTtl

LEMMA EmptyCounters ==
  0 \in (-Memory)..MaxCount /\ 0 <= Memory /\ 0 >= 0 - Memory /\ 0 <= MaxEntries
BY KaiCacheAssumption

LEMMA EntryTypes ==
  /\ \A k \in Keys, v \in Values, t \in Ttls \cup {Ttl} : NewEntry(k, v, t) \in Entries
  /\ \A e \in Entries : [e EXCEPT !.age = 0] \in Entries /\ [e EXCEPT !.valid = FALSE] \in Entries
  /\ \A e \in Entries, v \in Values, t \in Ttls \cup {Ttl} :
       [e EXCEPT !.value = v, !.ttl = t, !.age = 0, !.valid = TRUE] \in Entries
  /\ \A e \in Entries :
       [e EXCEPT !.age = IF @ <= MaxTtl THEN @ + 1 ELSE @] \in Entries
<1>1. MaxTtl \in Nat /\ 0 \in 0..(MaxTtl + 1)
  BY LongestLife
<1>2. ASSUME NEW k \in Keys, NEW v \in Values, NEW t \in Ttls \cup {Ttl}
      PROVE  NewEntry(k, v, t) \in Entries
  BY <1>1 DEF NewEntry, Entries
<1>3. ASSUME NEW e \in Entries
      PROVE  [e EXCEPT !.age = 0] \in Entries /\ [e EXCEPT !.valid = FALSE] \in Entries
  BY <1>1 DEF Entries
<1>4. ASSUME NEW e \in Entries, NEW v \in Values, NEW t \in Ttls \cup {Ttl}
      PROVE  [e EXCEPT !.value = v, !.ttl = t, !.age = 0, !.valid = TRUE] \in Entries
  BY <1>1 DEF Entries
<1>5. ASSUME NEW e \in Entries
      PROVE  [e EXCEPT !.age = IF @ <= MaxTtl THEN @ + 1 ELSE @] \in Entries
  <2>1. e.age \in 0..(MaxTtl + 1)
    BY DEF Entries
  <2>2. (IF e.age <= MaxTtl THEN e.age + 1 ELSE e.age) \in 0..(MaxTtl + 1)
    BY <1>1, <2>1
  <2> QED BY <2>2 DEF Entries
<1> QED BY <1>2, <1>3, <1>4, <1>5

LEMMA CallTypes ==
  \A o \in {"none", "put", "get", "remove", "flush"}, k \in Keys \cup {None},
     v \in Values \cup {None} :
    Call(o, k, v) \in [op : {"none", "put", "get", "remove", "flush"},
                       key : Keys \cup {None}, value : Values \cup {None}]
BY DEF Call

(* Taking entries off the list, and moving one to the front.                    *)
LEMMA TakenOff ==
  ASSUME ListOK, lru' \in Seq(Entries), Part(lru', lru)
  PROVE  ListOK'
BY PartLists DEF ListOK

LEMMA MovedToFront ==
  ASSUME ListOK, NEW i \in DOMAIN lru, NEW e \in Entries, e.key = lru[i].key, e.age = 0,
         lru' = ToFront(i, e)
  PROVE  ListOK' /\ Len(lru') = Len(lru)
<1> DEFINE r == RemoveAt(lru, i)
<1>1. i \in 1..Len(lru) /\ Len(lru) \in Nat
  BY DEF ListOK
<1>2. r \in Seq(Entries) /\ Len(r) = Len(lru) - 1
  BY <1>1, RemovedAt DEF ListOK
<1>3. Part(r, lru) /\ \A j \in DOMAIN r : \E m \in DOMAIN lru : m # i /\ r[j] = lru[m]
  BY <1>1, RemovedPart DEF ListOK
<1> HIDE DEF r
<1>4. Unique(r) /\ Ordered(r)
  BY <1>2, <1>3, PartLists DEF ListOK
<1>5. \A j \in DOMAIN r : r[j].key = e.key => e.key \in LongKeys
  BY <1>3 DEF ListOK, Unique
<1>6. lru' = <<e>> \o r
  BY DEF ToFront, r
<1>7. Unique(lru') /\ Ordered(lru')
  BY <1>2, <1>4, <1>5, <1>6, PrependedLists
<1>8. lru' \in Seq(Entries) /\ Len(lru') = Len(lru)
  BY <1>1, <1>2, <1>6, Prepended
<1> QED BY <1>7, <1>8 DEF ListOK
(* What a put keeps of the list.                                                *)
LEMMA KeptPart ==
  ASSUME ListOK, Full => lru # <<>>
  PROVE  /\ Kept \in Seq(Entries) /\ Part(Kept, lru) /\ Unique(Kept) /\ Ordered(Kept)
         /\ Len(Kept) = IF Full THEN Len(lru) - 1 ELSE Len(lru)
<1>1. CASE Full
  <2>1. Kept = Front(lru)
    BY <1>1 DEF Kept
  <2>2. Kept \in Seq(Entries) /\ Part(Kept, lru) /\ Len(Kept) = Len(lru) - 1
    BY <1>1, <2>1, FrontPart DEF ListOK
  <2> HIDE DEF Kept
  <2> QED BY <1>1, <2>2, PartLists DEF ListOK
<1>2. CASE ~Full
  BY <1>2, Same DEF Kept, ListOK
<1> QED BY <1>1, <1>2

(* Entries that are changed where they stand keep their keys, and their ages in *)
(* order.                                                                       *)
LEMMA ChangedInPlace ==
  ASSUME ListOK, lru' \in Seq(Entries), DOMAIN lru' = DOMAIN lru,
         \A i \in DOMAIN lru : lru'[i].key = lru[i].key,
         \A i, j \in DOMAIN lru : lru[i].age <= lru[j].age => lru'[i].age <= lru'[j].age
  PROVE  ListOK' /\ Len(lru') = Len(lru)
<1>1. Unique(lru')
  BY DEF ListOK, Unique
<1>2. Ordered(lru')
  BY DEF ListOK, Ordered
<1>3. Len(lru) \in Nat /\ Len(lru') \in Nat /\ 1..Len(lru) = 1..Len(lru')
  BY DEF ListOK
<1>4. Len(lru') = Len(lru)
  BY <1>3
<1> QED BY <1>1, <1>2, <1>4 DEF ListOK

LEMMA UpdateList ==
  ASSUME ListInv, NEW k \in Keys, NEW v \in Values, NEW t \in Ttls \cup {Ttl}, Update(k, v, t)
  PROVE  ListOK' /\ Len(lru') = Len(lru)
<1>1. PICK i \in DOMAIN lru : i = Find(k)
  BY FindFacts DEF Update, ListInv
<1>2. lru[i] \in Entries
  BY DEF ListInv, ListOK
<1>3. PICK e \in Entries : e = UpdatedEntry(i, v, t)
  BY <1>2, EntryTypes DEF UpdatedEntry
<1>4. e.key = lru[i].key /\ e.age = 0
  BY <1>2, <1>3 DEF UpdatedEntry, Entries
<1>5. lru' = ToFront(i, e)
  BY <1>1, <1>3 DEF Update
<1> QED BY <1>4, <1>5, MovedToFront DEF ListInv

LEMMA HitList ==
  ASSUME ListInv, NEW k \in Keys, Hit(k)
  PROVE  ListOK' /\ Len(lru') = Len(lru)
<1>1. PICK i \in DOMAIN lru : i = Find(k)
  BY FindFacts DEF Hit, ListInv
<1>2. lru[i] \in Entries
  BY DEF ListInv, ListOK
<1>3. PICK e \in Entries : e = [lru[i] EXCEPT !.age = 0]
  BY <1>2, EntryTypes
<1>4. e.key = lru[i].key /\ e.age = 0
  BY <1>2, <1>3 DEF Entries
<1>5. lru' = ToFront(i, e)
  BY <1>1, <1>3 DEF Hit
<1> QED BY <1>4, <1>5, MovedToFront DEF ListInv

LEMMA InsertList ==
  ASSUME ListInv, NEW k \in Keys, NEW v \in Values, NEW t \in Ttls \cup {Ttl}, Insert(k, v, t)
  PROVE  ListOK' /\ Len(lru') = (IF Full THEN Len(lru) - 1 ELSE Len(lru)) + 1 /\ Len(lru') <= Memory
<1>1. PICK e \in Entries : e = NewEntry(k, v, t)
  BY EntryTypes
<1>2. e.key = k /\ e.age = 0
  BY <1>1 DEF NewEntry
<1>3. /\ Kept \in Seq(Entries) /\ Part(Kept, lru) /\ Unique(Kept) /\ Ordered(Kept)
      /\ Len(Kept) = IF Full THEN Len(lru) - 1 ELSE Len(lru)
  BY KeptPart DEF Insert, ListInv
<1>4. lru' = <<e>> \o Kept /\ Len(Kept) < Memory
  BY <1>1 DEF Insert
<1>5. \A j \in DOMAIN lru : lru[j].key = k => k \in LongKeys
  BY FindFacts DEF Insert, ListInv
<1> HIDE DEF Kept
<1>6. \A j \in DOMAIN Kept : Kept[j].key = e.key => e.key \in LongKeys
  BY <1>2, <1>3, <1>5 DEF Part
<1>7. Unique(lru') /\ Ordered(lru')
  BY <1>2, <1>3, <1>4, <1>6, PrependedLists
<1>8. lru' \in Seq(Entries) /\ Len(lru') = Len(Kept) + 1
  BY <1>3, <1>4, Prepended
<1>9. Len(Kept) \in Nat
  BY <1>3
<1> QED BY <1>3, <1>4, <1>7, <1>8, <1>9, KaiCacheAssumption DEF ListOK

LEMMA RemoveList ==
  ASSUME ListInv, NEW k \in Keys, RemoveKey(k)
  PROVE  /\ ListOK' /\ Len(lru') = Len(lru) - 1 /\ Part(lru', lru)
         /\ \A i \in DOMAIN lru' : \E j \in DOMAIN lru : j # Find(k) /\ lru'[i] = lru[j]
<1>1. PICK i \in 1..Len(lru) : i = Find(k)
  BY FindFacts DEF RemoveKey, Removable, ListInv, ListOK
<1>2. lru' = RemoveAt(lru, i)
  BY <1>1 DEF RemoveKey
<1>3. lru' \in Seq(Entries) /\ Len(lru') = Len(lru) - 1
  BY <1>2, RemovedAt DEF ListInv, ListOK
<1>4. Part(lru', lru) /\ \A n \in DOMAIN lru' : \E j \in DOMAIN lru : j # i /\ lru'[n] = lru[j]
  BY <1>2, RemovedPart DEF ListInv, ListOK
<1>5. ListOK'
  BY <1>3, <1>4, TakenOff DEF ListInv
<1> QED BY <1>1, <1>3, <1>4, <1>5

LEMMA GetExpiredList ==
  ASSUME ListInv, NEW k \in Keys, GetExpired(k)
  PROVE  ListOK' /\ Len(lru') = Len(lru)
<1>1. CASE UNCHANGED lru
  BY <1>1 DEF ListInv, ListOK
<1>2. CASE lru' = [lru EXCEPT ![Find(k)].valid = FALSE]
  <2>1. PICK i \in DOMAIN lru : i = Find(k)
    BY FindFacts DEF GetExpired, ListInv
  <2> DEFINE x == lru[i]
  <2>a. x \in Entries
    BY DEF ListInv, ListOK
  <2> HIDE DEF x
  <2>2. PICK e \in Entries : e = [x EXCEPT !.valid = FALSE]
    BY <2>a, EntryTypes
  <2>3. lru' = [lru EXCEPT ![i] = e]
    BY <1>2, <2>1, <2>2 DEF x
  <2>4. lru' \in Seq(Entries) /\ DOMAIN lru' = DOMAIN lru
    BY <2>3, ExceptSeq DEF ListInv, ListOK
  <2>5. e.key = lru[i].key /\ e.age = lru[i].age
    BY <2>a, <2>2 DEF x, Entries
  <2>6. \A j \in DOMAIN lru : lru'[j].key = lru[j].key /\ lru'[j].age = lru[j].age
    BY <2>3, <2>5 DEF ListInv, ListOK
  <2> QED BY <2>4, <2>6, ChangedInPlace DEF ListInv
<1> QED BY <1>1, <1>2 DEF GetExpired

LEMMA TickList ==
  ASSUME ListInv, Tick
  PROVE  ListOK' /\ Len(lru') = Len(lru)
<1> DEFINE older(e) == [e EXCEPT !.age = IF @ <= MaxTtl THEN @ + 1 ELSE @]
<1>1. lru' = [i \in DOMAIN lru |-> older(lru[i])]
  BY DEF Tick
<1>2. \A e \in Entries : /\ older(e) \in Entries /\ older(e).key = e.key
                         /\ older(e).age = IF e.age <= MaxTtl THEN e.age + 1 ELSE e.age
  BY EntryTypes DEF Entries
<1>3. DOMAIN lru = 1..Len(lru) /\ Len(lru) \in Nat /\ \A i \in DOMAIN lru : lru[i] \in Entries
  BY DEF ListInv, ListOK
<1> HIDE DEF older
<1>4. lru' \in [1..Len(lru) -> Entries]
  BY <1>1, <1>2, <1>3
<1>5. lru' \in Seq(Entries) /\ DOMAIN lru' = DOMAIN lru
  BY <1>3, <1>4, SeqDef
<1>6. \A i \in DOMAIN lru : lru'[i].key = lru[i].key
  BY <1>1, <1>2, <1>3
<1>7. ASSUME NEW i \in DOMAIN lru, NEW j \in DOMAIN lru, lru[i].age <= lru[j].age
      PROVE  lru'[i].age <= lru'[j].age
  <2>1. lru[i].age \in Int /\ lru[j].age \in Int /\ MaxTtl \in Int
    BY <1>3, LongestLife DEF Entries
  <2>2. /\ lru'[i].age = IF lru[i].age <= MaxTtl THEN lru[i].age + 1 ELSE lru[i].age
        /\ lru'[j].age = IF lru[j].age <= MaxTtl THEN lru[j].age + 1 ELSE lru[j].age
    BY <1>1, <1>2, <1>3
  <2>3. PICK a \in Int, b \in Int, m \in Int : a = lru[i].age /\ b = lru[j].age /\ m = MaxTtl
    BY <2>1
  <2> QED BY <1>7, <2>2, <2>3
<1> QED BY <1>5, <1>6, <1>7, ChangedInPlace DEF ListInv
LEMMA FlushExpiredList ==
  ASSUME ListInv, FlushExpired
  PROVE  ListOK' /\ Len(lru') <= Len(lru) /\ Len(lru') \in Nat /\ Part(lru', lru)
<1> DEFINE fresh == {i \in DOMAIN lru : ~Expired(lru[i])}
           c == Cardinality(fresh)
<1>1. PICK place \in [1..c -> fresh] :
        /\ \A i, j \in DOMAIN place : i < j => place[i] < place[j]
        /\ lru' = [i \in DOMAIN place |-> lru[place[i]]]
  BY DEF FlushExpired
<1>2. DOMAIN lru = 1..Len(lru) /\ Len(lru) \in Nat /\ \A i \in DOMAIN lru : lru[i] \in Entries
  BY DEF ListInv, ListOK
<1>3. c \in Nat /\ c <= Len(lru)
  <2>1. ASSUME NEW n \in Nat PROVE IsFiniteSet(1..n) /\ Cardinality(1..n) = n
    BY FS_Interval
  <2> QED BY <1>2, <2>1, FS_Subset, FS_CardinalityType
<1>4. fresh \subseteq DOMAIN lru
  OBVIOUS
<1> HIDE DEF fresh, c
<1>5. DOMAIN place = 1..c /\ \A i \in 1..c : place[i] \in DOMAIN lru
  BY <1>1, <1>4
<1>6. lru' \in [1..c -> Entries]
  BY <1>1, <1>2, <1>5
<1>7. lru' \in Seq(Entries) /\ DOMAIN lru' = 1..c /\ Len(lru') = c
  BY <1>3, <1>6, SeqDef, LenProperties
<1>8. place \in [DOMAIN lru' -> DOMAIN lru]
  BY <1>4, <1>7
<1>9. \A i \in DOMAIN lru' : lru'[i] = lru[place[i]]
  BY <1>1, <1>5, <1>7
<1>10. Part(lru', lru)
  BY <1>1, <1>5, <1>7, <1>8, <1>9 DEF Part
<1> QED BY <1>3, <1>7, <1>10, TakenOff DEF ListInv

(* Emptying the list.                                                           *)
LEMMA EmptyList ==
  ASSUME lru' = <<>>
  PROVE  ListOK' /\ Len(lru') = 0
BY DEF ListOK, Unique, Ordered

---------------------------------------------------------------------------
LEMMA InitIInv == Init => IInv
<1> SUFFICES ASSUME Init PROVE IInv
  OBVIOUS
<1>1. ListOK /\ Len(lru) = 0
  BY DEF Init, ListOK, Unique, Ordered
<1>2. inserts = 0 /\ life = "live" /\ reset = FALSE
  BY DEF Init
<1>3. CountersOK /\ CapacityKept
  <2>1. Len(lru) <= Memory /\ inserts \in (-Memory)..MaxCount /\ inserts >= Len(lru) - Memory
    BY <1>1, <1>2, EmptyCounters
  <2>2. inserts >= Len(lru) /\ Len(lru) <= MaxEntries
    BY <1>1, <1>2, EmptyCounters
  <2> QED BY <1>2, <2>1, <2>2 DEF CountersOK, CapacityKept
<1>4. CallOK
  BY CallTypes DEF Init, NoCall, CallOK
<1> QED BY <1>1, <1>3, <1>4 DEF IInv, ListInv

(* Putting.                                                                     *)
LEMMA PutListInv ==
  ASSUME ListInv, NEW k \in Keys, Put(k)
  PROVE  ListInv'
<1> USE KaiCacheAssumption
<1>n. Len(lru) \in Nat /\ inserts \in Int
  BY DEF ListInv, ListOK, CountersOK
<1>1. ASSUME NEW v \in Values, NEW t \in Ttls \cup {Ttl}, Update(k, v, t) PROVE ListInv'
  <2>1. ListOK' /\ Len(lru') = Len(lru)
    BY <1>1, UpdateList
  <2>2. inserts' = inserts + 1 /\ inserts < MaxCount /\ life' = life /\ reset' = reset
    BY <1>1 DEF Update
  <2> QED BY <1>n, <2>1, <2>2 DEF ListInv, CountersOK, CapacityKept
<1>2. ASSUME NEW v \in Values, NEW t \in Ttls \cup {Ttl}, Insert(k, v, t) PROVE ListInv'
  <2>1. ListOK' /\ Len(lru') = (IF Full THEN Len(lru) - 1 ELSE Len(lru)) + 1 /\ Len(lru') <= Memory
    BY <1>2, InsertList
  <2>2. inserts' = inserts + 1 /\ inserts < MaxCount /\ life' = life /\ reset' = reset
    BY <1>2 DEF Insert
  <2> QED BY <1>n, <2>1, <2>2 DEF ListInv, CountersOK, CapacityKept, Full
<1>3. CASE InsertFails(k)
  <2>1. /\ Kept \in Seq(Entries) /\ Part(Kept, lru)
        /\ Len(Kept) = IF Full THEN Len(lru) - 1 ELSE Len(lru)
    BY <1>3, KeptPart DEF InsertFails, ListInv
  <2>2. lru' = Kept /\ UNCHANGED <<inserts, life, reset>>
    BY <1>3 DEF InsertFails
  <2> HIDE DEF Kept
  <2>3. ListOK' /\ Len(lru') <= Len(lru) /\ Len(lru') \in Nat
    BY <1>n, <2>1, <2>2, TakenOff DEF ListInv
  <2> QED BY <1>n, <2>2, <2>3 DEF ListInv, CountersOK, CapacityKept
<1>4. CASE EvictFromEmpty(k)
  BY <1>4 DEF EvictFromEmpty, ListInv, ListOK, CountersOK, CapacityKept
<1> QED BY <1>1, <1>2, <1>3, <1>4 DEF Put

LEMMA LookupListInv ==
  ASSUME ListInv, NEW k \in Keys, Lookup(k)
  PROVE  ListInv'
<1>1. ListOK' /\ Len(lru') = Len(lru)
  BY HitList, GetExpiredList DEF Lookup, Miss, ListInv, ListOK
<1>2. UNCHANGED <<inserts, life, reset>>
  BY DEF Lookup, Hit, Miss, GetExpired
<1> QED BY <1>1, <1>2 DEF ListInv, CountersOK, CapacityKept

LEMMA NextListInv == ListInv /\ [Next]_vars => ListInv'
<1> SUFFICES ASSUME ListInv, [Next]_vars PROVE ListInv'
  OBVIOUS
<1> USE KaiCacheAssumption
<1>n. Len(lru) \in Nat /\ inserts \in Int
  BY DEF ListInv, ListOK, CountersOK
<1>1. ASSUME NEW k \in Keys, RemoveKey(k) PROVE ListInv'
  <2>1. ListOK' /\ Len(lru') = Len(lru) - 1
    BY <1>1, RemoveList
  <2>2. Len(lru') \in Nat
    BY <2>1 DEF ListOK
  <2>3. inserts' = inserts - 1 /\ UNCHANGED <<life, reset>>
    BY <1>1 DEF RemoveKey
  <2> QED BY <1>n, <2>1, <2>2, <2>3 DEF ListInv, CountersOK, CapacityKept
<1>2. CASE Flush
  <2>1. ListOK' /\ Len(lru') = 0
    BY <1>2, EmptyList DEF Flush
  <2>2. inserts' = 0 /\ reset' = FALSE /\ life' = life
    BY <1>2 DEF Flush
  <2>3. CountersOK'
    <3>1. Len(lru') <= Memory /\ inserts' \in (-Memory)..MaxCount /\ inserts' >= Len(lru') - Memory
      BY <2>1, <2>2, EmptyCounters
    <3> QED BY <2>2, <3>1 DEF ListInv, CountersOK
  <2>4. inserts' >= Len(lru') /\ Len(lru') <= MaxEntries
    BY <2>1, <2>2, EmptyCounters
  <2> QED BY <2>1, <2>3, <2>4 DEF ListInv, CapacityKept
<1>3. CASE FlushExpired
  <2>1. ListOK' /\ Len(lru') <= Len(lru) /\ Len(lru') \in Nat
    BY <1>3, FlushExpiredList
  <2>2. UNCHANGED <<inserts, life, reset>>
    BY <1>3 DEF FlushExpired
  <2> QED BY <1>n, <2>1, <2>2 DEF ListInv, CountersOK, CapacityKept
<1>4. CASE ResetStats
  BY <1>n, <1>4 DEF ResetStats, ListInv, ListOK, CountersOK, CapacityKept
<1>5. CASE Destroy
  BY <1>n, <1>5, EmptyList DEF Destroy, ListInv, CountersOK, CapacityKept
<1>6. CASE Tick
  <2>1. ListOK' /\ Len(lru') = Len(lru)
    BY <1>6, TickList
  <2>2. UNCHANGED <<inserts, life, reset>>
    BY <1>6 DEF Tick
  <2> QED BY <1>n, <2>1, <2>2 DEF ListInv, CountersOK, CapacityKept
<1>7. CASE UNCHANGED vars
  BY <1>7 DEF vars, ListInv, ListOK, CountersOK, CapacityKept
<1> QED BY <1>1, <1>2, <1>3, <1>4, <1>5, <1>6, <1>7, PutListInv, LookupListInv DEF Next

(* The call last made.                                                          *)
LEMMA NextCallOK == IInv /\ [Next]_vars => CallOK'
<1> SUFFICES ASSUME IInv, [Next]_vars PROVE CallOK'
  OBVIOUS
<1>1. ASSUME NEW k \in Keys, Lookup(k) PROVE CallOK'
  <2>1. PICK v \in Values \cup {None} : call' = Call("get", k, v)
    <3>1. CASE Hit(k)
      <4>1. lru[Find(k)] \in Entries
        BY <3>1, FindFacts DEF Hit, IInv, ListInv, ListOK
      <4> QED BY <3>1, <4>1 DEF Hit, Entries
    <3> QED BY <1>1, <3>1 DEF Lookup, Miss, GetExpired
  <2> QED BY <2>1, CallTypes DEF CallOK
<1>2. ASSUME NEW k \in Keys, Put(k) PROVE CallOK'
  <2>1. call' = NoCall \/ \E v \in Values : call' = Call("put", k, v)
    BY <1>2 DEF Put, Update, Insert, InsertFails, EvictFromEmpty
  <2> QED BY <2>1, CallTypes DEF NoCall, CallOK
<1>3. ASSUME NEW k \in Keys, RemoveKey(k) PROVE CallOK'
  BY <1>3, CallTypes DEF RemoveKey, CallOK
<1>4. CASE Flush \/ FlushExpired \/ ResetStats \/ Destroy \/ Tick
  BY <1>4, CallTypes DEF Flush, FlushExpired, ResetStats, Destroy, Tick, NoCall, CallOK
<1>5. CASE UNCHANGED vars
  BY <1>5 DEF vars, IInv, CallOK
<1> QED BY <1>1, <1>2, <1>3, <1>4, <1>5 DEF Next

LEMMA NextIInv == IInv /\ [Next]_vars => IInv'
  BY NextListInv, NextCallOK DEF IInv

LEMMA SpecIInv == Spec => []IInv
  BY InitIInv, NextIInv, PTL DEF Spec

(* The list, the counter and the call last made keep their types; the list      *)
(* never outgrows the memory there is and the counter never falls further below *)
(* zero than that.                                                              *)
THEOREM TypeCorrect == Spec => []TypeOK
<1>1. IInv => TypeOK
  BY DEF IInv, ListInv, ListOK, CountersOK, CallOK, TypeOK
<1> QED BY <1>1, SpecIInv, PTL

(* One entry for a key, the list in order of use, and the capacity kept until   *)
(* the statistics are reset: for any limit, any keys and any lifetimes.         *)
THEOREM ListAlwaysKept == Spec => []ListKept
<1>1. IInv => ListKept
  BY DEF IInv, ListInv, ListOK, Unique, Ordered, ListKept, OneEntryPerKey, LruOrder
<1> QED BY <1>1, SpecIInv, PTL
---------------------------------------------------------------------------
(* The cache is a CacheStore.                                                   *)

(* A lookup of k would find v.                                                  *)
Has(k, v) ==
  k \notin LongKeys /\ \E i \in DOMAIN lru : lru[i].key = k /\ lru[i].valid /\ lru[i].value = v

StoreOK ==
  /\ Store \in [Keys -> Values \cup {None}]
  /\ \A k \in Keys, v \in Values : Store[k] = v <=> Has(k, v)

LEMMA StoreFacts == ListOK => StoreOK
<1> SUFFICES ASSUME ListOK PROVE StoreOK
  OBVIOUS
<1>1. ASSUME NEW k \in Keys
      PROVE  Store[k] \in Values \cup {None} /\ \A v \in Values : Store[k] = v <=> Has(k, v)
  <2>1. Store[k] = IF Held(k) /\ lru[Find(k)].valid THEN lru[Find(k)].value ELSE None
    BY DEF Store
  <2>2. CASE Held(k)
    <3>1. /\ k \notin LongKeys /\ Find(k) \in DOMAIN lru /\ lru[Find(k)].key = k
          /\ \A i \in DOMAIN lru : lru[i].key = k => i = Find(k)
      BY <2>2, FindFacts
    <3>2. lru[Find(k)] \in Entries
      BY <3>1 DEF ListOK
    <3>3. lru[Find(k)].value \in Values
      BY <3>2 DEF Entries
    <3> QED BY <2>1, <2>2, <3>1, <3>3, KaiCacheAssumption DEF Has
  <2>3. CASE ~Held(k)
    <3>1. \A i \in DOMAIN lru : lru[i].key = k => k \in LongKeys
      BY <2>3, FindFacts
    <3> QED BY <2>1, <2>3, <3>1, KaiCacheAssumption DEF Has
  <2> QED BY <2>2, <2>3
<1>2. Store \in [Keys -> Values \cup {None}]
  BY <1>1 DEF Store
<1> QED BY <1>1, <1>2 DEF StoreOK

(* A value that is only found where it was found before, and one that is found  *)
(* exactly where it was.                                                        *)
LEMMA Fading ==
  ASSUME StoreOK, StoreOK', NEW k \in Keys, \A v \in Values : Has(k, v)' => Has(k, v)
  PROVE  Store'[k] \in {Store[k], None}
BY DEF StoreOK

LEMMA Staying ==
  ASSUME StoreOK, StoreOK', NEW k \in Keys, \A v \in Values : Has(k, v)' <=> Has(k, v)
  PROVE  Store'[k] = Store[k]
BY KaiCacheAssumption DEF StoreOK

(* Nothing new is found in a part of the list.                                  *)
LEMMA PartFades ==
  ASSUME ListOK, ListOK', Part(lru', lru), NEW k \in Keys, NEW v \in Values, Has(k, v)'
  PROVE  Has(k, v)
BY DEF Has, Part

(* The entry moved to the front is found there, the others where they were.     *)
LEMMA FrontFinds ==
  ASSUME ListOK, NEW i \in DOMAIN lru, NEW e \in Entries, e.key = lru[i].key,
         lru' = ToFront(i, e), NEW k \in Keys, NEW v \in Values
  PROVE  Has(k, v)' <=> IF k = e.key THEN k \notin LongKeys /\ e.valid /\ e.value = v
                                     ELSE Has(k, v)
<1> DEFINE r == RemoveAt(lru, i)
<1>1. i \in 1..Len(lru) /\ Len(lru) \in Nat
  BY DEF ListOK
<1>2. r \in Seq(Entries)
  BY <1>1, RemovedAt DEF ListOK
<1>3. /\ \A j \in DOMAIN r : \E m \in DOMAIN lru : m # i /\ r[j] = lru[m]
      /\ \A m \in DOMAIN lru : m = i \/ \E j \in DOMAIN r : r[j] = lru[m]
  BY <1>1, RemovedPart DEF ListOK
<1>4. lru' = <<e>> \o r
  BY DEF ToFront
<1> HIDE DEF r
<1>5. /\ lru' \in Seq(Entries) /\ Len(lru') = Len(r) + 1 /\ lru'[1] = e
      /\ \A j \in 1..Len(r) : lru'[j + 1] = r[j]
      /\ \A j \in 1..Len(r) + 1 : j = 1 \/ (j - 1 \in DOMAIN r /\ lru'[j] = r[j - 1])
  BY <1>2, <1>4, Prepended
<1>6. DOMAIN lru' = 1..Len(r) + 1 /\ DOMAIN r = 1..Len(r) /\ Len(r) \in Nat
  BY <1>2, <1>5
<1>7. 1 \in DOMAIN lru' /\ \A j \in DOMAIN r : j + 1 \in DOMAIN lru' /\ lru'[j + 1] = r[j]
  BY <1>5, <1>6
<1>8. \A n \in DOMAIN lru' : lru'[n] = e \/ \E m \in DOMAIN lru : m # i /\ lru'[n] = lru[m]
  <2> TAKE n \in DOMAIN lru'
  <2>1. n = 1 \/ (n - 1 \in DOMAIN r /\ lru'[n] = r[n - 1])
    BY <1>5, <1>6
  <2> QED BY <1>3, <1>5, <2>1
<1>9. \A m \in DOMAIN lru : m = i \/ \E n \in DOMAIN lru' : lru'[n] = lru[m]
  BY <1>3, <1>7
<1>10. CASE k = e.key
  <2>1. k \notin LongKeys => \A m \in DOMAIN lru : m # i => lru[m].key # k
    BY <1>10 DEF ListOK, Unique
  <2>2. ASSUME Has(k, v)' PROVE k \notin LongKeys /\ e.valid /\ e.value = v
    <3>1. PICK n \in DOMAIN lru' : lru'[n].key = k /\ lru'[n].valid /\ lru'[n].value = v
      BY <2>2 DEF Has
    <3>2. k \notin LongKeys
      BY <2>2 DEF Has
    <3>3. lru'[n] = e
      BY <1>8, <2>1, <3>1, <3>2
    <3> QED BY <3>1, <3>2, <3>3
  <2>3. ASSUME k \notin LongKeys, e.valid, e.value = v PROVE Has(k, v)'
    BY <1>5, <1>7, <1>10, <2>3 DEF Has
  <2>4. k \notin LongKeys /\ e.valid /\ e.value = v <=> Has(k, v)'
    BY <2>2, <2>3
  <2> QED BY <1>10, <2>4
<1>11. CASE k # e.key
  BY <1>8, <1>9, <1>11 DEF Has
<1> QED BY <1>10, <1>11
(* Everything is forgotten or kept.                                             *)
LEMMA Forgets ==
  ASSUME StoreOK, StoreOK', call' = NoCall,
         \A k \in Keys, v \in Values : Has(k, v)' => Has(k, v)
  PROVE  Promise!Forget
<1>1. \A k \in Keys : Store'[k] \in {Store[k], None}
  BY Fading
<1>2. Store' \in [Keys -> Values \cup {None}]
  BY DEF StoreOK
<1> QED BY <1>1, <1>2 DEF Promise!Forget, Promise!Fades, Promise!IsStore,
                          Promise!NoCall, Promise!Call, NoCall, Call

(* Only the value put is found under the key, and the others fade.              *)
LEMMA Puts ==
  ASSUME StoreOK, StoreOK', NEW k \in Keys, NEW v \in Values, call' = Call("put", k, v),
         \A j \in Keys, w \in Values : Has(j, w)' => IF j = k THEN w = v ELSE Has(j, w)
  PROVE  Promise!Put(k, v)
<1>1. Store' \in [Keys -> Values \cup {None}]
  BY DEF StoreOK
<1>2. \A j \in Keys \ {k} : Store'[j] \in {Store[j], None}
  BY Fading
<1>3. Store'[k] \in {v, None}
  BY <1>1 DEF StoreOK
<1> QED BY <1>1, <1>2, <1>3 DEF Promise!Put, Promise!Fades, Promise!IsStore, Promise!Call, Call

LEMMA UpdatePuts ==
  ASSUME ListInv, StoreOK, StoreOK',
         NEW k \in Keys, NEW v \in Values, NEW t \in Ttls \cup {Ttl}, Update(k, v, t)
  PROVE  Promise!Put(k, v)
<1>1. PICK i \in DOMAIN lru : i = Find(k) /\ lru[i].key = k
  BY FindFacts DEF Update, ListInv
<1>2. lru[i] \in Entries
  BY DEF ListInv, ListOK
<1>3. PICK e \in Entries : e = UpdatedEntry(i, v, t)
  BY <1>2, EntryTypes DEF UpdatedEntry
<1>4. e.key = lru[i].key /\ e.value = v
  BY <1>2, <1>3 DEF UpdatedEntry, Entries
<1>5. lru' = ToFront(i, e)
  BY <1>1, <1>3 DEF Update
<1>6. ASSUME NEW j \in Keys, NEW w \in Values, Has(j, w)'
      PROVE  IF j = k THEN w = v ELSE Has(j, w)
  BY <1>1, <1>4, <1>5, <1>6, FrontFinds DEF ListInv
<1> QED BY <1>6, Puts DEF Update

LEMMA InsertPuts ==
  ASSUME ListInv, StoreOK, StoreOK',
         NEW k \in Keys, NEW v \in Values, NEW t \in Ttls \cup {Ttl}, Insert(k, v, t)
  PROVE  Promise!Put(k, v)
<1>1. PICK e \in Entries : e = NewEntry(k, v, t)
  BY EntryTypes
<1>2. e.key = k /\ e.value = v
  BY <1>1 DEF NewEntry
<1>3. Kept \in Seq(Entries) /\ Part(Kept, lru)
  BY KeptPart DEF Insert, ListInv
<1>4. lru' = <<e>> \o Kept
  BY <1>1 DEF Insert
<1>5. \A i \in DOMAIN lru : lru[i].key = k => k \in LongKeys
  BY FindFacts DEF Insert, ListInv
<1> HIDE DEF Kept
<1>6. /\ lru' \in Seq(Entries) /\ Len(lru') = Len(Kept) + 1 /\ lru'[1] = e
      /\ \A i \in 1..Len(Kept) + 1 : i = 1 \/ (i - 1 \in DOMAIN Kept /\ lru'[i] = Kept[i - 1])
  BY <1>3, <1>4, Prepended
<1>7. \A n \in DOMAIN Kept : \E m \in DOMAIN lru : Kept[n] = lru[m]
  BY <1>3 DEF Part
<1>8. ASSUME NEW n \in DOMAIN lru' PROVE lru'[n] = e \/ \E m \in DOMAIN lru : lru'[n] = lru[m]
  <2>1. n = 1 \/ (n - 1 \in DOMAIN Kept /\ lru'[n] = Kept[n - 1])
    BY <1>6
  <2> QED BY <1>6, <1>7, <2>1
<1>9. ASSUME NEW j \in Keys, NEW w \in Values, Has(j, w)'
      PROVE  IF j = k THEN w = v ELSE Has(j, w)
  <2>1. PICK n \in DOMAIN lru' : lru'[n].key = j /\ lru'[n].valid /\ lru'[n].value = w
    BY <1>9 DEF Has
  <2>2. j \notin LongKeys
    BY <1>9 DEF Has
  <2>3. CASE lru'[n] = e
    BY <1>2, <2>1, <2>3
  <2>4. CASE \E m \in DOMAIN lru : lru'[n] = lru[m]
    BY <1>5, <2>1, <2>2, <2>4 DEF Has
  <2> QED BY <1>8, <2>3, <2>4
<1> QED BY <1>9, Puts DEF Insert

LEMMA PutStep ==
  ASSUME ListInv, ListOK', StoreOK, StoreOK', NEW k \in Keys, Put(k)
  PROVE  (\E v \in Values : Promise!Put(k, v)) \/ Promise!Forget
<1>1. CASE InsertFails(k)
  <2>1. Part(Kept, lru)
    BY <1>1, KeptPart DEF InsertFails, ListInv
  <2>2. lru' = Kept /\ call' = NoCall
    BY <1>1 DEF InsertFails
  <2>3. Part(lru', lru)
    BY <2>1, <2>2
  <2> QED BY <2>2, <2>3, PartFades, Forgets DEF ListInv
<1>2. CASE EvictFromEmpty(k)
  <2>1. lru' = lru /\ call' = NoCall
    BY <1>2 DEF EvictFromEmpty
  <2> QED BY <2>1, Forgets DEF Has
<1> QED BY <1>1, <1>2, UpdatePuts, InsertPuts DEF Put
(* A lookup gives the stored value, and then keeps it, or nothing; it disturbs  *)
(* no other key.                                                                *)
LEMMA Gets ==
  ASSUME StoreOK, StoreOK', NEW k \in Keys, NEW x, call' = Call("get", k, x),
         x \in {Store[k], None}, x # None => Store'[k] = Store[k],
         \A v \in Values : Has(k, v)' => Has(k, v),
         \A j \in Keys \ {k}, v \in Values : Has(j, v)' <=> Has(j, v)
  PROVE  Promise!Get(k)
<1>1. Store' \in [Keys -> Values \cup {None}]
  BY DEF StoreOK
<1>2. Store'[k] \in {Store[k], None}
  BY Fading
<1>3. \A j \in Keys \ {k} : Store'[j] = Store[j]
  BY Staying
<1>4. call'.value = x
  BY DEF Call
<1> QED BY <1>1, <1>2, <1>3, <1>4
        DEF Promise!Get, Promise!Fades, Promise!IsStore, Promise!Call, Call

LEMMA HitGets ==
  ASSUME ListInv, StoreOK, StoreOK', NEW k \in Keys, Hit(k)
  PROVE  Promise!Get(k)
<1>1. PICK i \in DOMAIN lru : i = Find(k) /\ lru[i].key = k /\ k \notin LongKeys
  BY FindFacts DEF Hit, ListInv
<1>2. PICK x \in Entries : x = lru[i]
  BY DEF ListInv, ListOK
<1>3. PICK e \in Entries : e = [x EXCEPT !.age = 0]
  BY EntryTypes
<1>4. /\ e.key = x.key /\ e.value = x.value /\ e.valid = x.valid /\ e.age = 0
      /\ x.value \in Values
  BY <1>3 DEF Entries
<1>5. lru' = ToFront(i, e)
  BY <1>1, <1>2, <1>3 DEF Hit
<1>6. x.valid
  BY <1>1, <1>2 DEF Hit, Expired
<1>7. Has(k, x.value)
  BY <1>1, <1>2, <1>6 DEF Has
<1>8. \A v \in Values : Has(k, v) => v = x.value
  BY <1>1, <1>2 DEF Has, ListInv, ListOK, Unique
<1>9. \A j \in Keys, v \in Values : Has(j, v)' <=> Has(j, v)
  <2> TAKE j \in Keys, v \in Values
  <2>1. Has(j, v)' <=> IF j = e.key THEN j \notin LongKeys /\ e.valid /\ e.value = v
                                    ELSE Has(j, v)
    BY <1>2, <1>4, <1>5, FrontFinds DEF ListInv
  <2> QED BY <1>1, <1>2, <1>4, <1>6, <1>7, <1>8, <2>1
<1>10. Store[k] = x.value
  BY <1>4, <1>7 DEF StoreOK
<1>11. Store'[k] = Store[k]
  BY <1>9, Staying
<1>12. call' = Call("get", k, x.value)
  BY <1>1, <1>2 DEF Hit
<1> QED BY <1>9, <1>10, <1>11, <1>12, Gets

LEMMA GetExpiredGets ==
  ASSUME ListInv, StoreOK, StoreOK', NEW k \in Keys, GetExpired(k)
  PROVE  Promise!Get(k)
<1>1. PICK i \in DOMAIN lru : i = Find(k) /\ lru[i].key = k
  BY FindFacts DEF GetExpired, ListInv
<1>2. \A j \in Keys, v \in Values : Has(j, v)' => Has(j, v)
  <2>1. CASE UNCHANGED lru
    BY <2>1 DEF Has
  <2>2. CASE lru' = [lru EXCEPT ![Find(k)].valid = FALSE]
    <3>1. DOMAIN lru' = DOMAIN lru /\ \A n \in DOMAIN lru \ {i} : lru'[n] = lru[n]
      BY <1>1, <2>2
    <3>2. lru'[i] = [lru[i] EXCEPT !.valid = FALSE] /\ lru[i] \in Entries
      BY <1>1, <2>2 DEF ListInv, ListOK
    <3>3. ~lru'[i].valid
      BY <3>2 DEF Entries
    <3> QED BY <3>1, <3>3 DEF Has
  <2> QED BY <2>1, <2>2 DEF GetExpired
<1>3. \A j \in Keys \ {k}, v \in Values : Has(j, v) => Has(j, v)'
  <2>1. CASE UNCHANGED lru
    BY <2>1 DEF Has
  <2>2. CASE lru' = [lru EXCEPT ![Find(k)].valid = FALSE]
    <3>1. DOMAIN lru' = DOMAIN lru /\ \A n \in DOMAIN lru \ {i} : lru'[n] = lru[n]
      BY <1>1, <2>2
    <3> QED BY <1>1, <3>1 DEF Has
  <2> QED BY <2>1, <2>2 DEF GetExpired
<1> QED BY <1>2, <1>3, Gets DEF GetExpired

LEMMA MissGets ==
  ASSUME StoreOK, StoreOK', NEW k \in Keys, Miss(k)
  PROVE  Promise!Get(k)
<1>1. \A j \in Keys, v \in Values : Has(j, v)' <=> Has(j, v)
  BY DEF Miss, Has
<1> QED BY <1>1, Gets DEF Miss

LEMMA RemoveRemoves ==
  ASSUME ListInv, ListOK', StoreOK, StoreOK', NEW k \in Keys, RemoveKey(k)
  PROVE  Promise!Remove(k)
<1>1. /\ Part(lru', lru)
      /\ \A i \in DOMAIN lru' : \E j \in DOMAIN lru : j # Find(k) /\ lru'[i] = lru[j]
  BY RemoveList
<1>2. \A i \in DOMAIN lru : lru[i].key = k => i = Find(k)
  BY FindFacts DEF RemoveKey, Removable, ListInv
<1>3. \A v \in Values : ~Has(k, v)'
  BY <1>1, <1>2 DEF Has
<1>4. Store' \in [Keys -> Values \cup {None}]
  BY DEF StoreOK
<1>5. Store'[k] = None
  BY <1>3, <1>4 DEF StoreOK
<1>6. \A j \in Keys \ {k} : Store'[j] \in {Store[j], None}
  BY <1>1, PartFades, Fading DEF ListInv
<1> QED BY <1>4, <1>5, <1>6
        DEF RemoveKey, Promise!Remove, Promise!Fades, Promise!IsStore, Promise!Call, Call

LEMMA EmptyStore ==
  ASSUME StoreOK, lru = <<>>
  PROVE  Store = [k \in Keys |-> None]
<1>1. \A k \in Keys, v \in Values : ~Has(k, v)
  BY DEF Has
<1>2. Store \in [Keys -> Values \cup {None}]
  BY DEF StoreOK
<1>3. \A k \in Keys : Store[k] = None
  BY <1>1, <1>2 DEF StoreOK
<1> QED BY <1>2, <1>3

LEMMA TickForgets ==
  ASSUME ListInv, StoreOK, StoreOK', Tick
  PROVE  Promise!Forget
<1>1. DOMAIN lru' = DOMAIN lru
  BY DEF Tick
<1>2. ASSUME NEW i \in DOMAIN lru
      PROVE  lru'[i].key = lru[i].key /\ lru'[i].valid = lru[i].valid /\ lru'[i].value = lru[i].value
  <2>1. PICK e \in Entries : e = lru[i]
    BY DEF ListInv, ListOK
  <2>2. lru'[i] = [e EXCEPT !.age = IF @ <= MaxTtl THEN @ + 1 ELSE @]
    BY <2>1 DEF Tick
  <2> QED BY <2>1, <2>2 DEF Entries
<1>3. \A k \in Keys, v \in Values : Has(k, v)' => Has(k, v)
  BY <1>1, <1>2 DEF Has
<1> QED BY <1>3, Forgets DEF Tick

LEMMA StepImplements ==
  ASSUME ListInv, ListOK', StoreOK, StoreOK', [Next]_vars
  PROVE  [Promise!Next]_(Promise!vars)
<1>1. ASSUME NEW k \in Keys, Lookup(k) PROVE Promise!Next
  BY <1>1, HitGets, MissGets, GetExpiredGets DEF Lookup, Promise!Next
<1>2. ASSUME NEW k \in Keys, Put(k) PROVE Promise!Next
  BY <1>2, PutStep DEF Promise!Next
<1>3. ASSUME NEW k \in Keys, RemoveKey(k) PROVE Promise!Next
  BY <1>3, RemoveRemoves DEF Promise!Next
<1>4. CASE Flush
  <2>1. Store' = [k \in Keys |-> None]
    <3>1. \A k \in Keys, v \in Values : ~Has(k, v)'
      BY <1>4 DEF Flush, Has
    <3>2. Store' \in [Keys -> Values \cup {None}]
      BY DEF StoreOK
    <3>3. \A k \in Keys : Store'[k] = None
      BY <3>1, <3>2 DEF StoreOK
    <3> QED BY <3>2, <3>3
  <2> QED BY <1>4, <2>1 DEF Flush, Call, Promise!Next, Promise!Flush, Promise!Call
<1>5. CASE FlushExpired
  <2>1. Part(lru', lru)
    BY <1>5, FlushExpiredList
  <2>2. Promise!Forget
    BY <1>5, <2>1, PartFades, Forgets DEF FlushExpired, ListInv
  <2> QED BY <2>2 DEF Promise!Next
<1>6. CASE ResetStats
  <2>1. Promise!Forget
    BY <1>6, Forgets DEF ResetStats, Has
  <2> QED BY <2>1 DEF Promise!Next
<1>7. CASE Destroy
  <2>1. Promise!Forget
    BY <1>7, Forgets DEF Destroy, Has
  <2> QED BY <2>1 DEF Promise!Next
<1>8. CASE Tick
  BY <1>8, TickForgets DEF Promise!Next
<1>9. CASE UNCHANGED vars
  <2>1. \A k \in Keys : Store'[k] = Store[k]
    BY <1>9, Staying DEF vars, Has
  <2>2. Store' = Store
    BY <2>1 DEF StoreOK
  <2> QED BY <1>9, <2>2 DEF vars, Promise!vars
<1> QED BY <1>1, <1>2, <1>3, <1>4, <1>5, <1>6, <1>7, <1>8, <1>9 DEF Next

(* The cache implements the CacheStore: whatever sequence of puts, lookups,     *)
(* removals, evictions, expiries and flushes, a lookup gives the value put last *)
(* under the key or nothing, and nothing after its removal or a flush.          *)
THEOREM CacheImplementsStore == Spec => Implements
<1>1. IInv => ListInv /\ ListOK /\ StoreOK
  BY StoreFacts DEF IInv, ListInv
<1>2. Init => Promise!Init
  <2> SUFFICES ASSUME Init PROVE Promise!Init
    OBVIOUS
  <2>1. StoreOK /\ lru = <<>>
    BY <1>1, InitIInv DEF Init
  <2> QED BY <2>1, EmptyStore DEF Init, NoCall, Call, Promise!Init, Promise!NoCall, Promise!Call
<1>3. ListInv /\ ListOK' /\ StoreOK /\ StoreOK' /\ [Next]_vars => [Promise!Next]_(Promise!vars)
  BY StepImplements
<1> QED BY <1>1, <1>2, <1>3, SpecIInv, PTL DEF Spec, Implements, Promise!Spec
=============================================================================
