------------------------- MODULE PluginManagerProofs -------------------------
(* Proofs about the plugin manager, for any number of plugins, dispatchers and  *)
(* holders and any length of the bounded wait: the types, and which readers the *)
(* two counts protect.                                                          *)
EXTENDS PluginManager, SequenceTheorems, FiniteSetTheorems, TLAPS

---------------------------------------------------------------------------
(* The list *)

ListOK ==
  /\ list \in Seq(Plugins) /\ IsInjective(list)
  /\ ToSet(list) = {p \in Plugins : state[p] = "listed"}

LEMMA Positioned ==
  ASSUME ListOK, NEW p \in Plugins, Listed(p)
  PROVE  Position(p) \in 1..Len(list) /\ list[Position(p)] = p
<1>1. p \in ToSet(list)
  BY DEF ListOK, Listed
<1>2. PICK i \in DOMAIN list : list[i] = p
  BY <1>1 DEF ToSet
<1>3. DOMAIN list = 1..Len(list)
  BY DEF ListOK
<1> QED BY <1>2, <1>3 DEF Position

LEMMA LinkedList ==
  ASSUME ListOK, NEW p \in Plugins, ~Listed(p),
         list' = <<p>> \o list, state' = [state EXCEPT ![p] = "listed"],
         state \in [Plugins -> {"none", "allocated", "listed", "unlinked", "freed"}]
  PROVE  ListOK'
<1>1. <<p>> \in Seq(Plugins) /\ Len(<<p>>) = 1 /\ <<p>>[1] = p
  OBVIOUS
<1>2. /\ list' \in Seq(Plugins) /\ Len(list') = Len(list) + 1
      /\ \A i \in 1..Len(list) + 1 : list'[i] = IF i <= 1 THEN <<p>>[i] ELSE list[i - 1]
  BY <1>1, ConcatProperties DEF ListOK
<1>3. Len(list) \in Nat /\ DOMAIN list = 1..Len(list) /\ DOMAIN list' = 1..Len(list) + 1
  BY <1>2 DEF ListOK
<1>4. /\ list'[1] = p
      /\ \A i \in 1..Len(list) : list'[i + 1] = list[i]
      /\ \A j \in 1..Len(list) + 1 : j = 1 \/ (j - 1 \in 1..Len(list) /\ list'[j] = list[j - 1])
  BY <1>1, <1>2, <1>3
<1>5. \A i \in 1..Len(list) : list[i] # p
  BY <1>3 DEF ListOK, ToSet, Listed
<1>6. IsInjective(list')
  BY <1>3, <1>4, <1>5 DEF ListOK, IsInjective
<1>7. ToSet(list') = ToSet(list) \cup {p}
  <2>1. ToSet(list') \subseteq ToSet(list) \cup {p}
    BY <1>3, <1>4 DEF ToSet
  <2>2. ToSet(list) \cup {p} \subseteq ToSet(list')
    <3>1. p \in ToSet(list')
      BY <1>3, <1>4 DEF ToSet
    <3>2. ASSUME NEW i \in 1..Len(list) PROVE list[i] \in ToSet(list')
      <4>1. i + 1 \in DOMAIN list' /\ list'[i + 1] = list[i]
        BY <1>3, <1>4
      <4> QED BY <4>1 DEF ToSet
    <3> QED BY <1>3, <3>1, <3>2 DEF ToSet
  <2> QED BY <2>1, <2>2
<1> QED BY <1>2, <1>6, <1>7 DEF ListOK

LEMMA UnlinkedList ==
  ASSUME ListOK, NEW p \in Plugins, Listed(p),
         list' = Unlinked(p), state' = [state EXCEPT ![p] = "unlinked"],
         state \in [Plugins -> {"none", "allocated", "listed", "unlinked", "freed"}]
  PROVE  ListOK'
<1> DEFINE k == Position(p)
           n == Len(list)
<1>1. k \in 1..n /\ list[k] = p /\ n \in Nat /\ DOMAIN list = 1..n
  BY Positioned DEF ListOK
<1>2. \A i \in 1..n : list[i] \in Plugins
  BY <1>1 DEF ListOK
<1> HIDE DEF k, n
<1>3. /\ SubSeq(list, 1, k - 1) \in Seq(Plugins)
      /\ Len(SubSeq(list, 1, k - 1)) = k - 1
      /\ \A i \in 1..k - 1 : SubSeq(list, 1, k - 1)[i] = list[i]
  BY <1>1, <1>2, SubSeqProperties
<1>4. /\ SubSeq(list, k + 1, n) \in Seq(Plugins)
      /\ Len(SubSeq(list, k + 1, n)) = n - k
      /\ \A i \in 1..n - k : SubSeq(list, k + 1, n)[i] = list[k + i]
  BY <1>1, <1>2, SubSeqProperties
<1>5. list' = SubSeq(list, 1, k - 1) \o SubSeq(list, k + 1, n)
  BY DEF Unlinked, RemoveAt, k, n
<1>6. /\ list' \in Seq(Plugins) /\ Len(list') = n - 1
      /\ \A i \in 1..n - 1 : list'[i] = IF i <= k - 1 THEN SubSeq(list, 1, k - 1)[i]
                                         ELSE SubSeq(list, k + 1, n)[i - (k - 1)]
  BY <1>1, <1>3, <1>4, <1>5, ConcatProperties
<1>7. \A i \in 1..n - 1 : list'[i] = IF i < k THEN list[i] ELSE list[i + 1]
  <2> TAKE i \in 1..n - 1
  <2>1. CASE i < k
    BY <1>1, <1>3, <1>6, <2>1
  <2>2. CASE i >= k
    <3>1. i - (k - 1) \in 1..n - k /\ k + (i - (k - 1)) = i + 1
      BY <1>1, <2>2
    <3>2. SubSeq(list, k + 1, n)[i - (k - 1)] = list[k + (i - (k - 1))]
      BY <1>4, <3>1
    <3>3. list'[i] = SubSeq(list, k + 1, n)[i - (k - 1)]
      BY <1>1, <1>6, <2>2
    <3>4. ~(i < k)
      BY <1>1, <2>2
    <3> QED BY <3>1, <3>2, <3>3, <3>4
  <2> QED BY <1>1, <2>1, <2>2
<1>8. DOMAIN list' = 1..n - 1
  BY <1>1, <1>6
<1>9. IsInjective(list')
  <2>1. ASSUME NEW a \in 1..n - 1, NEW b \in 1..n - 1, list'[a] = list'[b]
        PROVE  a = b
    <3> DEFINE old(i) == IF i < k THEN i ELSE i + 1
    <3>1. \A i \in 1..n - 1 : old(i) \in 1..n /\ list'[i] = list[old(i)]
      BY <1>1, <1>7
    <3> HIDE DEF old
    <3>2. old(a) = old(b)
      BY <1>1, <2>1, <3>1 DEF ListOK, IsInjective
    <3> QED BY <1>1, <3>2 DEF old
  <2> QED BY <1>8, <2>1 DEF IsInjective
<1>10. ToSet(list') = ToSet(list) \ {p}
  <2>1. ASSUME NEW i \in 1..n - 1 PROVE list'[i] \in ToSet(list) \ {p}
    <3>1. PICK j \in 1..n : j # k /\ list'[i] = list[j]
      BY <1>1, <1>7
    <3>2. list[j] # p
      BY <1>1, <3>1 DEF ListOK, IsInjective
    <3> QED BY <1>1, <3>1, <3>2 DEF ToSet
  <2>2. ASSUME NEW j \in 1..n, list[j] # p PROVE list[j] \in ToSet(list')
    <3>1. j # k
      BY <1>1, <2>2
    <3>2. PICK i \in 1..n - 1 : list'[i] = list[j]
      <4>1. CASE j < k
        BY <1>1, <1>7, <4>1
      <4>2. CASE j > k
        <5>1. j - 1 \in 1..n - 1 /\ ~(j - 1 < k) /\ (j - 1) + 1 = j
          BY <1>1, <4>2
        <5> QED BY <1>7, <5>1
      <4> QED BY <1>1, <3>1, <4>1, <4>2
    <3> QED BY <1>8, <3>2 DEF ToSet
  <2>3. ToSet(list') = {list'[i] : i \in 1..n - 1} /\ ToSet(list) = {list[j] : j \in 1..n}
    BY <1>1, <1>8 DEF ToSet
  <2> QED BY <2>1, <2>2, <2>3
<1> QED BY <1>6, <1>9, <1>10 DEF ListOK, Listed

LEMMA SameList ==
  ASSUME ListOK, NEW p \in Plugins, ~Listed(p), NEW x, x # "listed",
         list' = list, state' = [state EXCEPT ![p] = x],
         state \in [Plugins -> {"none", "allocated", "listed", "unlinked", "freed"}]
  PROVE  ListOK'
<1>1. {q \in Plugins : state'[q] = "listed"} = {q \in Plugins : state[q] = "listed"}
  BY DEF Listed
<1> QED BY <1>1 DEF ListOK, ToSet, IsInjective

---------------------------------------------------------------------------
(* The invariant *)

(* TypeOK without the list.                                                     *)
Fields ==
  /\ state \in [Plugins -> {"none", "allocated", "listed", "unlinked", "freed"}]
  /\ resident \subseteq Plugins
  /\ refs \in [Plugins -> Nat] /\ active \in [Plugins -> Nat]
  /\ enabled \subseteq Plugins
  /\ unreg \in [Plugins -> [place : {"idle", "waiting", "testing", "unlinking",
                                     "exiting", "freeing", "done"},
                            budget : 0..MaxWait, expired : BOOLEAN]]
  /\ disp \in [Dispatchers -> [place : {"idle", "visit", "enter", "infer", "oops"},
                               at : Plugins \cup {None}, late : BOOLEAN]]
  /\ hold \in [Holders -> [place : {"idle", "found", "holding", "oops"},
                           at : Plugins \cup {None},
                           counted : {"no", "before", "between", "after"}]]
  /\ manager \in {"up", "down", "oops"}

LEMMA TypeParts == TypeOK <=> ListOK /\ Fields
  BY DEF TypeOK, ListOK, Fields, UnregPlaces

(* Who reads a plugin: the holders that counted themselves in, and stay counted *)
(* when they die, and the dispatchers with an inference under way in it.        *)
Holding(p) == {h \in Holders : hold[h].at = p /\ hold[h].place \in {"holding", "oops"}}
Inferring(p) == {d \in Dispatchers : disp[d].at = p /\ disp[d].place = "infer"}

(* A holder was led to its plugin by the list.                                  *)
Found ==
  \A h \in Holders :
    /\ hold[h].place # "idle" =>
         hold[h].at \in Plugins /\ state[hold[h].at] \notin {"none", "allocated"}
    /\ hold[h].counted = "before" => hold[h].place \in {"holding", "oops"}

(* No holder counted before the test is left once the test found nobody.        *)
TestedUnheld ==
  \A h \in Holders : hold[h].counted = "before" => unreg[hold[h].at].place # "unlinking"

(* The count has the registrar's reference and one of every holder.             *)
RefsCounted ==
  \A p \in Plugins : state[p] # "none" => refs[p] >= 1 + Cardinality(Holding(p))

(* A dispatcher on its way is at a plugin, and every inference is counted; one  *)
(* that died with its plugin's module stays counted.                            *)
Visiting == \A d \in Dispatchers : disp[d].place # "idle" => disp[d].at \in Plugins
ActiveCounted == \A p \in Plugins : active[p] >= Cardinality(Inferring(p))

(* Between list_del() and the free the plugin is off the list.                  *)
LeavingUnlinked ==
  \A p \in Plugins : unreg[p].place \in {"exiting", "freeing"} => state[p] = "unlinked"

(* While its counts are tested the plugin is on it.                             *)
TestingListed ==
  \A p \in Plugins : unreg[p].place \in {"testing", "unlinking"} => Listed(p)

HoldInv == Found /\ RefsCounted /\ HeldStays /\ TestedUnheld
DispInv == Visiting /\ ActiveCounted /\ LeavingUnlinked /\ TestingListed /\ DrainedBeforeExit
IInv == TypeOK /\ HoldInv /\ DispInv

LEMMA ReadersFinite ==
  ASSUME NEW p
  PROVE  /\ IsFiniteSet(Holding(p)) /\ Cardinality(Holding(p)) \in Nat
         /\ IsFiniteSet(Inferring(p)) /\ Cardinality(Inferring(p)) \in Nat
  BY PluginAssumption, FS_Subset, FS_CardinalityType DEF Holding, Inferring

LEMMA IInvInit == Init => IInv
<1> SUFFICES ASSUME Init PROVE IInv
  OBVIOUS
<1> USE DEF Init
<1>1. ListOK
  <2>1. ToSet(list) = {} /\ IsInjective(list) /\ list \in Seq(Plugins)
    BY DEF ToSet, IsInjective
  <2> QED BY <2>1 DEF ListOK
<1>2. Fields
  BY PluginAssumption DEF Fields, DispIdle, HoldIdle
<1>3. \A p : Holding(p) = {} /\ Inferring(p) = {}
  BY DEF Holding, Inferring, DispIdle, HoldIdle
<1>4. HoldInv
  BY <1>3, FS_EmptySet DEF HoldInv, Found, RefsCounted, HeldStays, TestedUnheld, HoldIdle
<1>5. DispInv
  <2>1. ActiveCounted
    <3>1. \A p \in Plugins : active[p] = 0 /\ Cardinality(Inferring(p)) = 0
      BY <1>3, FS_EmptySet
    <3> QED BY <3>1 DEF ActiveCounted
  <2>2. Visiting /\ LeavingUnlinked /\ TestingListed
    BY DEF Visiting, LeavingUnlinked, TestingListed, DispIdle
  <2>3. DrainedBeforeExit
    BY DEF DrainedBeforeExit, DispIdle
  <2> QED BY <2>1, <2>2, <2>3 DEF DispInv
<1> QED BY <1>1, <1>2, <1>4, <1>5, TypeParts DEF IInv

---------------------------------------------------------------------------
(* Types *)

LEMMA AfterTyped ==
  ASSUME TypeOK, NEW p \in Plugins
  PROVE  /\ After(p) \in [place : {"idle", "visit", "oops"}, at : Plugins \cup {None},
                          late : {FALSE}]
         /\ After(p).place # "idle" => After(p).at \in Plugins
<1>1. CASE ~Listed(p)
  BY <1>1 DEF After
<1>2. CASE Listed(p) /\ Position(p) = Len(list)
  BY <1>2 DEF After, DispIdle
<1>3. CASE Listed(p) /\ Position(p) # Len(list)
  <2>1. Position(p) \in 1..Len(list) /\ Len(list) \in Nat
    BY <1>3, Positioned, TypeParts DEF ListOK
  <2>2. Position(p) + 1 \in 1..Len(list)
    BY <1>3, <2>1
  <2>3. list[Position(p) + 1] \in Plugins
    BY <2>2, TypeParts DEF ListOK
  <2> QED BY <1>3, <2>3 DEF After
<1> QED BY <1>1, <1>2, <1>3

LEMMA FirstTyped ==
  ASSUME TypeOK
  PROVE  /\ First \in [place : {"idle", "visit"}, at : Plugins \cup {None}, late : {FALSE}]
         /\ First.place # "idle" => First.at \in Plugins
<1>1. CASE list = <<>>
  BY <1>1 DEF First, DispIdle
<1>2. CASE list # <<>>
  <2>1. Head(list) \in Plugins
    BY <1>2, TypeParts DEF ListOK
  <2> QED BY <1>2, <2>1 DEF First
<1> QED BY <1>1, <1>2

LEMMA RegisterTyped ==
  ASSUME IInv, NEW p \in Plugins, Allocate(p) \/ InitFails(p) \/ Link(p)
  PROVE  TypeOK'
<1>1. ListOK /\ Fields
  BY TypeParts DEF IInv
<1>2. CASE Allocate(p)
  <2>1. Fields'
    BY <1>1, <1>2 DEF Allocate, Fields
  <2>2. ListOK'
    BY <1>1, <1>2, SameList DEF Allocate, Fields, Listed
  <2> QED BY <2>1, <2>2, TypeParts, PTL
<1>3. CASE InitFails(p)
  <2>1. Fields'
    BY <1>1, <1>3 DEF InitFails, Fields
  <2>2. ListOK'
    BY <1>1, <1>3, SameList DEF InitFails, Fields, Listed
  <2> QED BY <2>1, <2>2, TypeParts, PTL
<1>4. CASE Link(p)
  <2>1. Fields'
    BY <1>1, <1>4 DEF Link, Fields
  <2>2. ListOK'
    BY <1>1, <1>4, LinkedList DEF Link, Fields, Listed
  <2> QED BY <2>1, <2>2, TypeParts, PTL
<1> QED BY <1>2, <1>3, <1>4

LEMMA RecordTyped ==
  ASSUME NEW P, NEW B, NEW E, NEW r \in [place : P, budget : B, expired : E],
         NEW x \in P, NEW e \in E
  PROVE  [r EXCEPT !.place = x, !.expired = e] \in [place : P, budget : B, expired : E]
  OBVIOUS

(* The end of the wait: where it leads, and what it remembers.                  *)
LEMMA WaitEndsTo ==
  ASSUME Fields, NEW p \in Plugins, WaitEnds(p)
  PROVE  /\ unreg' \in [Plugins -> [place : {"idle", "waiting", "testing", "unlinking",
                                           "exiting", "freeing", "done"},
                                  budget : 0..MaxWait, expired : BOOLEAN]]
         /\ unreg'[p].place = "testing"
         /\ unreg'[p].expired \/ active[p] = 0
         /\ \A q \in Plugins : q # p => unreg'[q] = unreg[q]
<1>1. PICK e \in BOOLEAN :
        /\ e = (active[p] > 0 /\ unreg[p].budget = 0)
        /\ unreg' = [unreg EXCEPT ![p].place = "testing", ![p].expired = e]
  <2>1. (active[p] > 0 /\ unreg[p].budget = 0) \in BOOLEAN
    OBVIOUS
  <2> QED BY <2>1, Zenon DEF WaitEnds
<1>2. [unreg[p] EXCEPT !.place = "testing", !.expired = e]
        \in [place : {"idle", "waiting", "testing", "unlinking",
                      "exiting", "freeing", "done"},
             budget : 0..MaxWait, expired : BOOLEAN]
  <2>1. /\ unreg[p] \in [place : {"idle", "waiting", "testing", "unlinking",
                                  "exiting", "freeing", "done"},
                         budget : 0..MaxWait, expired : BOOLEAN]
        /\ "testing" \in {"idle", "waiting", "testing", "unlinking",
                          "exiting", "freeing", "done"}
    BY DEF Fields
  <2> QED BY <1>1, <2>1, RecordTyped, Zenon
<1>3. unreg' = [unreg EXCEPT ![p] = [unreg[p] EXCEPT !.place = "testing", !.expired = e]]
  BY <1>1 DEF Fields
<1>4. /\ unreg'[p].place = "testing" /\ unreg'[p].expired = e
      /\ \A q \in Plugins : q # p => unreg'[q] = unreg[q]
  BY <1>1 DEF Fields
<1>5. unreg'[p].expired \/ active[p] = 0
  BY <1>1, <1>4 DEF Fields, WaitEnds, Quiet
<1>6. unreg' \in [Plugins -> [place : {"idle", "waiting", "testing", "unlinking",
                                      "exiting", "freeing", "done"},
                             budget : 0..MaxWait, expired : BOOLEAN]]
  BY <1>2, <1>3, Zenon DEF Fields
<1> QED BY <1>4, <1>5, <1>6

LEMMA RmmodTyped ==
  ASSUME IInv, NEW p \in Plugins, Rmmod(p)
  PROVE  TypeOK'
<1>1. ListOK /\ Fields
  BY TypeParts DEF IInv
<1>2. CASE Unregister(p)
  <2>1. CASE AwaitInferences(p)
    <3>1. Fields'
      <4>1. CASE Wait(p)
        BY <1>1, <2>1, <4>1, PluginAssumption DEF AwaitInferences, Wait, Taken, Fields
      <4>2. CASE WaitEnds(p)
        BY <1>1, <2>1, <4>2, WaitEndsTo DEF AwaitInferences, Fields
      <4> QED BY <2>1, <4>1, <4>2 DEF AwaitInferences
    <3>2. ListOK'
      BY <1>1, <2>1 DEF AwaitInferences, ListOK, ToSet, IsInjective
    <3> QED BY <3>1, <3>2, TypeParts, PTL
  <2>2. CASE TestRefs(p)
    <3>1. Fields'
      BY <1>1, <2>2 DEF TestRefs, At, Fields
    <3>2. ListOK'
      BY <1>1, <2>2 DEF TestRefs, ListOK, ToSet, IsInjective
    <3> QED BY <3>1, <3>2, TypeParts, PTL
  <2>3. CASE Unlink(p)
    <3>1. Fields'
      BY <1>1, <2>3 DEF Unlink, At, Fields
    <3>2. Listed(p)
      BY <2>3 DEF Unlink, IInv, DispInv, TestingListed
    <3>3. ListOK'
      BY <1>1, <2>3, <3>2, UnlinkedList DEF Unlink, Fields
    <3> QED BY <3>1, <3>3, TypeParts, PTL
  <2> QED BY <1>2, <2>1, <2>2, <2>3 DEF Unregister
<1>3. CASE Exit(p)
  <2>1. Fields'
    BY <1>1, <1>3 DEF Exit, At, Fields
  <2>2. ListOK'
    BY <1>1, <1>3 DEF Exit, ListOK, ToSet, IsInjective
  <2> QED BY <2>1, <2>2, TypeParts, PTL
<1>4. CASE Free(p)
  <2>1. Fields'
    BY <1>1, <1>4 DEF Free, At, Fields
  <2>2. ~Listed(p)
    BY <1>4 DEF Free, IInv, DispInv, LeavingUnlinked, Listed
  <2>3. ListOK'
    BY <1>1, <1>4, <2>2, SameList DEF Free, Fields
  <2> QED BY <2>1, <2>3, TypeParts, PTL
<1> QED BY <1>2, <1>3, <1>4 DEF Rmmod

---------------------------------------------------------------------------
(* How one reader's move changes the sets of readers *)

Dispatching == [place : {"idle", "visit", "enter", "infer", "oops"},
                at : Plugins \cup {None}, late : BOOLEAN]
OnlyDispatcher(d) == \A e \in Dispatchers : e # d => disp'[e] = disp[e]
OnlyHolder(h) == \A k \in Holders : k # h => hold'[k] = hold[k]

LEMMA EntersOne ==
  ASSUME NEW d \in Dispatchers, OnlyDispatcher(d), disp[d].place # "infer",
         NEW p, disp'[d].place = "infer", disp'[d].at = p
  PROVE  /\ Cardinality(Inferring(p)') = Cardinality(Inferring(p)) + 1
         /\ \A q : q # p => Inferring(q)' = Inferring(q)
<1>1. Inferring(p)' = Inferring(p) \cup {d} /\ d \notin Inferring(p)
  BY DEF Inferring, OnlyDispatcher
<1>2. \A q : q # p => Inferring(q)' = Inferring(q)
  BY DEF Inferring, OnlyDispatcher
<1> QED BY <1>1, <1>2, ReadersFinite, FS_AddElement

LEMMA LeavesOne ==
  ASSUME NEW d \in Dispatchers, OnlyDispatcher(d), disp'[d].place # "infer",
         NEW p, disp[d].place = "infer", disp[d].at = p
  PROVE  /\ Cardinality(Inferring(p)') = Cardinality(Inferring(p)) - 1
         /\ Cardinality(Inferring(p)) \in Nat \ {0}
         /\ \A q : q # p => Inferring(q)' = Inferring(q)
<1>1. Inferring(p)' = Inferring(p) \ {d} /\ d \in Inferring(p)
  BY DEF Inferring, OnlyDispatcher
<1>2. \A q : q # p => Inferring(q)' = Inferring(q)
  BY DEF Inferring, OnlyDispatcher
<1>3. Cardinality(Inferring(p)) # 0
  BY <1>1, ReadersFinite, FS_EmptySet
<1> QED BY <1>1, <1>2, <1>3, ReadersFinite, FS_RemoveElement

LEMMA EntersNone ==
  ASSUME NEW d \in Dispatchers, OnlyDispatcher(d), disp[d].place # "infer",
         disp'[d].place # "infer"
  PROVE  \A q : Inferring(q)' = Inferring(q)
  BY DEF Inferring, OnlyDispatcher

LEMMA TakesOne ==
  ASSUME NEW h \in Holders, OnlyHolder(h), hold[h].place = "found",
         NEW p, hold'[h].place = "holding", hold'[h].at = p
  PROVE  /\ Cardinality(Holding(p)') = Cardinality(Holding(p)) + 1
         /\ \A q : q # p => Holding(q)' = Holding(q)
<1>1. Holding(p)' = Holding(p) \cup {h} /\ h \notin Holding(p)
  BY DEF Holding, OnlyHolder
<1>2. \A q : q # p => Holding(q)' = Holding(q)
  BY DEF Holding, OnlyHolder
<1> QED BY <1>1, <1>2, ReadersFinite, FS_AddElement

LEMMA PutsOne ==
  ASSUME NEW h \in Holders, OnlyHolder(h), hold'[h].place = "idle",
         NEW p, hold[h].place = "holding", hold[h].at = p
  PROVE  /\ Cardinality(Holding(p)') = Cardinality(Holding(p)) - 1
         /\ Cardinality(Holding(p)) \in Nat \ {0}
         /\ \A q : q # p => Holding(q)' = Holding(q)
<1>1. Holding(p)' = Holding(p) \ {h} /\ h \in Holding(p)
  BY DEF Holding, OnlyHolder
<1>2. \A q : q # p => Holding(q)' = Holding(q)
  BY DEF Holding, OnlyHolder
<1>3. Cardinality(Holding(p)) # 0
  BY <1>1, ReadersFinite, FS_EmptySet
<1> QED BY <1>1, <1>2, <1>3, ReadersFinite, FS_RemoveElement

LEMMA TakesNone ==
  ASSUME NEW h \in Holders, OnlyHolder(h), hold'[h].at = hold[h].at \/ hold[h].place = "idle",
         hold[h].place \in {"holding", "oops"} <=> hold'[h].place \in {"holding", "oops"}
  PROVE  \A q : Holding(q)' = Holding(q)
<1> SUFFICES ASSUME NEW q PROVE Holding(q)' = Holding(q)
  OBVIOUS
<1>1. \A k \in Holders : k \in Holding(q)' <=> k \in Holding(q)
  BY DEF Holding, OnlyHolder
<1> QED BY <1>1 DEF Holding

---------------------------------------------------------------------------
(* Dispatchers *)

(* What a step of a dispatcher has to keep: its record, the count of the plugin *)
(* it leaves or enters, and, if it has entered one, that it says so when late.  *)
LEMMA DispatcherKeeps ==
  ASSUME IInv, NEW d \in Dispatchers, UNCHANGED others,
         OnlyDispatcher(d), disp' \in [Dispatchers -> Dispatching],
         active' \in [Plugins -> Nat],
         disp'[d].place # "idle" => disp'[d].at \in Plugins,
         ActiveCounted',
         disp'[d].place = "infer" /\ Leaving(disp'[d].at) => disp'[d].late
  PROVE  IInv'
<1>1. ListOK /\ Fields
  BY TypeParts DEF IInv
<1>2. ListOK'
  BY <1>1 DEF others, ListOK, ToSet, IsInjective
<1>3. Fields'
  BY <1>1 DEF others, Fields, Dispatching
<1>4. TypeOK'
  BY <1>2, <1>3, TypeParts, PTL
<1>5. HoldInv'
  BY DEF others, IInv, HoldInv, Found, RefsCounted, HeldStays, TestedUnheld, Holding, Listed
<1>6. Visiting'
  BY DEF IInv, DispInv, Visiting, OnlyDispatcher
<1>7. LeavingUnlinked' /\ TestingListed'
  BY DEF others, IInv, DispInv, LeavingUnlinked, TestingListed, Listed
<1>8. DrainedBeforeExit'
  <2>1. \A q : Leaving(q)' = Leaving(q)
    BY DEF others, Leaving
  <2>2. ASSUME NEW e \in Dispatchers, disp'[e].place = "infer", Leaving(disp'[e].at)
        PROVE  disp'[e].late
    <3>1. CASE e = d
      BY <2>2, <3>1
    <3>2. CASE e # d
      BY <2>2, <3>2 DEF OnlyDispatcher, IInv, DispInv, DrainedBeforeExit
    <3> QED BY <3>1, <3>2
  <2> QED BY <2>1, <2>2 DEF DrainedBeforeExit, Leaving, others
<1> QED BY <1>4, <1>5, <1>6, <1>7, <1>8 DEF IInv, DispInv

(* A step that neither enters nor leaves an inference.                          *)
LEMMA WalkKeeps ==
  ASSUME IInv, NEW d \in Dispatchers, UNCHANGED <<active, others>>, disp[d].place # "infer",
         NEW r \in Dispatching, disp' = [disp EXCEPT ![d] = r],
         r.place # "infer", r.place # "idle" => r.at \in Plugins
  PROVE  IInv'
<1>1. Fields
  BY TypeParts DEF IInv
<1>2. disp' \in [Dispatchers -> Dispatching] /\ disp'[d] = r /\ OnlyDispatcher(d)
  BY <1>1 DEF Fields, Dispatching, OnlyDispatcher
<1>3. \A q : Inferring(q)' = Inferring(q)
  BY <1>2, EntersNone
<1>4. ActiveCounted'
  BY <1>3 DEF IInv, DispInv, ActiveCounted
<1>5. active' \in [Plugins -> Nat]
  BY <1>1 DEF Fields
<1> QED BY <1>2, <1>4, <1>5, DispatcherKeeps

(* A step that leaves an inference and takes it off the count, or not.          *)
LEMMA LeaveKeeps ==
  ASSUME IInv, NEW d \in Dispatchers, UNCHANGED others, disp[d].place = "infer",
         Leave(d) \/ UNCHANGED active,
         NEW r \in Dispatching, disp' = [disp EXCEPT ![d] = r],
         r.place # "infer", r.place # "idle" => r.at \in Plugins
  PROVE  IInv'
<1>1. Fields
  BY TypeParts DEF IInv
<1>2. disp' \in [Dispatchers -> Dispatching] /\ disp'[d] = r /\ OnlyDispatcher(d)
  BY <1>1 DEF Fields, Dispatching, OnlyDispatcher
<1>3. PICK p \in Plugins : p = disp[d].at
  BY DEF IInv, DispInv, Visiting
<1>4. /\ Cardinality(Inferring(p)') = Cardinality(Inferring(p)) - 1
      /\ Cardinality(Inferring(p)) \in Nat \ {0}
      /\ \A q : q # p => Inferring(q)' = Inferring(q)
  BY <1>2, <1>3, LeavesOne
<1>5. active[p] \in Nat \ {0} /\ active[p] >= Cardinality(Inferring(p))
  BY <1>1, <1>3, <1>4 DEF Fields, IInv, DispInv, ActiveCounted
<1>6. /\ active' \in [Plugins -> Nat] /\ active'[p] \in {active[p], active[p] - 1}
      /\ \A q \in Plugins : q # p => active'[q] = active[q]
  <2>1. CASE active' = [active EXCEPT ![p] = @ - 1]
    <3>1. active[p] - 1 \in Nat /\ active \in [Plugins -> Nat]
      BY <1>1, <1>5 DEF Fields
    <3>2. active' = [active EXCEPT ![p] = active[p] - 1]
      BY <2>1, <3>1
    <3> HIDE <2>1
    <3> QED BY <3>1, <3>2
  <2>2. CASE UNCHANGED active
    BY <1>1, <2>2 DEF Fields
  <2> QED BY <1>3, <2>1, <2>2 DEF Leave
<1>7. ActiveCounted'
  <2>1. active'[p] >= Cardinality(Inferring(p)')
    BY <1>4, <1>5, <1>6
  <2>2. ASSUME NEW q \in Plugins, q # p PROVE active'[q] >= Cardinality(Inferring(q)')
    BY <1>4, <1>6, <2>2 DEF IInv, DispInv, ActiveCounted
  <2> QED BY <2>1, <2>2 DEF ActiveCounted
<1> QED BY <1>2, <1>6, <1>7, DispatcherKeeps

LEMMA DispatchingTyped ==
  ASSUME NEW P, NEW A, NEW L, NEW r \in [place : P, at : A, late : L],
         NEW x \in P, NEW b \in L
  PROVE  [r EXCEPT !.place = x, !.late = b] \in [place : P, at : A, late : L]
  OBVIOUS

LEMMA EnterKeeps ==
  ASSUME IInv, NEW d \in Dispatchers, Enter(d)
  PROVE  IInv'
<1>1. Fields /\ disp[d].place = "enter" /\ UNCHANGED others
  BY TypeParts DEF IInv, Enter
<1>p. PICK p \in Plugins : p = disp[d].at
  BY <1>1 DEF IInv, DispInv, Visiting
<1>2. CASE p \notin resident
  <2>1. disp' = [disp EXCEPT ![d] = [disp[d] EXCEPT !.place = "oops"]] /\ UNCHANGED active
    BY <1>1, <1>2, <1>p DEF Enter, Fields
  <2>2. PICK r \in Dispatching : r = [disp[d] EXCEPT !.place = "oops"]
    <3>1. [disp[d] EXCEPT !.place = "oops"] \in Dispatching
      BY <1>1 DEF Fields, Dispatching
    <3> QED BY <3>1
  <2>3. r.place = "oops" /\ r.at = p
    BY <1>1, <1>p, <2>2 DEF Fields
  <2>4. disp' = [disp EXCEPT ![d] = r]
    BY <2>1, <2>2
  <2> QED BY <1>1, <2>1, <2>3, <2>4, WalkKeeps
<1>3. CASE p \in resident
  <2>1. p \in Plugins
    BY <1>1, <1>3 DEF Fields
  <2>2. PICK b \in BOOLEAN : /\ b = WaitOver(p)
                             /\ disp' = [disp EXCEPT ![d].place = "infer", ![d].late = b]
    BY <1>3, <1>p, Zenon DEF Enter, WaitOver
  <2>3. active' = [active EXCEPT ![p] = @ + 1]
    BY <1>3, <1>p DEF Enter
  <2>4. /\ disp'[d] = [disp[d] EXCEPT !.place = "infer", !.late = b]
        /\ disp'[d].place = "infer" /\ disp'[d].at = p /\ disp'[d].late = b
        /\ OnlyDispatcher(d) /\ DOMAIN disp' = Dispatchers
        /\ disp' = [e \in Dispatchers |-> disp'[e]]
    BY <1>1, <1>p, <2>2 DEF Fields, OnlyDispatcher
  <2>5. disp' \in [Dispatchers -> Dispatching]
    <3>1. disp[d] \in Dispatching /\ "infer" \in {"idle", "visit", "enter", "infer", "oops"}
      BY <1>1 DEF Fields, Dispatching
    <3>2. disp'[d] \in Dispatching
      BY <2>2, <2>4, <3>1, DispatchingTyped, Zenon DEF Dispatching
    <3>3. ASSUME NEW e \in Dispatchers PROVE disp'[e] \in Dispatching
      <4>1. CASE e = d
        BY <3>2, <4>1
      <4>2. CASE e # d
        <5>1. disp'[e] = disp[e]
          BY <2>4, <4>2 DEF OnlyDispatcher
        <5> QED BY <1>1, <5>1 DEF Fields, Dispatching
      <4> QED BY <4>1, <4>2
    <3> QED BY <2>4, <3>3
  <2>6. /\ Cardinality(Inferring(p)') = Cardinality(Inferring(p)) + 1
        /\ \A q : q # p => Inferring(q)' = Inferring(q)
    <3>1. OnlyDispatcher(d) /\ disp[d].place # "infer"
      BY <1>1, <2>4
    <3>2. disp'[d].place = "infer" /\ disp'[d].at = p
      BY <2>4
    <3> QED BY <3>1, <3>2, EntersOne
  <2>7. ActiveCounted'
    <3>1. active'[p] >= Cardinality(Inferring(p)')
      BY <1>1, <2>1, <2>3, <2>6, ReadersFinite DEF Fields, IInv, DispInv, ActiveCounted
    <3>2. ASSUME NEW q \in Plugins, q # p PROVE active'[q] >= Cardinality(Inferring(q)')
      BY <1>1, <2>3, <2>6, <3>2 DEF Fields, IInv, DispInv, ActiveCounted
    <3> QED BY <3>1, <3>2 DEF ActiveCounted
  <2>8. Leaving(p) => disp'[d].late
    BY <2>1, <2>2, <2>4 DEF Leaving, WaitOver
  <2>9. active' \in [Plugins -> Nat]
    BY <1>1, <2>1, <2>3 DEF Fields
  <2> QED BY <1>1, <2>1, <2>4, <2>5, <2>7, <2>8, <2>9, DispatcherKeeps
<1> QED BY <1>2, <1>3

LEMMA DispatchersKeep ==
  ASSUME IInv, NEW d \in Dispatchers,
         Dispatch(d) \/ Visit(d) \/ Enter(d) \/ Succeed(d) \/ Fail(d) \/ Vanish(d)
  PROVE  IInv'
<1>1. Fields /\ TypeOK
  BY TypeParts DEF IInv
<1>2. disp[d].place # "idle" => disp[d].at \in Plugins
  BY DEF IInv, DispInv, Visiting
<1>3. CASE Dispatch(d)
  <2>1. First \in Dispatching /\ First.place # "infer"
    BY <1>1, FirstTyped DEF Dispatching
  <2> QED BY <1>1, <1>3, <2>1, FirstTyped, WalkKeeps DEF Dispatch
<1>4. CASE Visit(d)
  <2> DEFINE r == IF disp[d].at \in enabled THEN [disp[d] EXCEPT !.place = "enter"]
                                             ELSE After(disp[d].at)
  <2>1. disp' = [disp EXCEPT ![d] = r]
    BY <1>1, <1>4 DEF Visit, Fields
  <2>2. r \in Dispatching /\ r.place # "infer" /\ (r.place # "idle" => r.at \in Plugins)
    <3>1. CASE disp[d].at \in enabled
      BY <1>1, <1>2, <1>4, <3>1 DEF Visit, Fields, Dispatching
    <3>2. CASE disp[d].at \notin enabled
      BY <1>1, <1>2, <1>4, <3>2, AfterTyped DEF Visit, Dispatching
    <3> QED BY <3>1, <3>2
  <2> HIDE DEF r
  <2> QED BY <1>4, <2>1, <2>2, WalkKeeps DEF Visit
<1>5. CASE Enter(d)
  BY <1>5, EnterKeeps
<1>6. CASE Succeed(d)
  <2>1. DispIdle \in Dispatching /\ DispIdle.place = "idle"
    BY DEF DispIdle, Dispatching
  <2> QED BY <1>6, <2>1, LeaveKeeps DEF Succeed
<1>7. CASE Fail(d)
  <2>1. After(disp[d].at) \in Dispatching /\ After(disp[d].at).place # "infer"
    BY <1>1, <1>2, <1>7, AfterTyped DEF Fail, Dispatching
  <2> QED BY <1>1, <1>2, <1>7, <2>1, AfterTyped, LeaveKeeps DEF Fail
<1>8. CASE Vanish(d)
  <2> DEFINE r == [disp[d] EXCEPT !.place = "oops"]
  <2>1. disp' = [disp EXCEPT ![d] = r]
    BY <1>1, <1>8 DEF Vanish, Fields
  <2>2. r \in Dispatching /\ r.place = "oops" /\ r.at \in Plugins
    BY <1>1, <1>2, <1>8 DEF Vanish, Fields, Dispatching
  <2> HIDE DEF r
  <2> QED BY <1>8, <2>1, <2>2, LeaveKeeps DEF Vanish
<1> QED BY <1>3, <1>4, <1>5, <1>6, <1>7, <1>8

---------------------------------------------------------------------------
(* Holders *)

HoldRecord == [place : {"idle", "found", "holding", "oops"},
               at : Plugins \cup {None},
               counted : {"no", "before", "between", "after"}]

(* What a step of a holder has to keep: where its plugin came from, the count,  *)
(* and that the plugin is listed, and not found unused, if it says so.          *)
LEMMA HolderKeeps ==
  ASSUME IInv, NEW h \in Holders, UNCHANGED rest,
         enabled' \subseteq Plugins, refs' \in [Plugins -> Nat],
         NEW r \in HoldRecord, hold' = [hold EXCEPT ![h] = r],
         r.place # "idle" => r.at \in Plugins /\ state[r.at] \notin {"none", "allocated"},
         r.counted = "before" => /\ r.place \in {"holding", "oops"} /\ Listed(r.at)
                                 /\ unreg[r.at].place # "unlinking",
         RefsCounted'
  PROVE  IInv'
<1>1. ListOK /\ Fields
  BY TypeParts DEF IInv
<1>2. hold' \in [Holders -> HoldRecord] /\ hold'[h] = r /\ OnlyHolder(h)
  BY <1>1 DEF Fields, HoldRecord, OnlyHolder
<1>3. ListOK'
  BY <1>1 DEF rest, ListOK, ToSet, IsInjective
<1>4. Fields'
  BY <1>1, <1>2 DEF rest, Fields, HoldRecord
<1>5. TypeOK'
  BY <1>3, <1>4, TypeParts, PTL
<1>6. DispInv'
  BY DEF rest, IInv, DispInv, Visiting, ActiveCounted, LeavingUnlinked, TestingListed,
         DrainedBeforeExit, Inferring, Leaving, Listed
<1>7. Found'
  BY <1>2 DEF rest, IInv, HoldInv, Found, OnlyHolder
<1>8. HeldStays' /\ TestedUnheld'
  BY <1>2 DEF rest, IInv, HoldInv, HeldStays, TestedUnheld, OnlyHolder, Listed
<1> QED BY <1>5, <1>6, <1>7, <1>8 DEF IInv, HoldInv

(* A step that neither counts itself in nor out.                                *)
LEMMA UncountedKeeps ==
  ASSUME IInv, NEW h \in Holders, UNCHANGED <<refs, rest>>, enabled' \subseteq Plugins,
         NEW r \in HoldRecord, hold' = [hold EXCEPT ![h] = r],
         r.place # "idle" => r.at \in Plugins /\ state[r.at] \notin {"none", "allocated"},
         r.counted = "before" => /\ r.place \in {"holding", "oops"} /\ Listed(r.at)
                                 /\ unreg[r.at].place # "unlinking",
         r.at = hold[h].at \/ hold[h].place = "idle",
         hold[h].place \in {"holding", "oops"} <=> r.place \in {"holding", "oops"}
  PROVE  IInv'
<1>1. Fields
  BY TypeParts DEF IInv
<1>2. hold'[h] = r /\ OnlyHolder(h)
  BY <1>1 DEF Fields, OnlyHolder
<1>3. \A q : Holding(q)' = Holding(q)
  BY <1>2, TakesNone
<1>4. RefsCounted'
  BY <1>3 DEF IInv, HoldInv, RefsCounted, rest
<1>5. refs' \in [Plugins -> Nat]
  BY <1>1 DEF Fields
<1> QED BY <1>4, <1>5, HolderKeeps

LEMMA HoldingTyped ==
  ASSUME NEW P, NEW A, NEW C, NEW r \in [place : P, at : A, counted : C],
         NEW x \in P, NEW c \in C
  PROVE  [r EXCEPT !.place = x, !.counted = c] \in [place : P, at : A, counted : C]
  OBVIOUS

LEMMA TakeKeeps ==
  ASSUME IInv, NEW h \in Holders, Take(h)
  PROVE  IInv'
<1>1. Fields /\ hold[h].place = "found" /\ UNCHANGED <<enabled, rest>>
  BY TypeParts DEF IInv, Take
<1>2. PICK p \in Plugins : p = hold[h].at /\ state[p] \notin {"none", "allocated"}
  BY <1>1 DEF IInv, HoldInv, Found
<1>3. /\ refs' = [refs EXCEPT ![p] = @ + 1]
      /\ hold' = [hold EXCEPT ![h].place = "holding", ![h].counted = WhenCounted(p)]
  BY <1>2, Zenon DEF Take
<1>4. DOMAIN hold[h] = {"place", "at", "counted"} /\ hold \in [Holders -> HoldRecord]
  BY <1>1 DEF Fields, HoldRecord
<1>5. PICK c \in {"no", "before", "between", "after"} :
        c = WhenCounted(p) /\ (c = "before" => Listed(p) /\ unreg[p].place # "unlinking")
  BY DEF WhenCounted
<1>6. hold' = [hold EXCEPT ![h].place = "holding", ![h].counted = c]
  BY <1>3, <1>5, Zenon
<1>7. PICK r \in HoldRecord : r = [hold[h] EXCEPT !.place = "holding", !.counted = c]
  <2>1. hold[h] \in HoldRecord /\ "holding" \in {"idle", "found", "holding", "oops"}
    BY <1>4
  <2>2. [hold[h] EXCEPT !.place = "holding", !.counted = c] \in HoldRecord
    BY <1>5, <2>1, HoldingTyped, Zenon DEF HoldRecord
  <2> QED BY <2>2
<1>8. hold' = [hold EXCEPT ![h] = r] /\ r.place = "holding" /\ r.at = p /\ r.counted = c
  BY <1>2, <1>4, <1>6, <1>7 DEF HoldRecord
<1>9. hold'[h] = r /\ OnlyHolder(h)
  BY <1>4, <1>8 DEF OnlyHolder
<1>10. /\ Cardinality(Holding(p)') = Cardinality(Holding(p)) + 1
       /\ \A q : q # p => Holding(q)' = Holding(q)
  BY <1>1, <1>8, <1>9, TakesOne
<1>11. refs' \in [Plugins -> Nat] /\ refs'[p] = refs[p] + 1
       /\ \A q \in Plugins : q # p => refs'[q] = refs[q]
  BY <1>1, <1>3 DEF Fields
<1>12. RefsCounted'
  <2>1. refs'[p] >= 1 + Cardinality(Holding(p)')
    <3>1. refs[p] \in Nat /\ refs[p] >= 1 + Cardinality(Holding(p))
      BY <1>1, <1>2 DEF Fields, IInv, HoldInv, RefsCounted
    <3> QED BY <1>10, <1>11, <3>1, ReadersFinite
  <2>2. ASSUME NEW q \in Plugins, q # p, state'[q] # "none"
        PROVE  refs'[q] >= 1 + Cardinality(Holding(q)')
    BY <1>1, <1>10, <1>11, <2>2 DEF rest, IInv, HoldInv, RefsCounted
  <2> QED BY <2>1, <2>2 DEF RefsCounted
<1> QED BY <1>1, <1>2, <1>5, <1>8, <1>11, <1>12, HolderKeeps DEF Fields

LEMMA PutKeeps ==
  ASSUME IInv, NEW h \in Holders, Put(h)
  PROVE  IInv'
<1>1. Fields /\ hold[h].place = "holding" /\ UNCHANGED <<enabled, rest>>
  BY TypeParts DEF IInv, Put
<1>2. PICK p \in Plugins : p = hold[h].at /\ state[p] \notin {"none", "allocated"}
  BY <1>1 DEF IInv, HoldInv, Found
<1>3. refs' = [refs EXCEPT ![p] = @ - 1] /\ hold' = [hold EXCEPT ![h] = HoldIdle]
  BY <1>2 DEF Put
<1>4. HoldIdle \in HoldRecord /\ HoldIdle.place = "idle" /\ HoldIdle.counted = "no"
  BY DEF HoldIdle, HoldRecord
<1>5. hold'[h] = HoldIdle /\ OnlyHolder(h)
  BY <1>1, <1>3 DEF Fields, OnlyHolder
<1>6. /\ Cardinality(Holding(p)') = Cardinality(Holding(p)) - 1
      /\ Cardinality(Holding(p)) \in Nat \ {0}
      /\ \A q : q # p => Holding(q)' = Holding(q)
  BY <1>1, <1>2, <1>4, <1>5, PutsOne
<1>7. refs[p] - 1 \in Nat /\ refs[p] \in Nat /\ refs[p] >= 1 + Cardinality(Holding(p))
  BY <1>1, <1>2, <1>6 DEF Fields, IInv, HoldInv, RefsCounted
<1>8. refs' = [refs EXCEPT ![p] = refs[p] - 1] /\ refs \in [Plugins -> Nat]
  BY <1>1, <1>3 DEF Fields
<1>9. refs' \in [Plugins -> Nat] /\ refs'[p] = refs[p] - 1
      /\ \A q \in Plugins : q # p => refs'[q] = refs[q]
  <2> HIDE <1>3
  <2> QED BY <1>7, <1>8
<1>10. RefsCounted'
  <2>1. refs'[p] >= 1 + Cardinality(Holding(p)')
    BY <1>6, <1>7, <1>9
  <2>2. ASSUME NEW q \in Plugins, q # p, state'[q] # "none"
        PROVE  refs'[q] >= 1 + Cardinality(Holding(q)')
    BY <1>1, <1>6, <1>9, <2>2 DEF rest, IInv, HoldInv, RefsCounted
  <2> QED BY <2>1, <2>2 DEF RefsCounted
<1> QED BY <1>1, <1>3, <1>4, <1>9, <1>10, HolderKeeps DEF Fields

LEMMA HoldersKeep ==
  ASSUME IInv, NEW h \in Holders,
         \/ Take(h) \/ Switch(h) \/ SwitchGone(h) \/ Put(h)
         \/ \E p \in Plugins : Look(h, p)
  PROVE  IInv'
<1>1. Fields /\ hold \in [Holders -> HoldRecord]
  BY TypeParts DEF IInv, Fields, HoldRecord
<1>2. CASE Take(h)
  BY <1>2, TakeKeeps
<1>3. CASE Put(h)
  BY <1>3, PutKeeps
<1>4. hold[h].place = "holding" =>
        hold[h].at \in Plugins /\ state[hold[h].at] \notin {"none", "allocated"}
  BY DEF IInv, HoldInv, Found
<1>5. hold[h].counted = "before" =>
        /\ hold[h].place \in {"holding", "oops"} /\ Listed(hold[h].at)
        /\ unreg[hold[h].at].place # "unlinking"
  BY DEF IInv, HoldInv, Found, HeldStays, TestedUnheld
<1>6. CASE Switch(h)
  <2>1. PICK r \in HoldRecord : r = hold[h]
    BY <1>1
  <2>2. hold' = [hold EXCEPT ![h] = r]
    BY <1>1, <1>6, <2>1 DEF Switch
  <2>3. enabled' \subseteq Plugins
    BY <1>1, <1>4, <1>6 DEF Switch, Fields
  <2> QED BY <1>4, <1>5, <1>6, <2>1, <2>2, <2>3, UncountedKeeps DEF Switch
<1>7. CASE SwitchGone(h)
  <2>1. PICK r \in HoldRecord : r = [hold[h] EXCEPT !.place = "oops"]
    <3>1. [hold[h] EXCEPT !.place = "oops"] \in HoldRecord
      BY <1>1 DEF HoldRecord
    <3> QED BY <3>1
  <2>2. r.place = "oops" /\ r.at = hold[h].at /\ r.counted = hold[h].counted
    BY <1>1, <2>1 DEF HoldRecord
  <2>3. hold' = [hold EXCEPT ![h] = r]
    BY <1>1, <1>7, <2>1 DEF SwitchGone
  <2>4. enabled' \subseteq Plugins
    BY <1>1, <1>7 DEF SwitchGone, Fields
  <2>5. r.counted = "before" => /\ r.place \in {"holding", "oops"} /\ Listed(r.at)
                                /\ unreg[r.at].place # "unlinking"
    BY <1>5, <2>2
  <2>6. /\ hold[h].place = "holding" /\ UNCHANGED <<refs, rest>>
        /\ r.at \in Plugins /\ state[r.at] \notin {"none", "allocated"}
    BY <1>4, <1>7, <2>2 DEF SwitchGone
  <2> QED BY <2>2, <2>3, <2>4, <2>5, <2>6, UncountedKeeps
<1>8. CASE \E p \in Plugins : Look(h, p)
  <2>1. PICK p \in Plugins : Look(h, p)
    BY <1>8
  <2>2. PICK r \in HoldRecord : r = [place |-> "found", at |-> p, counted |-> "no"]
    BY DEF HoldRecord
  <2>3. hold' = [hold EXCEPT ![h] = r] /\ Listed(p) /\ enabled' \subseteq Plugins
    BY <1>1, <2>1, <2>2 DEF Look, Fields
  <2> QED BY <2>1, <2>2, <2>3, UncountedKeeps DEF Look, Listed
<1> QED BY <1>2, <1>3, <1>6, <1>7, <1>8

---------------------------------------------------------------------------
(* Plugins: registration and unregistration *)

LEMMA PluginKeeps ==
  ASSUME IInv, TypeOK', NEW p \in Plugins, UNCHANGED <<active, disp, hold>>,
         \A q \in Plugins : q # p =>
           state'[q] = state[q] /\ refs'[q] = refs[q] /\ unreg'[q] = unreg[q],
         IF state[p] = "none" THEN refs'[p] = 1 ELSE refs'[p] = refs[p],
         state[p] \notin {"none", "allocated"} => state'[p] \notin {"none", "allocated"},
         Listed(p) => state'[p] = "listed" \/ unreg[p].place = "unlinking",
         unreg'[p].place = "unlinking" => refs[p] = 1 /\ state[p] # "none",
         unreg'[p].place \in {"testing", "unlinking"} => state'[p] = "listed",
         unreg'[p].place \in {"exiting", "freeing"} => state'[p] = "unlinked",
         Leaving(p)' => Leaving(p) \/ active[p] = 0
  PROVE  IInv'
<1>1. Fields
  BY TypeParts DEF IInv
<1>2. \A q : Holding(q)' = Holding(q) /\ Inferring(q)' = Inferring(q)
  BY DEF Holding, Inferring
<1>3. Found'
  BY DEF IInv, HoldInv, Found
<1>4. RefsCounted'
  <2>1. CASE state[p] = "none"
    <3>1. Holding(p) = {}
      BY <2>1 DEF IInv, HoldInv, Found, Holding
    <3>2. refs'[p] >= 1 + Cardinality(Holding(p)')
      BY <1>2, <2>1, <3>1, FS_EmptySet
    <3> QED BY <1>2, <3>2 DEF IInv, HoldInv, RefsCounted
  <2>2. CASE state[p] # "none"
    BY <1>2, <2>2 DEF IInv, HoldInv, RefsCounted
  <2> QED BY <2>1, <2>2
<1>5. HeldStays'
  <2> SUFFICES ASSUME NEW h \in Holders, hold[h].counted = "before"
               PROVE  state'[hold[h].at] = "listed"
    BY DEF HeldStays, Listed
  <2>1. /\ hold[h].at \in Plugins /\ Listed(hold[h].at)
        /\ unreg[hold[h].at].place # "unlinking"
    BY DEF IInv, HoldInv, Found, HeldStays, TestedUnheld
  <2> QED BY <2>1 DEF Listed
<1>t. TestedUnheld'
  <2> SUFFICES ASSUME NEW h \in Holders, hold[h].counted = "before",
                      unreg'[hold[h].at].place = "unlinking"
               PROVE  FALSE
    BY DEF TestedUnheld
  <2>1. /\ hold[h].at \in Plugins /\ hold[h].place \in {"holding", "oops"}
        /\ unreg[hold[h].at].place # "unlinking"
    BY DEF IInv, HoldInv, Found, TestedUnheld
  <2>2. hold[h].at = p
    BY <2>1
  <2>3. h \in Holding(p)
    BY <2>1, <2>2 DEF Holding
  <2>4. Cardinality(Holding(p)) # 0 /\ Cardinality(Holding(p)) \in Nat
    BY <2>3, ReadersFinite, FS_EmptySet
  <2>5. refs[p] = 1 /\ refs[p] >= 1 + Cardinality(Holding(p))
    BY <2>2 DEF IInv, HoldInv, RefsCounted
  <2> QED BY <2>4, <2>5
<1>6. Visiting' /\ ActiveCounted'
  BY <1>2 DEF IInv, DispInv, Visiting, ActiveCounted
<1>7. LeavingUnlinked' /\ TestingListed'
  BY DEF IInv, DispInv, LeavingUnlinked, TestingListed, Listed
<1>8. DrainedBeforeExit'
  <2> SUFFICES ASSUME NEW d \in Dispatchers, disp[d].place = "infer",
                      unreg'[disp[d].at].place
                        \in {"testing", "unlinking", "exiting", "freeing"},
                      ~unreg'[disp[d].at].expired
               PROVE  disp[d].late
    BY DEF DrainedBeforeExit, Leaving
  <2>1. disp[d].at \in Plugins
    BY DEF IInv, DispInv, Visiting
  <2>2. CASE disp[d].at # p
    BY <2>1, <2>2 DEF IInv, DispInv, DrainedBeforeExit, Leaving
  <2>3. CASE disp[d].at = p
    <3>1. d \in Inferring(p)
      BY <2>3 DEF Inferring
    <3>2. Cardinality(Inferring(p)) # 0 /\ Cardinality(Inferring(p)) \in Nat
      BY <3>1, ReadersFinite, FS_EmptySet
    <3>3. active[p] # 0
      BY <3>2 DEF IInv, DispInv, ActiveCounted
    <3>4. Leaving(p)
      BY <2>3, <3>3 DEF Leaving
    <3> QED BY <2>3, <3>4 DEF IInv, DispInv, DrainedBeforeExit
  <2> QED BY <2>2, <2>3
<1> QED BY <1>3, <1>4, <1>5, <1>t, <1>6, <1>7, <1>8 DEF IInv, HoldInv, DispInv

LEMMA RegisterKeeps ==
  ASSUME IInv, NEW p \in Plugins, Allocate(p) \/ InitFails(p) \/ Link(p)
  PROVE  IInv'
<1>1. Fields /\ TypeOK'
  BY TypeParts, RegisterTyped DEF IInv
<1>2. unreg[p].place \notin {"testing", "unlinking", "exiting", "freeing"}
  BY DEF Allocate, InitFails, Link, IInv, DispInv, LeavingUnlinked, TestingListed, Listed
<1>3. Leaving(p)' => Leaving(p)
  BY DEF Allocate, InitFails, Link, Leaving
<1>4. CASE Allocate(p)
  BY <1>1, <1>2, <1>3, <1>4, PluginKeeps DEF Allocate, Fields, Listed
<1>5. CASE InitFails(p)
  BY <1>1, <1>2, <1>3, <1>5, PluginKeeps DEF InitFails, Fields, Listed
<1>6. CASE Link(p)
  BY <1>1, <1>2, <1>3, <1>6, PluginKeeps DEF Link, Fields, Listed
<1> QED BY <1>4, <1>5, <1>6

LEMMA RmmodKeeps ==
  ASSUME IInv, NEW p \in Plugins, Rmmod(p)
  PROVE  IInv'
<1>1. Fields /\ TypeOK'
  BY TypeParts, RmmodTyped DEF IInv
<1>2. state[p] # "none"
  BY DEF Rmmod, Unregister, AwaitInferences, TestRefs, Unlink, Listed, Exit, Free,
         IInv, DispInv, LeavingUnlinked, TestingListed
<1>3. CASE AwaitInferences(p)
  <2>1. /\ unreg'[p].place \in {"waiting", "testing"}
        /\ unreg'[p].place = "testing" => unreg'[p].expired \/ active[p] = 0
        /\ \A q \in Plugins : q # p => unreg'[q] = unreg[q]
    <3>1. CASE Wait(p)
      BY <1>1, <3>1 DEF Wait, Fields
    <3>2. CASE WaitEnds(p)
      BY <1>1, <3>2, WaitEndsTo
    <3> QED BY <1>3, <3>1, <3>2 DEF AwaitInferences
  <2>2. Leaving(p)' => active[p] = 0
    BY <2>1 DEF Leaving
  <2> QED BY <1>1, <1>2, <1>3, <2>1, <2>2, PluginKeeps DEF AwaitInferences, Listed
<1>t. CASE TestRefs(p)
  <2>1. /\ unreg'[p].place = IF Busy(p) THEN "done" ELSE "unlinking"
        /\ unreg'[p].expired = unreg[p].expired
        /\ \A q \in Plugins : q # p => unreg'[q] = unreg[q]
    BY <1>1, <1>t DEF TestRefs, At, Fields
  <2>2. Leaving(p)' => Leaving(p)
    BY <1>t, <2>1 DEF TestRefs, Leaving
  <2>3. unreg'[p].place = "unlinking" => refs[p] = 1
    <3>1. refs[p] \in Nat /\ refs[p] >= 1 + Cardinality(Holding(p))
      BY <1>1, <1>2 DEF Fields, IInv, HoldInv, RefsCounted
    <3> QED BY <2>1, <3>1, ReadersFinite DEF Busy
  <2>4. Listed(p)
    BY <1>t DEF TestRefs, IInv, DispInv, TestingListed
  <2> QED BY <1>1, <1>2, <1>t, <2>1, <2>2, <2>3, <2>4, PluginKeeps DEF TestRefs, Listed
<1>u. CASE Unlink(p)
  <2>1. /\ unreg'[p].place = "exiting" /\ unreg'[p].expired = unreg[p].expired
        /\ state'[p] = "unlinked"
        /\ \A q \in Plugins : q # p => unreg'[q] = unreg[q] /\ state'[q] = state[q]
    BY <1>1, <1>u DEF Unlink, At, Fields
  <2>2. Leaving(p)' => Leaving(p)
    BY <1>u, <2>1 DEF Unlink, Leaving
  <2> QED BY <1>1, <1>2, <1>u, <2>1, <2>2, PluginKeeps DEF Unlink
<1>4. CASE Exit(p)
  <2>1. /\ unreg'[p].place = "freeing" /\ unreg'[p].expired = unreg[p].expired
        /\ \A q \in Plugins : q # p => unreg'[q] = unreg[q]
    BY <1>1, <1>4 DEF Exit, At, Fields
  <2>2. state[p] = "unlinked"
    BY <1>4 DEF Exit, IInv, DispInv, LeavingUnlinked
  <2>3. Leaving(p)' => Leaving(p)
    BY <1>4, <2>1 DEF Exit, Leaving
  <2> QED BY <1>1, <1>2, <1>4, <2>1, <2>2, <2>3, PluginKeeps DEF Exit, Listed
<1>5. CASE Free(p)
  <2>1. /\ unreg'[p].place = "done" /\ state'[p] = "freed"
        /\ \A q \in Plugins : q # p => unreg'[q] = unreg[q] /\ state'[q] = state[q]
    BY <1>1, <1>5 DEF Free, At, Fields
  <2>2. state[p] = "unlinked"
    BY <1>5 DEF Free, IInv, DispInv, LeavingUnlinked
  <2>3. ~Leaving(p)'
    BY <2>1 DEF Leaving
  <2> QED BY <1>1, <1>2, <1>5, <2>1, <2>2, <2>3, PluginKeeps DEF Free, Listed
<1> QED BY <1>3, <1>t, <1>u, <1>4, <1>5 DEF Rmmod, Unregister

---------------------------------------------------------------------------
(* The invariant holds in every state *)

LEMMA SameKeeps ==
  ASSUME IInv,
         UNCHANGED <<list, state, resident, refs, active, enabled, unreg, disp, hold>>,
         manager' \in {"up", "down", "oops"}
  PROVE  IInv'
<1>1. ListOK /\ Fields
  BY TypeParts DEF IInv
<1>2. ListOK' /\ Fields'
  BY <1>1 DEF ListOK, ToSet, IsInjective, Fields
<1>3. HoldInv'
  BY DEF IInv, HoldInv, Found, RefsCounted, HeldStays, TestedUnheld, Holding, Listed
<1>4. DispInv'
  BY DEF IInv, DispInv, Visiting, ActiveCounted, LeavingUnlinked, TestingListed,
         DrainedBeforeExit, Inferring, Leaving, Listed
<1>5. TypeOK'
  BY <1>2, TypeParts, PTL
<1> QED BY <1>3, <1>4, <1>5 DEF IInv

LEMMA IInvStep == IInv /\ [Next]_vars => IInv'
<1> SUFFICES ASSUME IInv, [Next]_vars PROVE IInv'
  OBVIOUS
<1>1. ASSUME NEW p \in Plugins, Allocate(p) \/ InitFails(p) \/ Link(p) \/ Rmmod(p)
      PROVE  IInv'
  BY <1>1, RegisterKeeps, RmmodKeeps
<1>2. ASSUME NEW d \in Dispatchers, \/ Dispatch(d) \/ Visit(d) \/ Enter(d)
                                    \/ Succeed(d) \/ Fail(d) \/ Vanish(d)
      PROVE  IInv'
  BY <1>2, DispatchersKeep
<1>3. ASSUME NEW h \in Holders, \/ Take(h) \/ Switch(h) \/ SwitchGone(h) \/ Put(h)
                                \/ \E p \in Plugins : Look(h, p)
      PROVE  IInv'
  BY <1>3, HoldersKeep
<1>4. CASE ManagerExit
  BY <1>4, SameKeeps DEF ManagerExit
<1>5. CASE UNCHANGED vars
  BY <1>5, SameKeeps, TypeParts DEF vars, IInv, Fields
<1> QED BY <1>1, <1>2, <1>3, <1>4, <1>5 DEF Next

LEMMA IInvAlways == Spec => []IInv
  BY IInvInit, IInvStep, PTL DEF Spec

(* The state is well formed however plugins come and go under their readers: in *)
(* particular the list holds each registered plugin once and no other, and the  *)
(* two counts never fall below zero.                                            *)
THEOREM PluginTypes == Spec => []TypeOK
<1>1. IInv => TypeOK
  BY DEF IInv
<1> QED BY <1>1, IInvAlways, PTL

(* ai_plugin_unregister() unlinks and frees no plugin that was taken before it  *)
(* tested the count: every such holder is in the count.  Nothing holds back one *)
(* that is counted between the test and list_del().                             *)
THEOREM HeldStaysTheorem == Spec => []HeldStays
<1>1. IInv => HeldStays
  BY DEF IInv, HoldInv
<1> QED BY <1>1, IInvAlways, PTL

(* Unless its bounded wait ran out, unregistration goes on to ops->exit() with  *)
(* no inference under way but those that entered behind its last test of        *)
(* active_inferences; nothing holds those back.                                 *)
THEOREM DrainedBeforeExitTheorem == Spec => []DrainedBeforeExit
<1>1. IInv => DrainedBeforeExit
  BY DEF IInv, DispInv
<1> QED BY <1>1, IInvAlways, PTL
=============================================================================
