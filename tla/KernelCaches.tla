---------------------------- MODULE KernelCaches ----------------------------
(* The small caches of kai/core/kai_mem_opt.c and kai/core/kai_net_opt.c: the   *)
(* page history the prefetcher predicts from, the LSM decision cache and the    *)
(* DNS cache.  Each call is one step under the lock of its cache, but an LSM    *)
(* decision is stamped before the lock is taken.                                *)
EXTENDS Naturals, SequencesExt

CONSTANTS
  Pages, History,         \* page frames; PREFETCH_HISTORY
  Files, Decisions,       \* inode hashes and what the LSM decided of them
  Inserters, MaxEntries,  \* tasks in kai_lsm_cache_insert(); bound on its entries
  Hosts, Addresses, DnsSize,  \* DNS_CACHE_SIZE
  Lifetime, MaxClock,     \* the time an entry lives; bound on the clock
  NoFile

CachesAssumption ==
  /\ History \in Nat \ {0} /\ DnsSize \in Nat \ {0}
  /\ Lifetime \in Nat /\ MaxClock \in Nat /\ NoFile \notin Files /\ Decisions # {}

VARIABLES
  history,    \* prefetch_history, newest first
  predicted,  \* the pages of the last prediction
  lsm,        \* the entries of lsm_cache, newest first in their bucket
  inserter,   \* per task, the entry it is about to insert
  dns,        \* dns_lru, most recently used first; dns_table holds the same
  clock       \* ktime_get_ns()

pageVars == <<history, predicted>>
lsmVars == <<lsm, inserter>>
recordVars == <<lsmVars, dns, clock>>
cacheVars == <<pageVars, recordVars>>

Hot == 3  \* accesses from which a page counts as hot; counts stop there
Expiry == 0..MaxClock + Lifetime
NoEntry == [file |-> NoFile, decision |-> CHOOSE d \in Decisions : TRUE, expires |-> 0]

TypeOK ==
  /\ history \in Seq([page : Pages, count : 1..Hot]) /\ Len(history) <= History
  /\ predicted \in Seq(Pages)
  /\ lsm \in Seq([file : Files, decision : Decisions, expires : Expiry])
  /\ inserter \in [Inserters -> [file : Files \cup {NoFile}, decision : Decisions,
                                 expires : Expiry]]
  /\ dns \in Seq([host : Hosts, address : Addresses, expires : Expiry])
  /\ Len(dns) <= DnsSize
  /\ clock \in 0..MaxClock

Init ==
  /\ history = <<>> /\ predicted = <<>> /\ lsm = <<>> /\ dns = <<>> /\ clock = 0
  /\ inserter = [i \in Inserters |-> NoEntry]

---------------------------------------------------------------------------
(* Page history *)

(* A page that is in the history keeps its place; the oldest entry makes room,  *)
(* also when there is then no memory for the new one.                           *)
Room(seq, size) == IF Len(seq) >= size THEN Front(seq) ELSE seq

Counted(page) ==
  [i \in DOMAIN history |->
     IF history[i].page = page /\ history[i].count < Hot
     THEN [history[i] EXCEPT !.count = @ + 1] ELSE history[i]]

RecordAccess(page) ==
  /\ \/ /\ \E i \in DOMAIN history : history[i].page = page
        /\ history' = Counted(page)
     \/ /\ \A i \in DOMAIN history : history[i].page # page
        /\ \/ history' = <<[page |-> page, count |-> 1]>> \o Room(history, History)
           \/ history' = Room(history, History)
  /\ UNCHANGED <<predicted, recordVars>>

(* The hot pages come in the order of the history, not of their counts.         *)
HotPages(max) ==
  FoldLeft(LAMBDA hot, e : IF Len(hot) < max /\ e.count >= Hot THEN Append(hot, e.page)
                                                                ELSE hot,
           <<>>, history)

Predict(max) ==
  /\ predicted' = HotPages(max)
  /\ UNCHANGED <<history, recordVars>>

---------------------------------------------------------------------------
(* LSM decisions: an entry is stamped, then linked, and never removed *)

Stamp(i, file, decision) ==
  /\ inserter[i].file = NoFile
  /\ inserter' = [inserter EXCEPT ![i] =
       [file |-> file, decision |-> decision, expires |-> clock + Lifetime]]
  /\ UNCHANGED <<pageVars, lsm, dns, clock>>

LinkDecision(i) ==
  /\ inserter[i].file # NoFile /\ Len(lsm) < MaxEntries
  /\ lsm' = <<inserter[i]>> \o lsm
  /\ inserter' = [inserter EXCEPT ![i] = NoEntry]
  /\ UNCHANGED <<pageVars, dns, clock>>

---------------------------------------------------------------------------
(* DNS and connections *)

(* Mutant for OneRecordPerKey: an expired entry is taken for none.              *)
NamedLive(host) == {i \in DOMAIN dns : dns[i].host = host /\ clock < dns[i].expires}

Named(host) == {i \in DOMAIN dns : dns[i].host = host}
Place(host) == CHOOSE i \in Named(host) : TRUE

(* An expired entry is neither returned nor removed.                            *)
DnsLookup(host) ==
  /\ Named(host) # {} /\ clock < dns[Place(host)].expires
  /\ dns' = <<dns[Place(host)]>> \o RemoveAt(dns, Place(host))
  /\ UNCHANGED <<pageVars, lsmVars, clock>>

Fresh(host, address) == [host |-> host, address |-> address, expires |-> clock + Lifetime]

(* A host that is known is updated where it stands in the LRU list.             *)
DnsInsert(host, address) ==
  /\ \/ /\ Named(host) # {}
        /\ dns' = [dns EXCEPT ![Place(host)] = Fresh(host, address)]
     \/ /\ Named(host) = {}
        /\ \/ dns' = <<Fresh(host, address)>> \o Room(dns, DnsSize)
           \/ dns' = Room(dns, DnsSize)
  /\ UNCHANGED <<pageVars, lsmVars, clock>>

DnsFlush ==
  /\ dns' = <<>>
  /\ UNCHANGED <<pageVars, lsmVars, clock>>

Pass ==
  /\ clock < MaxClock
  /\ clock' = clock + 1
  /\ UNCHANGED <<pageVars, lsmVars, dns>>

PageHistory ==
  \/ \E page \in Pages : RecordAccess(page)
  \/ \E max \in 1..History : Predict(max)

Records ==
  \/ \E i \in Inserters :
       LinkDecision(i) \/ \E file \in Files, decision \in Decisions : Stamp(i, file, decision)
  \/ \E host \in Hosts : DnsLookup(host) \/ \E address \in Addresses : DnsInsert(host, address)
  \/ DnsFlush \/ Pass

Spec == Init /\ [][PageHistory \/ Records]_cacheVars

---------------------------------------------------------------------------
(* Properties *)

(* However entries age, are evicted, moved to the front or renewed in place, a  *)
(* page has one count and a host one address: neither cache answers by the      *)
(* older of two entries.                                                        *)
OneRecordPerKey ==
  /\ \A i, j \in DOMAIN history : history[i].page = history[j].page => i = j
  /\ \A i, j \in DOMAIN dns : dns[i].host = dns[j].host => i = j
=============================================================================
