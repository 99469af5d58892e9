----------------------------- MODULE CacheStore -----------------------------
(* What a kai_cache promises its callers (kai/cache/kai_cache.h): a lookup      *)
(* gives the value that was put under the key last, or nothing, and nothing     *)
(* once the key was removed or the cache flushed.  Which values it forgets, and *)
(* when, is its own business: capacity, expiry, a failed allocation may take    *)
(* any of them at any time.                                                     *)
CONSTANTS Keys, Values, None

VARIABLES
  store,     \* the value a lookup of each key would find, or None
  call       \* the call just made, with the value given or found

vars == <<store, call>>

Call(op, k, v) == [op |-> op, key |-> k, value |-> v]
NoCall == Call("none", None, None)

TypeOK ==
  /\ store \in [Keys -> Values \cup {None}]
  /\ call \in [op : {"none", "put", "get", "remove", "flush"},
               key : Keys \cup {None}, value : Values \cup {None}]

Init ==
  /\ store = [k \in Keys |-> None]
  /\ call = NoCall

IsStore == store' \in [Keys -> Values \cup {None}]

(* Every key of S keeps its value or loses it.                                  *)
Fades(S) == IsStore /\ \A k \in S : store'[k] \in {store[k], None}

Put(k, v) ==
  /\ Fades(Keys \ {k})
  /\ store'[k] \in {v, None}
  /\ call' = Call("put", k, v)

Get(k) ==
  /\ \E v \in {store[k], None} : call' = Call("get", k, v)
  /\ Fades({k}) /\ \A j \in Keys \ {k} : store'[j] = store[j]
  /\ call'.value # None => store'[k] = store[k]

Remove(k) ==
  /\ Fades(Keys \ {k})
  /\ store'[k] = None
  /\ call' = Call("remove", k, None)

Flush ==
  /\ store' = [k \in Keys |-> None]
  /\ call' = Call("flush", None, None)

Forget ==
  /\ Fades(Keys)
  /\ call' = NoCall

Next ==
  \/ \E k \in Keys : Get(k) \/ Remove(k) \/ \E v \in Values : Put(k, v)
  \/ Flush \/ Forget

Spec == Init /\ [][Next]_vars
=============================================================================
