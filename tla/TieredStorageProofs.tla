------------------------- MODULE TieredStorageProofs -------------------------
(***************************************************************************)
(* AtRestOnDisk for every set of keys, values and threads and every cache  *)
(* capacity.  A step touches the key its call works on and, through the    *)
(* cache, at most one other key, which it evicts: Disturbs says what that  *)
(* can do to a key, and the invariant is shown to survive it once and for  *)
(* all.  What is left is one step per access of the call itself.           *)
(***************************************************************************)
EXTENDS TieredStorage, DataTheorems

Ops      == {"idle", "get", "locate", "put", "remove", "archive_key", "archive_keys"}
Accesses == {"-", "hot", "warm", "cold", "promote", "unlink", "coldUnlink"}
Calls    == [op : Ops, key : Keys \cup {None}, arg : Value, at : Accesses]

TiersTyped ==
    /\ hot \in [Keys -> Value] /\ warm \in [Keys -> Value]
    /\ cold \in [Keys -> Value] /\ latest \in [Keys -> Value]

Types ==
    /\ TiersTyped
    /\ call \in [Threads -> Calls]
    /\ \A t \in Threads : /\ call[t].key = None <=> call[t] = Idle
                          /\ call[t].op = "put" => call[t].arg # None

(* Begin lets only one call at a time work on a key that is not shared. *)
Exclusive ==
    \A t, u \in Threads : call[t].key = call[u].key /\ call[t].key \in Keys \ Shared => t = u

Settled(k) ==
    k \notin uncertain => Disk(k) = latest[k] /\ hot[k] \in {None, latest[k]}

Archiving(t, access) == At(t, {"archive_key", "archive_keys"}, access)

(* What a remove carries is the value it removes. *)
RemoveOK(t, k) ==
    call[t].op = "remove" /\ k \notin uncertain =>
        /\ call[t].at = "warm" => call[t].arg \in {None, latest[k]}
        /\ call[t].at = "unlink" => call[t].arg = latest[k] /\ call[t].arg # None
        /\ call[t].at = "cold" =>
              IF call[t].arg = None THEN cold[k] = latest[k] ELSE call[t].arg = latest[k]
        /\ call[t].at = "coldUnlink" => call[t].arg = latest[k]

(* How far the tiers are from settled while t works on key k. *)
CallOK(t, k) ==
    /\ ~ HalfMoved(t) /\ ~ At(t, {"put"}, "hot") => Settled(k)
    /\ At(t, {"put"}, "hot") /\ k \notin uncertain => warm[k] = call[t].arg
    /\ call[t].op \in {"get", "locate", "remove"} /\ call[t].at # "hot" => hot[k] = None
    /\ At(t, {"get", "locate", "remove"}, "cold") => warm[k] = None
    /\ At(t, {"remove"}, "coldUnlink") => warm[k] = None
    /\ At(t, {"get"}, "promote") /\ k \notin uncertain => call[t].arg = latest[k]
    /\ Archiving(t, "unlink") /\ k \notin uncertain =>
          call[t].arg = latest[k] /\ warm[k] = latest[k]
    /\ Archiving(t, "cold") /\ k \notin uncertain =>
          /\ call[t].arg = latest[k]
          /\ warm[k] \in {None, latest[k]} /\ hot[k] \in {None, latest[k]}
    /\ RemoveOK(t, k)

Inv ==
    /\ Types
    /\ Exclusive
    /\ \A k \in Keys \ Shared : ~ InUse(k) => Settled(k)
    /\ \A t \in Threads : call[t].key \in Keys \ Shared => CallOK(t, call[t].key)

(* A step of t's call, once it has begun. *)
Access(t) ==
    \/ HotLookup(t) \/ WarmLookup(t) \/ ColdLookup(t) \/ Promote(t)
    \/ PutWarm(t) \/ PutHot(t) \/ DropHot(t) \/ WarmRead(t) \/ WarmUnlink(t)
    \/ Archive(t) \/ ColdRead(t) \/ ColdUnlink(t) \/ Fail(t)

(* What a step of another key's call may do to k: nothing, or evict it from the
   cache, with or without a flush.                                           *)
Disturbs(k) ==
    /\ cold'[k] = cold[k] /\ latest'[k] = latest[k]
    /\ \/ /\ hot'[k] = hot[k] /\ warm'[k] = warm[k]
          /\ k \in uncertain' <=> k \in uncertain
       \/ /\ hot[k] # None /\ hot'[k] = None /\ warm'[k] = warm[k]
          /\ k \in uncertain' <=> k \in uncertain
       \/ /\ hot[k] # None /\ hot'[k] = None /\ warm'[k] = hot[k]
          /\ k \in uncertain' <=>
               \/ k \in uncertain
               \/ \E u \in Threads : At(u, {"put"}, "hot") /\ call[u].key = k

(* What a step of t leaves alone. *)
OnlyDisturbs(t) ==
    /\ \A u \in Threads : u # t => call'[u] = call[u]
    /\ \A k \in Keys : k # call[t].key => Disturbs(k)

-----------------------------------------------------------------------------
(* Eviction keeps a settled key settled: the flush of a cached entry writes what
   is on disk already, and a failed flush loses nothing.                     *)
LEMMA SettledStays ==
    ASSUME NEW k \in Keys, Settled(k), Disturbs(k)
    PROVE  Settled(k)'
BY DEF Settled, Disturbs, Disk

(* So does it for a key that a call is at work on. *)
LEMMA CallStaysOK ==
    ASSUME NEW t \in Threads, NEW k \in Keys, call[t].key = k, call'[t] = call[t],
           CallOK(t, k), Disturbs(k)
    PROVE  CallOK(t, k)'
<1>1. ~ HalfMoved(t)' /\ ~ At(t, {"put"}, "hot")' => Settled(k)'
  BY SettledStays DEF CallOK, HalfMoved, At
<1> QED BY <1>1 DEF CallOK, HalfMoved, Disturbs, At, Archiving, RemoveOK, Settled

(* The cache's put changes one entry and evicts at most one other. *)
LEMMA HotPutDisturbs ==
    ASSUME Types, NEW k \in Keys, NEW v \in Value, HotPut(k, v), UNCHANGED cold,
           NEW j \in Keys, j # k, latest'[j] = latest[j]
    PROVE  Disturbs(j)
BY DEF Types, TiersTyped, HotPut, HotPutWithin, Disturbs, Cached

LEMMA HotPutOwn ==
    ASSUME Types, NEW k \in Keys, NEW v \in Value, HotPut(k, v)
    PROVE  /\ hot'[k] = v /\ warm'[k] = warm[k]
           /\ k \in uncertain' <=> k \in uncertain
           /\ hot' \in [Keys -> Value] /\ warm' \in [Keys -> Value]
BY DEF Types, TiersTyped, HotPut, HotPutWithin, Cached
-----------------------------------------------------------------------------
(* What Go and Return do to the calls. *)
LEMMA GoCall ==
    ASSUME Types, NEW t \in Threads, call[t].key \in Keys,
           NEW a \in Accesses, NEW v \in Value, Go(t, a, v),
           call[t].op = "put" => v # None
    PROVE  /\ call'[t].op = call[t].op /\ call'[t].key = call[t].key
           /\ call'[t].at = a /\ call'[t].arg = v /\ call'[t] # Idle
           /\ \A u \in Threads : u # t => call'[u] = call[u]
           /\ call' \in [Threads -> Calls]
           /\ \A u \in Threads : /\ call'[u].key = None <=> call'[u] = Idle
                                 /\ call'[u].op = "put" => call'[u].arg # None
<1>1. /\ call'[t].op = call[t].op /\ call'[t].key = call[t].key
      /\ call'[t].at = a /\ call'[t].arg = v
      /\ \A u \in Threads : u # t => call'[u] = call[u]
      /\ call' \in [Threads -> Calls]
  BY DEF Types, Go, Calls
<1>2. call'[t] # Idle
  BY <1>1, StorageAssumption DEF Idle
<1> QED BY <1>1, <1>2, StorageAssumption DEF Types

LEMMA ReturnCall ==
    ASSUME Types, NEW t \in Threads, NEW r, Return(t, r)
    PROVE  /\ call'[t] = Idle
           /\ \A u \in Threads : u # t => call'[u] = call[u]
           /\ call' \in [Threads -> Calls]
           /\ \A u \in Threads : /\ call'[u].key = None <=> call'[u] = Idle
                                 /\ call'[u].op = "put" => call'[u].arg # None
<1>1. Idle \in Calls /\ Idle.key = None /\ Idle.op # "put"
  BY DEF Idle, Calls, Ops, Accesses, Value
<1> QED BY <1>1 DEF Types, Return

(* A step of t's call on k keeps the invariant if it leaves the other keys and
   calls alone and does right by its own key.                                *)
LEMMA OwnStep ==
    ASSUME Inv, Types', NEW t \in Threads, NEW k \in Keys, call[t].key = k,
           OnlyDisturbs(t),
           call'[t] = Idle \/ call'[t].key = k,
           k \notin Shared /\ call'[t] = Idle => Settled(k)',
           k \notin Shared /\ call'[t].key = k => CallOK(t, k)'
    PROVE  Inv'
<1> USE DEF Inv
<1>0. Idle.key = None /\ None \notin Keys
  BY StorageAssumption DEF Idle
<1>1. Exclusive'
  BY <1>0 DEF Exclusive, OnlyDisturbs
<1>2. ASSUME NEW j \in Keys \ Shared, ~ InUse(j)'
      PROVE  Settled(j)'
  <2>1. CASE j = k
    BY <1>2, <2>1 DEF InUse
  <2>2. CASE j # k
    <3>1. ~ InUse(j)
      BY <1>2, <2>2 DEF InUse, OnlyDisturbs
    <3> QED BY <2>2, <3>1, SettledStays DEF OnlyDisturbs
  <2> QED BY <2>1, <2>2
<1>3. ASSUME NEW u \in Threads, NEW j \in Keys \ Shared, call'[u].key = j
      PROVE  CallOK(u, j)'
  <2>1. CASE u = t
    BY <1>0, <1>3, <2>1
  <2>2. CASE u # t
    <3>1. call'[u] = call[u] /\ call[u].key = j
      BY <1>3, <2>2 DEF OnlyDisturbs
    <3>2. j # k
      BY <3>1, <2>2 DEF Exclusive
    <3>3. CallOK(u, j) /\ Disturbs(j)
      BY <3>1, <3>2 DEF OnlyDisturbs
    <3> QED BY <3>1, <3>3, CallStaysOK
  <2> QED BY <2>1, <2>2
<1>4. \A u \in Threads : (call[u].key \in Keys \ Shared => CallOK(u, call[u].key))'
  BY <1>3
<1> QED BY <1>1, <1>2, <1>4
-----------------------------------------------------------------------------
(* A step that leaves the tiers and the histories alone. *)
LEMMA Quiet ==
    ASSUME UNCHANGED <<hot, warm, cold, latest, uncertain>>
    PROVE  \A k \in Keys : Disturbs(k) /\ (Settled(k) => Settled(k)')
BY DEF Disturbs, Settled, Disk

LEMMA BeginStep ==
    ASSUME Inv, NEW t \in Threads, NEW k \in Keys, NEW v \in Value,
           NEW op \in Ops \ {"idle"}, op = "put" => v # None, Begin(t, op, k, v)
    PROVE  Inv'
<1> USE DEF Inv
<1> DEFINE c == [op |-> op, key |-> k, arg |-> v, at |-> FirstAccess(op)]
<1>0. Idle.key = None /\ None \notin Keys /\ c.key = k /\ c # Idle /\ c \in Calls
  <2>1. FirstAccess(op) \in Accesses
    BY DEF FirstAccess, Accesses
  <2> QED BY <2>1, StorageAssumption DEF Idle, Calls
<1>1. /\ call'[t] = c /\ call[t] = Idle
      /\ \A u \in Threads : u # t => call'[u] = call[u]
      /\ UNCHANGED <<hot, warm, cold, latest, uncertain>>
      /\ call' \in [Threads -> Calls]
  BY <1>0 DEF Begin, Types
<1>2. Types'
  <2>1. c.op = "put" => c.arg # None
    OBVIOUS
  <2> QED BY <1>0, <1>1, <2>1, StorageAssumption DEF Types, TiersTyped
<1>3. k \notin Shared => \A u \in Threads : call[u].key # k
  BY DEF Begin
<1>4. Exclusive'
  <2> SUFFICES ASSUME NEW u \in Threads, NEW w \in Threads, call'[u].key = call'[w].key,
                      call'[u].key \in Keys \ Shared
               PROVE  u = w
    BY DEF Exclusive
  <2> QED BY <1>0, <1>1, <1>3 DEF Exclusive
<1>5. \A j \in Keys \ Shared : ~ InUse(j)' => Settled(j)'
  BY <1>0, <1>1, Quiet DEF InUse
<1>6. ASSUME NEW u \in Threads, NEW j \in Keys \ Shared, call'[u].key = j
      PROVE  CallOK(u, j)'
  <2>1. CASE u = t
    <3>1. j = k /\ Settled(k)'
      BY <1>0, <1>1, <1>3, <1>6, <2>1, Quiet DEF InUse
    <3> QED BY <1>1, <2>1, <3>1 DEF CallOK, At, Archiving, HalfMoved, RemoveOK, FirstAccess
  <2>2. CASE u # t
    BY <1>1, <1>6, <2>2, Quiet, CallStaysOK
  <2> QED BY <2>1, <2>2
<1>7. \A u \in Threads : (call[u].key \in Keys \ Shared => CallOK(u, call[u].key))'
  BY <1>6
<1> QED BY <1>2, <1>4, <1>5, <1>7

(* A step that ends the call on k, and one that goes on with it. *)
LEMMA ReturnStep ==
    ASSUME Inv, NEW t \in Threads, NEW k \in Keys, call[t].key = k,
           NEW r, Return(t, r), TiersTyped',
           \A j \in Keys : j # k => Disturbs(j),
           k \notin Shared => Settled(k)'
    PROVE  Inv'
<1>1. call'[t] = Idle /\ OnlyDisturbs(t) /\ Types'
  BY ReturnCall DEF Inv, OnlyDisturbs, Types, TiersTyped
<1>2. Idle.key # k
  BY StorageAssumption DEF Idle
<1> QED BY <1>1, <1>2, OwnStep

Continues(t, k, a, v) ==
    /\ k \notin Shared /\ call'[t].op = call[t].op
    /\ call'[t].at = a /\ call'[t].arg = v

LEMMA GoStep ==
    ASSUME Inv, NEW t \in Threads, NEW k \in Keys, call[t].key = k,
           NEW a \in Accesses, NEW v \in Value, Go(t, a, v), TiersTyped',
           call[t].op = "put" => v # None,
           \A j \in Keys : j # k => Disturbs(j),
           Continues(t, k, a, v) => CallOK(t, k)'
    PROVE  Inv'
<1>1. /\ call'[t].op = call[t].op /\ call'[t].key = k /\ call'[t].at = a
      /\ call'[t].arg = v /\ call'[t] # Idle /\ OnlyDisturbs(t) /\ Types'
  BY GoCall DEF Inv, OnlyDisturbs, Types, TiersTyped
<1> QED BY <1>1, OwnStep DEF Continues

-----------------------------------------------------------------------------
(* The lookups of get and locate change no tier; each learns that the key is
   not where it looked, or has found the value.                              *)
LEMMA LookupStep ==
    ASSUME Inv, NEW t \in Threads, NEW k \in Keys, call[t].key = k,
           HotLookup(t) \/ WarmLookup(t) \/ ColdLookup(t)
    PROVE  Inv'
<1>1. UNCHANGED <<hot, warm, cold, latest, uncertain>>
  BY DEF HotLookup, WarmLookup, ColdLookup
<1>2. hot[k] \in Value /\ warm[k] \in Value /\ cold[k] \in Value /\ None \in Value
  BY DEF Inv, Types, Value, TiersTyped
<1>3. k \notin Shared => CallOK(t, k) /\ Settled(k)
  BY DEF Inv, CallOK, HalfMoved, At, HotLookup, WarmLookup, ColdLookup
<1>4. TiersTyped' /\ \A j \in Keys : Disturbs(j) /\ (Settled(j) => Settled(j)')
  BY <1>1, Quiet DEF Inv, Types, TiersTyped
<1>5. ASSUME NEW r, Return(t, r) PROVE Inv'
  BY <1>3, <1>4, <1>5, ReturnStep
<1>6. CASE HotLookup(t) /\ hot[k] = None /\ Go(t, "warm", None)
  <2>1. Continues(t, k, "warm", None) => CallOK(t, k)'
    BY <1>1, <1>3, <1>4, <1>6 DEF CallOK, HalfMoved, At, Archiving, RemoveOK, HotLookup, Continues
  <2> QED BY <1>2, <1>4, <1>6, <2>1, GoStep DEF Accesses, HotLookup, At
<1>7. CASE WarmLookup(t) /\ warm[k] = None /\ Go(t, "cold", None)
  <2>1. Continues(t, k, "cold", None) => CallOK(t, k)'
    BY <1>1, <1>3, <1>4, <1>7 DEF CallOK, HalfMoved, At, Archiving, RemoveOK, WarmLookup, Continues
  <2> QED BY <1>2, <1>4, <1>7, <2>1, GoStep DEF Accesses, WarmLookup, At
<1>8. CASE WarmLookup(t) /\ warm[k] # None /\ Go(t, "promote", warm[k])
  <2>0. k \notin Shared \cup uncertain => warm[k] = latest[k]
    BY <1>3, <1>8 DEF CallOK, At, WarmLookup, Settled, Disk
  <2>1. Continues(t, k, "promote", warm[k]) => CallOK(t, k)'
    BY <1>1, <1>3, <1>4, <1>8, <2>0
    DEF CallOK, HalfMoved, At, Archiving, RemoveOK, WarmLookup, Continues
  <2> QED BY <1>2, <1>4, <1>8, <2>1, GoStep DEF Accesses, WarmLookup, At
<1>9. CASE ColdLookup(t) /\ cold[k] # None /\ Go(t, "promote", cold[k])
  <2>0. k \notin Shared \cup uncertain => cold[k] = latest[k]
    BY <1>3, <1>9 DEF CallOK, At, ColdLookup, Settled, Disk
  <2>1. Continues(t, k, "promote", cold[k]) => CallOK(t, k)'
    BY <1>1, <1>3, <1>4, <1>9, <2>0
    DEF CallOK, HalfMoved, At, Archiving, RemoveOK, ColdLookup, Continues
  <2> QED BY <1>2, <1>4, <1>9, <2>1, GoStep DEF Accesses, ColdLookup, At
<1> QED BY <1>5, <1>6, <1>7, <1>8, <1>9 DEF HotLookup, WarmLookup, ColdLookup

(* The end of a get from below: the value promoted is the latest. *)
LEMMA PromoteStep ==
    ASSUME Inv, NEW t \in Threads, NEW k \in Keys, call[t].key = k, Promote(t)
    PROVE  Inv'
<1>1. At(t, {"get"}, "promote") /\ HotPut(k, call[t].arg) /\ Return(t, call[t].arg)
  BY DEF Promote
<1>2. call[t].arg \in Value
  BY DEF Inv, Types, Calls
<1>3. /\ hot'[k] = call[t].arg /\ warm'[k] = warm[k]
      /\ k \in uncertain' <=> k \in uncertain
      /\ hot' \in [Keys -> Value] /\ warm' \in [Keys -> Value]
  BY <1>1, <1>2, HotPutOwn DEF Inv
<1>4. \A j \in Keys : j # k => Disturbs(j)
  BY <1>1, <1>2, HotPutDisturbs DEF Inv, Promote
<1>5. k \notin Shared => Settled(k)'
  BY <1>1, <1>3 DEF Inv, CallOK, HalfMoved, At, Settled, Disk, Promote
<1>6. TiersTyped'
  BY <1>3 DEF Inv, Types, TiersTyped, Promote
<1> QED BY <1>1, <1>4, <1>5, <1>6, ReturnStep
(* put: the new value is on disk and then in the cache, unless the flush of the
   old one came in between.                                                  *)
LEMMA PutWarmStep ==
    ASSUME Inv, NEW t \in Threads, NEW k \in Keys, call[t].key = k, PutWarm(t)
    PROVE  Inv'
<1>1. /\ call[t].arg \in Value /\ call[t].arg # None /\ "hot" \in Accesses
      /\ call[t].op = "put" /\ Go(t, "hot", call[t].arg)
  BY DEF Inv, Types, Calls, PutWarm, At, Accesses
<1>2. TiersTyped' /\ \A j \in Keys : j # k => Disturbs(j)
  BY <1>1 DEF Inv, Types, TiersTyped, PutWarm, Disturbs
<1>3. warm'[k] = call[t].arg
  BY DEF Inv, Types, TiersTyped, PutWarm
<1>4. Continues(t, k, "hot", call[t].arg) => CallOK(t, k)'
  BY <1>1, <1>3 DEF Continues, CallOK, HalfMoved, At, Archiving, RemoveOK
<1> QED BY <1>1, <1>2, <1>4, GoStep

LEMMA PutHotStep ==
    ASSUME Inv, NEW t \in Threads, NEW k \in Keys, call[t].key = k, PutHot(t)
    PROVE  Inv'
<1>1. /\ At(t, {"put"}, "hot") /\ HotPut(k, call[t].arg) /\ Return(t, None)
      /\ latest' = [latest EXCEPT ![k] = call[t].arg] /\ UNCHANGED cold
  BY DEF PutHot
<1>2. call[t].arg \in Value /\ call[t].arg # None
  BY <1>1 DEF Inv, Types, Calls, At
<1>3. /\ hot'[k] = call[t].arg /\ warm'[k] = warm[k]
      /\ k \in uncertain' <=> k \in uncertain
      /\ hot' \in [Keys -> Value] /\ warm' \in [Keys -> Value]
  BY <1>1, <1>2, HotPutOwn DEF Inv
<1>4. TiersTyped' /\ latest'[k] = call[t].arg /\ \A j \in Keys : j # k => latest'[j] = latest[j]
  BY <1>1, <1>2, <1>3 DEF Inv, Types, TiersTyped
<1>5. \A j \in Keys : j # k => Disturbs(j)
  BY <1>1, <1>2, <1>4, HotPutDisturbs DEF Inv
<1>6. k \notin Shared => Settled(k)'
  <2>1. k \notin Shared \cup uncertain => warm[k] = call[t].arg
    BY <1>1 DEF Inv, CallOK
  <2> QED BY <1>2, <1>3, <1>4, <2>1 DEF Settled, Disk
<1> QED BY <1>1, <1>4, <1>5, <1>6, ReturnStep

LEMMA DropHotStep ==
    ASSUME Inv, NEW t \in Threads, NEW k \in Keys, call[t].key = k, DropHot(t)
    PROVE  Inv'
<1>1. /\ At(t, {"remove", "archive_keys"}, "hot") /\ hot[k] \in Value
      /\ Go(t, "warm", hot[k]) /\ "warm" \in Accesses
  BY DEF Inv, Types, TiersTyped, DropHot, Accesses
<1>2. /\ TiersTyped' /\ hot'[k] = None
      /\ \A j \in Keys : j # k => Disturbs(j)
  BY DEF Inv, Types, TiersTyped, DropHot, Disturbs, Value
<1>3. k \notin Shared => Settled(k)'
  BY <1>1, <1>2 DEF Inv, CallOK, HalfMoved, At, Settled, Disk, DropHot
<1>4. Continues(t, k, "warm", hot[k]) => CallOK(t, k)'
  <2>1. k \notin Shared \cup uncertain => hot[k] \in {None, latest[k]}
    BY <1>1 DEF Inv, CallOK, HalfMoved, At, Settled
  <2>2. Continues(t, k, "warm", hot[k]) => RemoveOK(t, k)'
    BY <2>1 DEF Continues, RemoveOK, DropHot
  <2> QED BY <1>1, <1>2, <1>3, <2>2 DEF Continues, CallOK, HalfMoved, At, Archiving
<1> QED BY <1>1, <1>2, <1>4, GoStep DEF At

(* The value that an archive carries from the warm tier to the cold one is the
   latest.                                                                   *)
LEMMA WarmReadStep ==
    ASSUME Inv, NEW t \in Threads, NEW k \in Keys, call[t].key = k, WarmRead(t)
    PROVE  Inv'
<1> DEFINE r == IF call[t].arg = None THEN warm[k] ELSE call[t].arg
<1>1. UNCHANGED <<hot, warm, cold, latest, uncertain>>
  BY DEF WarmRead
<1>2. /\ warm[k] \in Value /\ r \in Value /\ {"cold", "unlink"} \subseteq Accesses
      /\ call[t].op # "put"
  BY DEF Inv, Types, TiersTyped, Calls, Accesses, WarmRead, At
<1>3. k \notin Shared => CallOK(t, k) /\ Settled(k)
  BY DEF Inv, CallOK, HalfMoved, At, WarmRead
<1>4. TiersTyped' /\ \A j \in Keys : Disturbs(j) /\ (Settled(j) => Settled(j)')
  BY <1>1, Quiet DEF Inv, Types, TiersTyped
<1>5. CASE At(t, {"remove"}, "warm") /\ warm[k] = None /\ Go(t, "cold", r)
  <2>1. Continues(t, k, "cold", r) => RemoveOK(t, k)'
    BY <1>1, <1>3, <1>5 DEF Continues, CallOK, At, RemoveOK, Settled, Disk
  <2>2. Continues(t, k, "cold", r) => CallOK(t, k)'
    BY <1>1, <1>3, <1>4, <1>5, <2>1 DEF Continues, CallOK, HalfMoved, At, Archiving
  <2> QED BY <1>2, <1>4, <1>5, <2>2, GoStep
<1>6. CASE At(t, {"remove"}, "warm") /\ warm[k] # None /\ Go(t, "unlink", r)
  <2>1. Continues(t, k, "unlink", r) => RemoveOK(t, k)'
    BY <1>1, <1>3, <1>6 DEF Continues, CallOK, At, RemoveOK, Settled, Disk
  <2>2. Continues(t, k, "unlink", r) => CallOK(t, k)'
    BY <1>1, <1>3, <1>4, <1>6, <2>1 DEF Continues, CallOK, HalfMoved, At, Archiving
  <2> QED BY <1>2, <1>4, <1>6, <2>2, GoStep
<1>7. CASE Archiving(t, "warm") /\ warm[k] # None /\ Go(t, "unlink", warm[k])
  <2>1. k \notin Shared \cup uncertain => warm[k] = latest[k]
    BY <1>3, <1>7 DEF Settled, Disk
  <2>2. Continues(t, k, "unlink", warm[k]) => CallOK(t, k)'
    BY <1>1, <1>3, <1>4, <1>7, <2>1 DEF Continues, CallOK, HalfMoved, At, Archiving, RemoveOK
  <2> QED BY <1>2, <1>4, <1>7, <2>2, GoStep
<1>8. CASE Return(t, None)
  BY <1>3, <1>4, <1>8, ReturnStep
<1> QED BY <1>5, <1>6, <1>7, <1>8 DEF WarmRead, Archiving

LEMMA WarmUnlinkStep ==
    ASSUME Inv, NEW t \in Threads, NEW k \in Keys, call[t].key = k, WarmUnlink(t)
    PROVE  Inv'
<1>1. /\ At(t, {"remove", "archive_key", "archive_keys"}, "unlink")
      /\ Go(t, "cold", call[t].arg) /\ call[t].arg \in Value /\ "cold" \in Accesses
      /\ UNCHANGED <<hot, cold, latest, uncertain>>
  BY DEF Inv, Types, Calls, Accesses, WarmUnlink
<1>2. /\ TiersTyped' /\ warm'[k] = None
      /\ \A j \in Keys : j # k => Disturbs(j)
  BY DEF Inv, Types, TiersTyped, WarmUnlink, Disturbs, Value
<1>3. k \notin Shared => CallOK(t, k) /\ Settled(k)
  BY <1>1 DEF Inv, CallOK, HalfMoved, At
<1>4. Continues(t, k, "cold", call[t].arg) => CallOK(t, k)'
  <2>1. Continues(t, k, "cold", call[t].arg) => RemoveOK(t, k)'
    <3>1. k \notin Shared => RemoveOK(t, k)
      BY <1>3 DEF CallOK
    <3> QED BY <1>1, <3>1 DEF Continues, At, RemoveOK
  <2> QED BY <1>1, <1>2, <1>3, <2>1 DEF Continues, CallOK, HalfMoved, At, Archiving, Settled
<1> QED BY <1>1, <1>2, <1>4, GoStep DEF At

LEMMA ArchiveStep ==
    ASSUME Inv, NEW t \in Threads, NEW k \in Keys, call[t].key = k, Archive(t)
    PROVE  Inv'
<1>1. /\ Archiving(t, "cold") /\ Return(t, call[t].arg) /\ call[t].arg \in Value
      /\ UNCHANGED <<hot, warm, latest, uncertain>>
  BY DEF Inv, Types, Calls, Archive, Archiving
<1>2. /\ TiersTyped' /\ cold'[k] = call[t].arg
      /\ \A j \in Keys : j # k => Disturbs(j)
  BY <1>1 DEF Inv, Types, TiersTyped, Archive, Disturbs
<1>3. k \notin Shared => Settled(k)'
  BY <1>1, <1>2 DEF Inv, CallOK, Settled, Disk
<1> QED BY <1>1, <1>2, <1>3, ReturnStep

(* remove ends with nothing left in any tier. *)
LEMMA ColdReadStep ==
    ASSUME Inv, NEW t \in Threads, NEW k \in Keys, call[t].key = k, ColdRead(t)
    PROVE  Inv'
<1> DEFINE r == IF call[t].arg = None THEN cold[k] ELSE call[t].arg
<1>1. /\ At(t, {"remove"}, "cold") /\ call[t].arg \in Value /\ cold[k] \in Value
      /\ "coldUnlink" \in Accesses /\ UNCHANGED <<hot, warm, cold>>
  BY DEF Inv, Types, TiersTyped, Calls, Accesses, ColdRead
<1>2. k \notin Shared => hot[k] = None /\ warm[k] = None
  BY <1>1 DEF Inv, CallOK, At
<1>3. CASE cold[k] = None /\ Removed(t, call[t].arg)
  <2>1. /\ TiersTyped' /\ latest'[k] = None
        /\ \A j \in Keys : j # k => Disturbs(j)
    BY <1>1, <1>3 DEF Inv, Types, TiersTyped, Removed, Disturbs, Value
  <2>2. k \notin Shared => Settled(k)'
    BY <1>1, <1>2, <1>3, <2>1 DEF Settled, Disk
  <2> QED BY <1>3, <2>1, <2>2, ReturnStep DEF Removed
<1>4. CASE Go(t, "coldUnlink", r) /\ UNCHANGED <<latest, uncertain>>
  <2>1. TiersTyped' /\ \A j \in Keys : Disturbs(j)
    BY <1>1, <1>4, Quiet DEF Inv, Types, TiersTyped
  <2>2. Continues(t, k, "coldUnlink", r) => RemoveOK(t, k)'
    BY <1>1, <1>4 DEF Inv, Continues, CallOK, At, RemoveOK
  <2>3. Continues(t, k, "coldUnlink", r) => CallOK(t, k)'
    BY <1>1, <1>2, <2>2 DEF Continues, CallOK, HalfMoved, At, Archiving
  <2> QED BY <1>1, <1>4, <2>1, <2>3, GoStep DEF At
<1> QED BY <1>3, <1>4 DEF ColdRead

LEMMA ColdUnlinkStep ==
    ASSUME Inv, NEW t \in Threads, NEW k \in Keys, call[t].key = k, ColdUnlink(t)
    PROVE  Inv'
<1>1. /\ At(t, {"remove"}, "coldUnlink") /\ Removed(t, call[t].arg)
      /\ UNCHANGED <<hot, warm>>
  BY DEF ColdUnlink
<1>2. /\ TiersTyped' /\ latest'[k] = None /\ cold'[k] = None
      /\ \A j \in Keys : j # k => Disturbs(j)
  BY <1>1 DEF Inv, Types, TiersTyped, ColdUnlink, Removed, Disturbs, Value
<1>3. k \notin Shared => Settled(k)'
  BY <1>1, <1>2 DEF Inv, CallOK, At, Settled, Disk
<1> QED BY <1>1, <1>2, <1>3, ReturnStep DEF Removed

(* A call that fails has either left the disk as it was or is on record. *)
LEMMA FailStep ==
    ASSUME Inv, NEW t \in Threads, NEW k \in Keys, call[t].key = k, Fail(t)
    PROVE  Inv'
<1>1. /\ Return(t, "error") /\ UNCHANGED <<hot, warm, cold, latest>>
      /\ uncertain' = IF HalfMoved(t) THEN uncertain \cup {k} ELSE uncertain
  BY DEF Fail
<1>2. TiersTyped' /\ \A j \in Keys : j # k => Disturbs(j)
  BY <1>1 DEF Inv, Types, TiersTyped, Disturbs
<1>3. ~ At(t, {"put"}, "hot")
  BY DEF Fail, At
<1>4. k \notin Shared => Settled(k)'
  BY <1>1, <1>3 DEF Inv, CallOK, Settled, Disk
<1> QED BY <1>1, <1>2, <1>4, ReturnStep
LEMMA CrashStep ==
    ASSUME Inv, Crash
    PROVE  Inv'
<1> USE DEF Inv
<1>1. /\ \A t \in Threads : call'[t] = Idle
      /\ \A k \in Keys : hot'[k] = None
      /\ UNCHANGED <<warm, cold, latest>> /\ Idle.key = None /\ None \notin Keys
  BY StorageAssumption DEF Crash, Idle
<1>2. Types'
  <2>1. Idle \in Calls /\ Idle.op # "put"
    BY DEF Idle, Calls, Ops, Accesses, Value
  <2> QED BY <1>1, <2>1 DEF Crash, Types, TiersTyped, Value
<1>3. ASSUME NEW k \in Keys \ Shared
      PROVE  Settled(k)'
  <2>1. CASE Settled(k)
    BY <1>1, <2>1 DEF Settled, Disk, Crash
  <2>2. CASE ~ Settled(k)
    <3>1. PICK t \in Threads : call[t].key = k
      BY <2>2 DEF InUse
    <3>2. HalfMoved(t) \/ At(t, {"put"}, "hot")
      BY <2>2, <3>1 DEF CallOK
    <3>3. k \in uncertain'
      BY <3>1, <3>2 DEF Crash
    <3> QED BY <3>3 DEF Settled
  <2> QED BY <2>1, <2>2
<1> QED BY <1>1, <1>2, <1>3 DEF Exclusive

-----------------------------------------------------------------------------
LEMMA InvInit == Init => Inv
<1> SUFFICES ASSUME Init PROVE Inv
  OBVIOUS
<1>1. Idle \in Calls /\ Idle.op # "put" /\ Idle.key = None /\ None \notin Keys
  BY StorageAssumption DEF Idle, Calls, Ops, Accesses, Value
<1> QED BY <1>1 DEF Init, Inv, Types, TiersTyped, Exclusive, Settled, Disk, Value

LEMMA InvNext == Inv /\ [Next]_vars => Inv'
<1> SUFFICES ASSUME Inv, [Next]_vars PROVE Inv'
  OBVIOUS
<1>1. ASSUME NEW t \in Threads, NEW k \in Keys,
             NEW op \in {"get", "locate", "remove", "archive_key", "archive_keys"},
             Begin(t, op, k, None)
      PROVE  Inv'
  BY <1>1, BeginStep DEF Ops, Value
<1>2. ASSUME NEW t \in Threads, NEW k \in Keys, NEW v \in PutValues[k], Begin(t, "put", k, v)
      PROVE  Inv'
  <2>1. v \in Values
    BY DEF Values
  <2> QED BY <1>2, <2>1, BeginStep, StorageAssumption DEF Ops, Value
<1>3. ASSUME NEW t \in Threads, Access(t)
      PROVE  Inv'
  <2>1. PICK k \in Keys : call[t].key = k
    <3>1. call[t] # Idle
      BY <1>3 DEF Access, HotLookup, WarmLookup, ColdLookup, Promote, PutWarm, PutHot, DropHot,
                  WarmRead, WarmUnlink, Archive, ColdRead, ColdUnlink, Fail, At, Idle
    <3> QED BY <3>1 DEF Inv, Types, Calls
  <2> QED BY <1>3, <2>1, LookupStep, PromoteStep, PutWarmStep, PutHotStep, DropHotStep,
             WarmReadStep, WarmUnlinkStep, ArchiveStep, ColdReadStep, ColdUnlinkStep, FailStep DEF Access
<1>4. CASE UNCHANGED vars
  BY <1>4 DEF vars, Inv, Types, TiersTyped, Exclusive, Settled, Disk, InUse, CallOK, HalfMoved,
              At, Archiving, RemoveOK
<1> QED BY <1>1, <1>2, <1>3, <1>4, CrashStep DEF Next, Access

-----------------------------------------------------------------------------
(* Values do not move between keys, whatever overlaps, fails or dies. *)
TiersOwn  == \A k \in Keys : hot[k] \in Holdings(k) /\ warm[k] \in Holdings(k) /\ cold[k] \in Holdings(k)
CarryOwn  == \A t \in Threads, k \in Keys : call[t].key = k => call[t].arg \in Holdings(k)
OwnValues == TiersOwn /\ CarryOwn

LEMMA HotPutKeepsOwn ==
    ASSUME Types, TiersOwn, NEW k \in Keys, NEW v \in Holdings(k), HotPut(k, v), UNCHANGED cold
    PROVE  TiersOwn'
<1>1. \A j \in Keys : None \in Holdings(j)
  BY DEF Holdings
<1> QED BY <1>1 DEF TiersOwn, HotPut, HotPutWithin, Types, TiersTyped, Cached

LEMMA GoCarries ==
    ASSUME Types, CarryOwn, NEW t \in Threads, NEW k \in Keys, call[t].key = k,
           NEW a, NEW v \in Holdings(k), Go(t, a, v)
    PROVE  CarryOwn'
<1>1. /\ call'[t].key = k /\ call'[t].arg = v
      /\ \A u \in Threads : u # t => call'[u] = call[u]
  BY DEF Types, Calls, Go
<1> QED BY <1>1 DEF CarryOwn

LEMMA ReturnCarries ==
    ASSUME Types, CarryOwn, NEW t \in Threads, NEW r, Return(t, r)
    PROVE  CarryOwn'
<1>1. /\ call'[t] = Idle /\ Idle.key = None /\ None \notin Keys
      /\ \A u \in Threads : u # t => call'[u] = call[u]
  BY StorageAssumption DEF Types, Return, Idle
<1> QED BY <1>1 DEF CarryOwn

LEMMA AccessKeepsOwn ==
    ASSUME Types, OwnValues, NEW t \in Threads, NEW k \in Keys, call[t].key = k, Access(t)
    PROVE  OwnValues'
<1>1. /\ call[t].arg \in Holdings(k) /\ None \in Holdings(k)
      /\ hot[k] \in Holdings(k) /\ warm[k] \in Holdings(k) /\ cold[k] \in Holdings(k)
  BY DEF OwnValues, CarryOwn, TiersOwn, Holdings
<1>2. \A j \in Keys : None \in Holdings(j)
  BY DEF Holdings
<1>3. CarryOwn'
  <2>1. (\E a : \E v \in Holdings(k) : Go(t, a, v)) \/ (\E r : Return(t, r))
    BY <1>1 DEF Access, HotLookup, WarmLookup, ColdLookup, Promote, PutWarm, PutHot, DropHot,
                WarmRead, WarmUnlink, Archive, ColdRead, ColdUnlink, Removed, Fail
  <2> QED BY <2>1, GoCarries, ReturnCarries DEF OwnValues
<1>4. TiersOwn'
  <2>1. CASE Promote(t) \/ PutHot(t)
    BY <1>1, <2>1, HotPutKeepsOwn DEF Promote, PutHot, OwnValues
  <2>2. CASE UNCHANGED <<hot, warm, cold>>
    BY <2>2 DEF OwnValues, TiersOwn
  <2>3. CASE PutWarm(t) \/ DropHot(t) \/ WarmUnlink(t) \/ Archive(t) \/ ColdUnlink(t)
    BY <1>1, <1>2, <2>3 DEF PutWarm, DropHot, WarmUnlink, Archive, ColdUnlink, OwnValues, TiersOwn,
                            Types, TiersTyped
  <2> QED BY <2>1, <2>2, <2>3 DEF Access, HotLookup, WarmLookup, ColdLookup, WarmRead, ColdRead, Fail
<1> QED BY <1>3, <1>4 DEF OwnValues

LEMMA AccessHasKey ==
    ASSUME Types, NEW t \in Threads, Access(t)
    PROVE  call[t].key \in Keys
<1>1. call[t] # Idle
  BY DEF Access, HotLookup, WarmLookup, ColdLookup, Promote, PutWarm, PutHot, DropHot,
         WarmRead, WarmUnlink, Archive, ColdRead, ColdUnlink, Fail, At, Idle
<1> QED BY <1>1 DEF Types, Calls

LEMMA OwnInit == Init => OwnValues
<1>1. Idle.key = None /\ None \notin Keys /\ \A k \in Keys : None \in Holdings(k)
  BY StorageAssumption DEF Idle, Holdings
<1> QED BY <1>1 DEF Init, OwnValues, TiersOwn, CarryOwn

LEMMA OwnNext == Types /\ OwnValues /\ [Next]_vars => OwnValues'
<1> SUFFICES ASSUME Types, OwnValues, [Next]_vars PROVE OwnValues'
  OBVIOUS
<1>1. ASSUME NEW t \in Threads, Access(t) PROVE OwnValues'
  BY <1>1, AccessHasKey, AccessKeepsOwn
<1>2. ASSUME NEW t \in Threads, NEW op, NEW k \in Keys, NEW v \in Holdings(k), Begin(t, op, k, v)
      PROVE  OwnValues'
  <2>1. /\ call'[t].key = k /\ call'[t].arg = v
        /\ \A u \in Threads : u # t => call'[u] = call[u]
        /\ UNCHANGED <<hot, warm, cold>>
    BY <1>2 DEF Begin, Types
  <2> QED BY <2>1 DEF OwnValues, TiersOwn, CarryOwn
<1>3. CASE Crash
  <2>1. Idle.key = None /\ None \notin Keys /\ \A k \in Keys : None \in Holdings(k)
    BY StorageAssumption DEF Idle, Holdings
  <2> QED BY <1>3, <2>1 DEF Crash, OwnValues, TiersOwn, CarryOwn
<1>4. CASE UNCHANGED vars
  BY <1>4 DEF vars, OwnValues, TiersOwn, CarryOwn
<1>5. \A k \in Keys : None \in Holdings(k) /\ \A v \in PutValues[k] : v \in Holdings(k)
  BY DEF Holdings
<1> QED BY <1>1, <1>2, <1>3, <1>4, <1>5 DEF Next, Access

(* For any number of keys, values and threads, any cache capacity and any overlapping
   calls on the shared keys: the last value written to a key that is neither shared
   nor uncertain outlives every eviction, promotion, archiving and crash; and no key,
   shared or uncertain ones included, ever holds what was not put under it.  *)
THEOREM WrittenValuesStay == Spec => []AtRestOnDisk
<1>1. Inv /\ OwnValues => AtRestOnDisk
  BY DEF Inv, AtRestOnDisk, Settled, OwnValues, TiersOwn
<1>2. Inv => Types
  BY DEF Inv
<1> QED BY <1>1, <1>2, InvInit, InvNext, OwnInit, OwnNext, PTL DEF Spec

-----------------------------------------------------------------------------
(* A call answers in a step of its own; the errors and the steps in which it
   goes on are no answers.                                                   *)
LEMMA AnswersItself ==
    ASSUME Inv, Next, NEW t \in Threads, call[t] # Idle, call'[t] = Idle,
           reply' \notin {NoReply, "error"}
    PROVE  Access(t) /\ ~ Fail(t) /\ ~ \E a, v : Go(t, a, v)
<1>1. /\ ~ Crash
      /\ \A u \in Threads, op \in Ops, k \in Keys, v \in Value : ~ Begin(u, op, k, v)
  BY DEF Crash, Begin
<1>2. PICK u \in Threads : Access(u)
  <2>1. \A k \in Keys : \A v \in PutValues[k] : v \in Values
    BY DEF Values
  <2> QED BY <1>1, <2>1 DEF Next, Access, Ops, Value
<1>3. call' = [call EXCEPT ![u] = call'[u]]
  <2>1. (\E a, v : Go(u, a, v)) \/ (\E r : Return(u, r))
    BY <1>2 DEF Access, HotLookup, WarmLookup, ColdLookup, Promote, PutWarm, PutHot, DropHot,
                WarmRead, WarmUnlink, Archive, ColdRead, ColdUnlink, Removed, Fail
  <2> QED BY <2>1 DEF Go, Return, Inv, Types
<1>4. u = t
  BY <1>3 DEF Inv, Types
<1> QED BY <1>2, <1>4 DEF Fail, Return, Go

CertainRead(t) ==
    LET k == call[t].key IN
    k \in Keys \ (Shared \cup uncertain) =>
        /\ Returns(t, "get") => reply' = latest[k]
        /\ Returns(t, "locate") => (reply' = None <=> latest[k] = None)
        /\ Returns(t, "remove") => reply' = latest[k]

LEMMA CertainReadStep ==
    ASSUME Inv, Next, NEW t \in Threads
    PROVE  CertainRead(t)
<1> SUFFICES ASSUME NEW k \in Keys \ (Shared \cup uncertain), call[t].key = k,
                    call[t].op \in {"get", "locate", "remove"}, call'[t] = Idle,
                    reply' \notin {NoReply, "error"}
             PROVE  /\ call[t].op = "get" => reply' = latest[k]
                    /\ call[t].op = "locate" => (reply' = None <=> latest[k] = None)
                    /\ call[t].op = "remove" => reply' = latest[k]
  BY DEF CertainRead, Returns
<1>1. Access(t) /\ ~ Fail(t) /\ ~ \E a, v : Go(t, a, v)
  BY AnswersItself DEF Idle
<1>2. CallOK(t, k)
  BY DEF Inv
<1>3. CASE HotLookup(t)
  <2>1. /\ hot[k] # None
        /\ \/ call[t].op = "get" /\ reply' = hot[k]
           \/ call[t].op = "locate" /\ reply' = "Hot"
    BY <1>1, <1>3 DEF HotLookup, Return
  <2>2. hot[k] = latest[k]
    BY <1>2, <1>3, <2>1 DEF HotLookup, At, CallOK, HalfMoved, Settled
  <2> QED BY <2>1, <2>2, StorageAssumption
<1>4. CASE WarmLookup(t)
  <2>1. warm[k] # None /\ call[t].op = "locate" /\ reply' = "Warm"
    BY <1>1, <1>4 DEF WarmLookup, Return
  <2>2. warm[k] = latest[k]
    BY <1>2, <1>4, <2>1 DEF WarmLookup, At, CallOK, HalfMoved, Settled, Disk
  <2> QED BY <2>1, <2>2, StorageAssumption
<1>5. CASE ColdLookup(t)
  <2>1. \/ cold[k] = None /\ reply' = None /\ call[t].op # "remove"
        \/ cold[k] # None /\ call[t].op = "locate" /\ reply' = "Cold"
    BY <1>1, <1>5 DEF ColdLookup, Return, At
  <2>2. cold[k] = latest[k]
    BY <1>2, <1>5 DEF ColdLookup, At, CallOK, HalfMoved, Settled, Disk
  <2> QED BY <2>1, <2>2, StorageAssumption
<1>6. CASE Promote(t)
  BY <1>2, <1>6 DEF Promote, Return, CallOK, At
<1>7. CASE ColdRead(t) \/ ColdUnlink(t)
  <2>1. /\ call[t].op = "remove" /\ reply' = call[t].arg
        /\ \/ call[t].at = "cold" /\ cold[k] = None
           \/ call[t].at = "coldUnlink"
    BY <1>1, <1>7 DEF ColdRead, ColdUnlink, Removed, Return, At
  <2> QED BY <1>2, <2>1 DEF CallOK, RemoveOK
<1>8. ~ (PutWarm(t) \/ PutHot(t) \/ DropHot(t) \/ WarmRead(t) \/ WarmUnlink(t) \/ Archive(t))
  BY <1>1 DEF PutWarm, PutHot, DropHot, WarmRead, WarmUnlink, Archive, At
<1> QED BY <1>1, <1>3, <1>4, <1>5, <1>6, <1>7, <1>8 DEF Access

LEMMA OwnRead ==
    ASSUME Inv, OwnValues, Next, NEW t \in Threads, Returns(t, "get") \/ Returns(t, "remove")
    PROVE  reply' \in Holdings(call[t].key)
<1> DEFINE k == call[t].key
<1>1. call[t].op \in {"get", "remove"} /\ call'[t] = Idle /\ reply' \notin {NoReply, "error"}
  BY DEF Returns
<1>2. Access(t) /\ ~ Fail(t) /\ ~ \E a, v : Go(t, a, v)
  BY <1>1, AnswersItself DEF Idle
<1>3. k \in Keys
  BY <1>2, AccessHasKey DEF Inv
<1>4. call[t].arg \in Holdings(k) /\ hot[k] \in Holdings(k) /\ None \in Holdings(k)
  BY <1>3 DEF OwnValues, CarryOwn, TiersOwn, Holdings
<1>5. ~ (PutWarm(t) \/ PutHot(t) \/ Archive(t) \/ DropHot(t) \/ WarmUnlink(t) \/ WarmLookup(t))
  BY <1>1, <1>2 DEF PutWarm, PutHot, Archive, DropHot, WarmUnlink, WarmLookup, At
<1> QED BY <1>1, <1>2, <1>4, <1>5
        DEF Access, HotLookup, ColdLookup, Promote, WarmRead, ColdRead, ColdUnlink, Removed, Return, At

(* In the same generality and with the same exceptions: reads answer with the last
   written value.  Without exceptions: with a value put under that key, or none. *)
THEOREM ReadsAreCurrent == Spec => ReadsLatest
<1>1. ASSUME Inv, OwnValues, [Next]_vars PROVE [\A t \in Threads : ReadLatest(t)]_vars
  <2>1. CASE Next
    BY <1>1, <2>1, CertainReadStep, OwnRead DEF ReadLatest, CertainRead
  <2> QED BY <1>1, <2>1
<1>2. Inv => Types
  BY DEF Inv
<1> QED BY <1>1, <1>2, InvInit, InvNext, OwnInit, OwnNext, PTL DEF Spec, ReadsLatest

-----------------------------------------------------------------------------
(* The cache's book-keeping: its order is a list of the cached keys without
   repetition.                                                               *)
Listed(o, S) == o \in Seq(Keys) /\ IsInjective(o) /\ Range(o) = S

(* What a get promotes is a value. *)
Promotes == \A t \in Threads : At(t, {"get"}, "promote") => call[t].arg # None

Lru ==
    /\ Listed(order, Cached) /\ Len(order) <= Capacity
    /\ uncertain \subseteq Keys
    /\ Promotes

LEMMA ListedLen ==
    ASSUME NEW o, NEW S, Listed(o, S)
    PROVE  IsFiniteSet(S) /\ Cardinality(S) = Len(o) /\ Len(o) \in Nat
BY InjectiveLen DEF Listed

(* The three ways the list changes: a key leaves, is moved to the end, or takes
   the place of the least recently used one.                                 *)
LEMMA WithoutListed ==
    ASSUME NEW S, Listed(order, S), NEW k \in Keys
    PROVE  Listed(Without(k), S \ {k})
<1>1. /\ Without(k) \in Seq(Keys) /\ IsInjective(Without(k))
      /\ Range(Without(k)) = Range(order) \cap (Keys \ {k})
  BY RetainFacts DEF Listed, Without
<1>2. Range(order) \subseteq Keys
  BY DEF Listed, Range
<1> QED BY <1>1, <1>2 DEF Listed

LEMMA TouchListed ==
    ASSUME NEW S, Listed(order, S), NEW k \in Keys
    PROVE  Listed(Touch(k), S \cup {k})
<1>1. Listed(Without(k), S \ {k})
  BY WithoutListed
<1>2. Listed(Append(Without(k), k), (S \ {k}) \cup {k})
  BY <1>1, AppendFacts DEF Listed
<1>3. (S \ {k}) \cup {k} = S \cup {k}
  OBVIOUS
<1> QED BY <1>2, <1>3 DEF Touch

LEMMA EvictListed ==
    ASSUME NEW S, Listed(order, S), S # {}, NEW k \in Keys \ S
    PROVE  Listed(Append(Tail(order), k), (S \ {Head(order)}) \cup {k})
<1>1. order # <<>>
  BY DEF Listed, Range
<1>2. Listed(Tail(order), S \ {Head(order)})
  BY <1>1, TailFacts DEF Listed
<1> DEFINE rest == Tail(order)
<1>3. rest \in Seq(Keys) /\ IsInjective(rest) /\ Range(rest) = S \ {Head(order)}
  BY <1>2 DEF Listed
<1> HIDE DEF rest
<1>4. /\ Append(rest, k) \in Seq(Keys) /\ IsInjective(Append(rest, k))
      /\ Range(Append(rest, k)) = (S \ {Head(order)}) \cup {k}
  BY <1>3, AppendFacts
<1> QED BY <1>4 DEF Listed, rest

(* HotCache::put keeps the list and the capacity. *)
LEMMA HotPutListed ==
    ASSUME Types, Lru, NEW k \in Keys, NEW v \in Values, HotPut(k, v)
    PROVE  Listed(order', Cached') /\ Len(order') <= Capacity /\ uncertain' \subseteq Keys
<1> USE StorageAssumption
<1>1. hot \in [Keys -> Value] /\ v # None /\ Listed(order, Cached) /\ Capacity \in Nat
  BY DEF Types, TiersTyped, Lru
<1>2. IsFiniteSet(Cached) /\ Cardinality(Cached) = Len(order) /\ Len(order) \in Nat
  BY <1>1, ListedLen
<1>3. CASE (hot[k] # None \/ Cardinality(Cached) < Capacity) /\ hot' = [hot EXCEPT ![k] = v]
           /\ order' = Touch(k) /\ UNCHANGED uncertain
  <2>1. Cached' = Cached \cup {k}
    BY <1>1, <1>3 DEF Cached
  <2>2. Listed(order', Cached')
    BY <1>1, <1>3, <2>1, TouchListed
  <2>3. Cardinality(Cached \cup {k}) <= Capacity
    <3>1. CASE hot[k] # None
      <4>1. Cached \cup {k} = Cached
        BY <3>1 DEF Cached
      <4> QED BY <1>2, <4>1 DEF Lru
    <3>2. CASE hot[k] = None /\ Cardinality(Cached) < Capacity
      <4>1. k \notin Cached
        BY <3>2 DEF Cached
      <4>2. Cardinality(Cached \cup {k}) = Cardinality(Cached) + 1
        BY <1>2, <4>1, FS_AddElement
      <4> QED BY <1>1, <1>2, <3>2, <4>2
    <3> QED BY <1>3, <3>1, <3>2
  <2>4. Len(order') = Cardinality(Cached')
    BY <2>2, ListedLen
  <2> QED BY <1>3, <2>1, <2>2, <2>3, <2>4 DEF Lru
<1>4. ASSUME hot[k] = None, NEW old \in Cached, old = Head(order),
             hot' = [hot EXCEPT ![old] = None, ![k] = v],
             order' = Append(Tail(order), k), uncertain' \in {uncertain, uncertain \cup {old}}
      PROVE  Listed(order', Cached') /\ Len(order') <= Capacity /\ uncertain' \subseteq Keys
  <2>1. k \notin Cached /\ old \in Keys
    BY <1>4 DEF Cached
  <2>2. Cached' = (Cached \ {old}) \cup {k}
    BY <1>1, <1>4, <2>1 DEF Cached
  <2>3. Listed(order', Cached')
    BY <1>1, <1>4, <2>1, <2>2, EvictListed
  <2>4. order \in Seq(Keys) /\ order # <<>>
    BY <1>1, <1>4 DEF Listed, Range
  <2>5. Len(order') = Len(order)
    BY <1>4, <2>4
  <2> QED BY <1>4, <2>1, <2>3, <2>5 DEF Lru
<1> QED
  BY <1>3, <1>4 DEF HotPut, HotPutWithin

(* A step that leaves the cache alone. *)
LEMMA CacheUnchanged ==
    ASSUME Lru, hot' = hot, order' = order
    PROVE  Listed(order', Cached') /\ Len(order') <= Capacity
BY DEF Lru, Cached

LEMMA LruStep ==
    ASSUME Types, Lru, NEW t \in Threads, Access(t)
    PROVE  Listed(order', Cached') /\ Len(order') <= Capacity /\ uncertain' \subseteq Keys
<1> DEFINE k == call[t].key
<1>1. call[t] \in Calls /\ call[t] # Idle /\ k \in Keys
  <2>1. call[t] \in Calls /\ (k = None <=> call[t] = Idle)
    BY DEF Types
  <2>2. call[t] # Idle
    BY DEF Access, HotLookup, WarmLookup, ColdLookup, Promote, PutWarm, PutHot, DropHot, WarmRead,
           WarmUnlink, Archive, ColdRead, ColdUnlink, Fail, At, Idle
  <2> QED BY <2>1, <2>2 DEF Calls
<1>2. hot \in [Keys -> Value] /\ Listed(order, Cached) /\ uncertain \subseteq Keys
  BY DEF Types, TiersTyped, Lru
<1>3. CASE UNCHANGED <<hot, order>> /\ uncertain' \subseteq Keys
  BY <1>3, CacheUnchanged
<1>4. CASE HotLookup(t)
  <2>1. CASE order' = order
    BY <1>2, <1>4, <2>1, <1>3 DEF HotLookup
  <2>2. CASE hot[k] # None /\ order' = Touch(k)
    <3>1. Cached' = Cached /\ Cached \cup {k} = Cached /\ uncertain' = uncertain
      BY <1>1, <1>4, <2>2 DEF HotLookup, Cached
    <3>2. Listed(order', Cached')
      BY <1>1, <1>2, <2>2, <3>1, TouchListed
    <3>3. Len(order') = Len(order)
      BY <1>2, <3>1, <3>2, ListedLen
    <3> QED BY <1>2, <3>1, <3>2, <3>3 DEF Lru
  <2> QED BY <1>4, <2>1, <2>2 DEF HotLookup
<1>5. CASE Promote(t)
  <2>1. call[t].arg \in Values
    BY <1>1, <1>5 DEF Promote, Lru, Promotes, Calls, Value
  <2> QED BY <1>1, <1>5, <2>1, HotPutListed DEF Promote
<1>6. CASE PutHot(t)
  <2>1. call[t].arg \in Values
    BY <1>1, <1>6 DEF PutHot, Types, Calls, Value, At
  <2> QED BY <1>1, <1>6, <2>1, HotPutListed DEF PutHot
<1>7. CASE DropHot(t)
  <2>1. Cached' = Cached \ {k} /\ order' = Without(k) /\ uncertain' = uncertain
    BY <1>1, <1>2, <1>7 DEF DropHot, Cached
  <2>2. Listed(order', Cached')
    BY <1>1, <1>2, <2>1, WithoutListed
  <2>3. Cardinality(Cached') <= Cardinality(Cached)
    <3>1. IsFiniteSet(Cached)
      BY <1>2, ListedLen
    <3> QED BY <2>1, <3>1, FS_Subset
  <2>4. Len(order') <= Len(order)
    BY <1>2, <2>2, <2>3, ListedLen
  <2>5. Len(order) \in Nat /\ Len(order') \in Nat /\ Capacity \in Nat
    BY <1>2, <2>2, ListedLen, StorageAssumption
  <2> QED BY <1>2, <2>1, <2>2, <2>4, <2>5 DEF Lru
<1>8. CASE WarmLookup(t) \/ ColdLookup(t) \/ PutWarm(t) \/ WarmRead(t) \/ WarmUnlink(t)
           \/ Archive(t) \/ ColdRead(t) \/ ColdUnlink(t) \/ Fail(t)
  BY <1>1, <1>2, <1>3, <1>8 DEF WarmLookup, ColdLookup, PutWarm, WarmRead, WarmUnlink, Archive,
     ColdRead, ColdUnlink, Fail, Removed
<1> QED BY <1>4, <1>5, <1>6, <1>7, <1>8 DEF Access

(* Only a lookup that has found a value goes on to promote it. *)
LEMMA PromotesStep ==
    ASSUME Types, Promotes, NEW t \in Threads, Access(t)
    PROVE  Promotes'
<1> SUFFICES ASSUME NEW u \in Threads, At(u, {"get"}, "promote")'
             PROVE  call'[u].arg # None
  BY DEF Promotes
<1>1. CASE u # t
  <2>1. call'[u] = call[u]
    BY <1>1 DEF Access, HotLookup, WarmLookup, ColdLookup, Promote, PutWarm, PutHot, DropHot, WarmRead,
           WarmUnlink, Archive, ColdRead, ColdUnlink, Fail, Go, Return, Removed, Types
  <2> QED BY <2>1 DEF Promotes, At
<1>2. CASE u = t
  <2>1. PICK a, v : Go(t, a, v) /\ (a = "promote" => v # None)
    BY <1>2 DEF Access, HotLookup, WarmLookup, ColdLookup, Promote, PutWarm, PutHot, DropHot, WarmRead,
           WarmUnlink, Archive, ColdRead, ColdUnlink, Fail, Return, Removed, At, Idle, Types
  <2> QED BY <1>2, <2>1 DEF Go, At, Types, Calls
<1> QED BY <1>1, <1>2

LEMMA LruInit == Init => Lru
<1> SUFFICES ASSUME Init PROVE Lru
  OBVIOUS
<1>1. order = <<>> /\ Cached = {}
  BY DEF Init, Cached
<1>2. Listed(order, Cached)
  BY <1>1 DEF Listed, IsInjective, Range
<1>3. Len(order) <= Capacity
  BY <1>1, StorageAssumption
<1> QED BY <1>2, <1>3 DEF Init, Lru, Promotes, At, Idle

LEMMA LruNext == Types /\ Lru /\ [Next]_vars => Lru'
<1> SUFFICES ASSUME Types, Lru, [Next]_vars PROVE Lru'
  OBVIOUS
<1>1. ASSUME NEW t \in Threads, Access(t) PROVE Lru'
  BY <1>1, LruStep, PromotesStep DEF Lru
<1>2. ASSUME NEW t \in Threads, NEW op, NEW k \in Keys, NEW v, Begin(t, op, k, v) PROVE Lru'
  <2>1. Promotes'
    BY <1>2 DEF Begin, Promotes, At, Types, FirstAccess, Lru
  <2> QED BY <1>2, <2>1, CacheUnchanged DEF Begin, Lru
<1>3. CASE Crash
  <2>1. order' = <<>> /\ Cached' = {}
    BY <1>3 DEF Crash, Cached
  <2>2. Listed(order', Cached')
    BY <2>1 DEF Listed, IsInjective, Range
  <2>3. Len(order') <= Capacity
    BY <2>1, StorageAssumption
  <2>4. uncertain' \subseteq Keys
    BY <1>3 DEF Crash, HalfMoved, At, Lru, Types, Calls, Idle
  <2>5. Promotes'
    BY <1>3 DEF Crash, Promotes, At, Idle
  <2> QED BY <2>2, <2>3, <2>4, <2>5 DEF Lru
<1>4. CASE UNCHANGED vars
  BY <1>4, CacheUnchanged DEF vars, Lru, Promotes, At
<1> QED BY <1>1, <1>2, <1>3, <1>4 DEF Next, Access

(* HotCache: for every capacity, the recency list names each cached key once and
   the cache never holds more than lru_capacity entries, through evictions,
   promotions, removals and crashes of any number of threads.                *)
THEOREM CacheWithinCapacity == Spec => []TypeOK
<1>1. Inv /\ Lru => TypeOK
  <2> SUFFICES ASSUME Inv, Lru PROVE TypeOK
    OBVIOUS
  <2>1. Len(order) = Cardinality(Cached)
    BY ListedLen DEF Lru
  <2>2. {order[i] : i \in DOMAIN order} = Cached
    BY DEF Lru, Listed, Range
  <2> QED BY <2>1, <2>2 DEF Inv, Types, TiersTyped, Lru, TypeOK
<1>2. Inv => Types
  BY DEF Inv
<1> QED BY <1>1, <1>2, InvInit, InvNext, LruInit, LruNext, PTL DEF Spec

=============================================================================
