---------------------------- MODULE TieredStorage ----------------------------
(***************************************************************************)
(* The tiered store of runtime/storage: a hot LRU cache in memory over     *)
(* warm files over a cold archive.  A call is a series of accesses to the  *)
(* tiers; only one access is atomic (the cache has a lock, a file access   *)
(* is one system call here), so the calls of different threads interleave. *)
(* The flush of an evicted entry happens under the cache's lock.  Any file *)
(* access may fail, and a crash empties the cache and ends every call.     *)
(***************************************************************************)
EXTENDS Lists, FiniteSets

CONSTANTS
    Keys,
    PutValues,   \* PutValues[k]: the values put under key k
    None,        \* no value
    Threads,
    Shared,      \* the keys several calls may work on at the same time; a call
                 \* on another key waits until no call on that key is in flight
                 \* (the callers' doing: the store has no lock for a key)
    Capacity     \* lru_capacity

Values == UNION {PutValues[k] : k \in Keys}

ASSUME StorageAssumption ==
    /\ None \notin Values \cup Keys \cup {"Hot", "Warm", "Cold"}
    /\ Shared \subseteq Keys
    /\ Capacity \in Nat \ {0}

VARIABLES
    hot,         \* hot[k]: the cached value
    order,       \* the cached keys, least recently used first
    warm, cold,  \* the files of the two tiers
    call,        \* call[t]: [op, key, arg, at], at = the access it does next
    reply,       \* the answer, in the step in which a call returns
    latest,      \* history: the last value put and not removed
    uncertain    \* history: keys that may have lost their value, from the flush
                 \* that overtook a put of it, or the failure or crash that cut a
                 \* call short, to the next put or completed remove

vars == <<hot, order, warm, cold, call, reply, latest, uncertain>>

Value == Values \cup {None}
Idle  == [op |-> "idle", key |-> None, arg |-> None, at |-> "-"]

NoReply == "-"

Cached == {k \in Keys : hot[k] # None}

(* What is left of k without the cache. *)
Disk(k) == IF warm[k] # None THEN warm[k] ELSE cold[k]

-----------------------------------------------------------------------------
Init ==
    /\ hot = [k \in Keys |-> None] /\ order = <<>>
    /\ warm = [k \in Keys |-> None] /\ cold = [k \in Keys |-> None]
    /\ call = [t \in Threads |-> Idle]
    /\ reply = NoReply
    /\ latest = [k \in Keys |-> None]
    /\ uncertain = {}

FirstAccess(op) == IF op \in {"put", "archive_key"} THEN "warm" ELSE "hot"

Begin(t, op, k, v) ==
    /\ call[t] = Idle
    /\ k \in Shared \/ \A u \in Threads : call[u].key # k
    /\ call' = [call EXCEPT ![t] = [op |-> op, key |-> k, arg |-> v, at |-> FirstAccess(op)]]
    /\ reply' = NoReply
    /\ UNCHANGED <<hot, order, warm, cold, latest, uncertain>>

At(t, ops, access) == call[t].op \in ops /\ call[t].at = access

Go(t, access, v) ==
    /\ call' = [call EXCEPT ![t].at = access, ![t].arg = v]
    /\ reply' = NoReply

Return(t, r) ==
    /\ call' = [call EXCEPT ![t] = Idle]
    /\ reply' = r

Without(k) == Retain(order, Keys \ {k})
Touch(k)   == Append(Without(k), k)

(* HotCache::put.  A key that is not cached makes room for itself by flushing
   the least recently used entry to the warm tier; a failed flush is only
   logged.  A put whose key is flushed between its two writes loses the first. *)
HotPutWithin(k, v, room) ==
    \/ /\ hot[k] # None \/ Cardinality(Cached) < room
       /\ hot' = [hot EXCEPT ![k] = v]
       /\ order' = Touch(k)
       /\ UNCHANGED <<warm, uncertain>>
    \/ /\ hot[k] = None /\ Cardinality(Cached) >= room
       /\ \E old \in Cached :
             /\ old = Head(order)
             /\ hot' = [hot EXCEPT ![old] = None, ![k] = v]
             /\ order' = Append(Tail(order), k)
             /\ \/ UNCHANGED <<warm, uncertain>>
                \/ /\ warm' = [warm EXCEPT ![old] = hot[old]]
                   /\ uncertain' = IF \E u \in Threads : At(u, {"put"}, "hot") /\ call[u].key = old
                                   THEN uncertain \cup {old}
                                   ELSE uncertain

(* Mutant of HotPut: the entry is added before room is made. *)
HotPutLate(k, v) == HotPutWithin(k, v, Capacity + 1)

HotPut(k, v) == HotPutWithin(k, v, Capacity)

(* get and locate go through the tiers from hot to cold; a get promotes what
   it finds below.                                                           *)
HotLookup(t) ==
    LET k == call[t].key IN
    /\ At(t, {"get", "locate"}, "hot")
    /\ \/ hot[k] = None /\ Go(t, "warm", None) /\ UNCHANGED order
       \/ /\ hot[k] # None
          /\ \/ call[t].op = "get" /\ Return(t, hot[k]) /\ order' = Touch(k)
             \/ call[t].op = "locate" /\ Return(t, "Hot") /\ UNCHANGED order
    /\ UNCHANGED <<hot, warm, cold, latest, uncertain>>

WarmLookup(t) ==
    LET v == warm[call[t].key] IN
    /\ At(t, {"get", "locate"}, "warm")
    /\ \/ v = None /\ Go(t, "cold", None)
       \/ v # None /\ call[t].op = "get" /\ Go(t, "promote", v)
       \/ v # None /\ call[t].op = "locate" /\ Return(t, "Warm")
    /\ UNCHANGED <<hot, order, warm, cold, latest, uncertain>>

ColdLookup(t) ==
    LET v == cold[call[t].key] IN
    /\ At(t, {"get", "locate"}, "cold")
    /\ \/ v = None /\ Return(t, None)
       \/ v # None /\ call[t].op = "get" /\ Go(t, "promote", v)
       \/ v # None /\ call[t].op = "locate" /\ Return(t, "Cold")
    /\ UNCHANGED <<hot, order, warm, cold, latest, uncertain>>

Promote(t) ==
    /\ At(t, {"get"}, "promote")
    /\ HotPut(call[t].key, call[t].arg)
    /\ Return(t, call[t].arg)
    /\ UNCHANGED <<cold, latest>>

(* Mutant of PutWarm: the value goes to the cache only. *)
PutWarmSkipped(t) ==
    /\ At(t, {"put"}, "warm")
    /\ uncertain' = uncertain \ {call[t].key}
    /\ Go(t, "hot", call[t].arg)
    /\ UNCHANGED <<hot, order, warm, cold, latest>>

(* put: the warm tier for durability, then the cache. *)
PutWarm(t) ==
    LET k == call[t].key IN
    /\ At(t, {"put"}, "warm")
    /\ warm' = [warm EXCEPT ![k] = call[t].arg]
    /\ uncertain' = uncertain \ {k}
    /\ Go(t, "hot", call[t].arg)
    /\ UNCHANGED <<hot, order, cold, latest>>

PutHot(t) ==
    /\ At(t, {"put"}, "hot")
    /\ HotPut(call[t].key, call[t].arg)
    /\ latest' = [latest EXCEPT ![call[t].key] = call[t].arg]
    /\ Return(t, None)
    /\ UNCHANGED cold

(* Mutant of DropHot: the cached entry is looked up, not removed. *)
DropHotKept(t) ==
    LET k == call[t].key IN
    /\ At(t, {"remove", "archive_keys"}, "hot")
    /\ Go(t, "warm", hot[k])
    /\ UNCHANGED <<hot, order, warm, cold, latest, uncertain>>

(* remove and archive_keys drop the cached entry first.  (archive_keys goes on
   with archive_key, which ignores what the cache held.)                     *)
DropHot(t) ==
    LET k == call[t].key IN
    /\ At(t, {"remove", "archive_keys"}, "hot")
    /\ hot' = [hot EXCEPT ![k] = None]
    /\ order' = Without(k)
    /\ Go(t, "warm", hot[k])
    /\ UNCHANGED <<warm, cold, latest, uncertain>>

(* WarmStore::remove reads the file, then removes it.  remove goes on to the
   cold tier and keeps the first value it met; an archive keeps this one, and
   ends when there is none.                                                  *)
WarmRead(t) ==
    LET v == warm[call[t].key] IN
    /\ \/ /\ At(t, {"remove"}, "warm")
          /\ Go(t, IF v = None THEN "cold" ELSE "unlink", IF call[t].arg = None THEN v ELSE call[t].arg)
       \/ /\ At(t, {"archive_key", "archive_keys"}, "warm")
          /\ \/ v # None /\ Go(t, "unlink", v)
             \/ v = None /\ Return(t, None)
    /\ UNCHANGED <<hot, order, warm, cold, latest, uncertain>>

WarmUnlink(t) ==
    LET k == call[t].key IN
    /\ At(t, {"remove", "archive_key", "archive_keys"}, "unlink")
    /\ warm[k] # None
    /\ warm' = [warm EXCEPT ![k] = None]
    /\ Go(t, "cold", call[t].arg)
    /\ UNCHANGED <<hot, order, cold, latest, uncertain>>

Archive(t) ==
    /\ At(t, {"archive_key", "archive_keys"}, "cold")
    /\ cold' = [cold EXCEPT ![call[t].key] = call[t].arg]
    /\ Return(t, call[t].arg)
    /\ UNCHANGED <<hot, order, warm, latest, uncertain>>

(* The end of remove: its answer is the first value it met. *)
Removed(t, r) ==
    LET k == call[t].key IN
    /\ Return(t, r)
    /\ latest' = [latest EXCEPT ![k] = None]
    /\ uncertain' = uncertain \ {k}

ColdRead(t) ==
    LET c == call[t] IN
    /\ At(t, {"remove"}, "cold")
    /\ \/ cold[c.key] = None /\ Removed(t, c.arg)
       \/ /\ cold[c.key] # None
          /\ Go(t, "coldUnlink", IF c.arg = None THEN cold[c.key] ELSE c.arg)
          /\ UNCHANGED <<latest, uncertain>>
    /\ UNCHANGED <<hot, order, warm, cold>>

ColdUnlink(t) ==
    LET k == call[t].key IN
    /\ At(t, {"remove"}, "coldUnlink")
    /\ cold[k] # None
    /\ cold' = [cold EXCEPT ![k] = None]
    /\ Removed(t, call[t].arg)
    /\ UNCHANGED <<hot, order, warm>>

(* A call that has taken the value out of a tier and not put it into the next,
   or not yet reached an older copy below.                                   *)
HalfMoved(t) ==
    At(t, {"remove", "archive_key", "archive_keys"}, "cold") \/ At(t, {"remove"}, "coldUnlink")

(* A file access fails (the file is missing or the system says so): the call
   returns the error with what it has done so far.  locate has no errors.    *)
Fail(t) ==
    /\ call[t].op # "locate"
    /\ call[t].at \in {"warm", "unlink", "cold", "coldUnlink"}
    /\ Return(t, "error")
    /\ uncertain' = IF HalfMoved(t) THEN uncertain \cup {call[t].key} ELSE uncertain
    /\ UNCHANGED <<hot, order, warm, cold, latest>>

(* The process stops and a new one opens the same directories. *)
Crash ==
    /\ hot' = [k \in Keys |-> None] /\ order' = <<>>
    /\ call' = [t \in Threads |-> Idle]
    /\ uncertain' = uncertain \cup {call[t].key : t \in {u \in Threads :
                                       HalfMoved(u) \/ At(u, {"put"}, "hot")}}
    /\ reply' = NoReply
    /\ UNCHANGED <<warm, cold, latest>>

Next ==
    \/ \E t \in Threads :
          \/ \E k \in Keys :
                \/ \E op \in {"get", "locate", "remove", "archive_key", "archive_keys"} :
                      Begin(t, op, k, None)
                \/ \E v \in PutValues[k] : Begin(t, "put", k, v)
          \/ HotLookup(t) \/ WarmLookup(t) \/ ColdLookup(t) \/ Promote(t)
          \/ PutWarm(t) \/ PutHot(t)
          \/ DropHot(t) \/ WarmRead(t) \/ WarmUnlink(t)
          \/ Archive(t) \/ ColdRead(t) \/ ColdUnlink(t)
          \/ Fail(t)
    \/ Crash

Spec == Init /\ [][Next]_vars

-----------------------------------------------------------------------------
(* The cache's order lists the cached entries, each once, within capacity. *)
TypeOK ==
    /\ {hot, warm, cold, latest} \subseteq [Keys -> Value]
    /\ Len(order) = Cardinality(Cached) /\ Len(order) <= Capacity
    /\ {order[i] : i \in DOMAIN order} = Cached
    /\ uncertain \subseteq Keys

InUse(k) == \E t \in Threads : call[t].key = k

Holdings(k) == PutValues[k] \cup {None}

(* The last written value of a key is on disk whenever no call is at work on it, and
   nothing else in the cache: evictions caused by other keys' calls, failed flushes,
   promotions, completed archivings and crashes at any other point do not lose it.
   This is not so of keys whose calls overlap (Shared), nor of uncertain ones: when
   an archive or a remove fails or dies between two tiers, a put dies between its two
   writes, or a flush of the key's old value comes between them, the last value may
   be gone or an older one be back, until the next put or remove of the key.  Even
   then a key holds a value that was once put under it, or none.             *)
AtRestOnDisk ==
    /\ \A k \in Keys \ (Shared \cup uncertain) :
          ~ InUse(k) => Disk(k) = latest[k] /\ hot[k] \in {None, latest[k]}
    /\ \A k \in Keys : {hot[k], warm[k], cold[k]} \subseteq Holdings(k)

Returns(t, op) == call[t].op = op /\ call'[t] = Idle /\ reply' \notin {NoReply, "error"}

ReadLatest(t) ==
    LET k == call[t].key IN
    /\ k \in Keys \ (Shared \cup uncertain) =>
          /\ Returns(t, "get") => reply' = latest[k]
          /\ Returns(t, "locate") => (reply' = None <=> latest[k] = None)
          /\ Returns(t, "remove") => reply' = latest[k]
    /\ Returns(t, "get") \/ Returns(t, "remove") => reply' \in Holdings(k)

(* Reads answer with the last written value, whichever tier the value is in by
   then, and locate finds it; a remove answers with the value it removed: but for
   the keys that AtRestOnDisk excepts, which may be told none or an older value.
   For every key, the answer is a value that was put under it, or none.      *)
ReadsLatest == [][\A t \in Threads : ReadLatest(t)]_vars
=============================================================================
