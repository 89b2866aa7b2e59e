------------------------------- MODULE Cache -------------------------------
(***************************************************************************)
(* The write-through / write-back cache in front of the NVS storage        *)
(* (components/iotPlatform/implplatform/esp32/dao/IOT_Cached.c), for one   *)
(* namespace.                                                              *)
(*                                                                         *)
(* The entries live in an array of maxEntries slots that a hash table of   *)
(* chains and an LRU list link together, all under one mutex.  The         *)
(* functions that load, write through, delete or check a key release the   *)
(* mutex around their call of the storage and do not look again at what    *)
(* they saw before, while a flush and an eviction write to the storage     *)
(* with the mutex held.                                                    *)
(*                                                                         *)
(* A region under the mutex is one action, a storage call another.  A      *)
(* storage call is atomic here (AtomicStore), and may fail with or without *)
(* having written.                                                         *)
(***************************************************************************)
EXTENDS Naturals, Sequences, FiniteSets

CONSTANTS
  Tasks,       \* the tasks that use the cache
  Keys,        \* the keys of the namespace
  Values,      \* what is stored under them
  MaxEntries,  \* config.maxEntries
  Policies,    \* what config.policy may be: "writeThrough", "writeBack"
  Hash,        \* hash_key: the bucket of each key
  UsersOf,     \* UsersOf[k]: the tasks that use key k
  Uses(_, _),  \* Uses(p, t): the operations that task t uses under policy p
  CounterMod,  \* the modulus of the uint16_t counters of the statistics
  DaoFaults,   \* TRUE: a storage call may fail
  MemFaults,   \* TRUE: an allocation may fail
  Absent,      \* "no value under this key"
  NoData       \* the data of an entry whose copy could not be allocated

Nobody == "nobody"  \* lock: nobody holds the mutex between two steps

ASSUME CacheAssumption ==
  /\ MaxEntries \in Nat \ {0}
  /\ IsFiniteSet(Keys) /\ Nobody \notin Tasks
  /\ Policies \subseteq {"writeThrough", "writeBack"}
  /\ UsersOf \in [Keys -> SUBSET Tasks]
  /\ CounterMod \in Nat /\ CounterMod > MaxEntries
  /\ DaoFaults \in BOOLEAN /\ MemFaults \in BOOLEAN
  /\ Absent \notin Values /\ NoData \notin Values /\ Absent # NoData
  /\ DOMAIN Hash = Keys

Slots == 1 .. MaxEntries
NoSlot == 0
Buckets == {Hash[k] : k \in Keys}
NoKey == ""  \* key[0] = 0

VARIABLES
  slot,        \* ns->entries
  chain,       \* ns->hash_table: the slots in each bucket, first to last
  lru,         \* the LRU list, most recently used first
  count,       \* ns->entry_count (stats.current_entries is set along with it)
  dirtyCount,  \* ns->stats.dirty_entries
  registered,  \* the namespace is registered
  policy,      \* ns->config.policy
  nvs,         \* the contents of the namespace in the storage
  lock,        \* the task that holds the mutex between two steps, or none
  pc,          \* pc[t]: where task t is in its operation
  op,          \* op[t]: the locals of that operation
  expected,    \* history: what the last successful set or delete of each key
               \* promised, or Unknown
  recent       \* history: the keys read or written, most recently first

cacheVars == <<slot, chain, lru, count, dirtyCount>>
vars == <<slot, chain, lru, count, dirtyCount, registered, policy, nvs, lock,
          pc, op, expected, recent>>

Freed == "freed"      \* the data of an entry that somebody else has freed
Unknown == "unknown"  \* expected: nothing is promised

(* One task uses the key.  The histories are kept for such keys. *)
Own(k) == \E t \in Tasks : UsersOf[k] = {t}

EmptySlot == [valid |-> FALSE, key |-> NoKey, val |-> NoData, dirty |-> FALSE]
NoOp == [kind |-> "none"]

EmptyCache ==
  /\ slot = [s \in Slots |-> EmptySlot]
  /\ chain = [b \in Buckets |-> <<>>]
  /\ lru = <<>>
  /\ count = 0 /\ dirtyCount = 0

Init ==
  /\ EmptyCache
  /\ registered = FALSE /\ policy \in Policies
  /\ nvs \in [Keys -> Values \cup {Absent}]
  /\ lock = Nobody
  /\ pc = [t \in Tasks |-> "idle"]
  /\ op = [t \in Tasks |-> NoOp]
  /\ expected = [k \in Keys |-> IF Own(k) THEN nvs[k] ELSE Unknown]
  /\ recent = <<>>

-----------------------------------------------------------------------------
(* The lists and the table.  A state of the cache is the record            *)
(* [slot, chain, lru, count, dirtyCount, nvs]; a helper maps such a record *)
(* to the one it leaves, or to the set of those it may leave.              *)

Here == [slot |-> slot, chain |-> chain, lru |-> lru, count |-> count,
         dirtyCount |-> dirtyCount, nvs |-> nvs]

(* The region ends with the cache in state c. *)
Becomes(c) ==
  /\ slot' = c.slot /\ chain' = c.chain /\ lru' = c.lru
  /\ count' = c.count /\ dirtyCount' = c.dirtyCount
  /\ nvs' = c.nvs

Members(seq) == {seq[i] : i \in DOMAIN seq}

(* lru_remove, hash_remove: s is taken out of a list it is in once. *)
Without(seq, s) ==
  IF s \notin Members(seq) THEN seq
  ELSE LET p == CHOOSE i \in DOMAIN seq : seq[i] = s
       IN [i \in 1 .. Len(seq) - 1 |-> IF i < p THEN seq[i] ELSE seq[i + 1]]

(* find_entry: the first valid entry for the key in its chain. *)
Find(c, k) ==
  LET bucket == c.chain[Hash[k]]
      hits == {i \in DOMAIN bucket :
                 c.slot[bucket[i]].valid /\ c.slot[bucket[i]].key = k}
  IN IF hits = {} THEN NoSlot
     ELSE bucket[CHOOSE i \in hits : \A j \in hits : i <= j]

(* Mutant: the LRU list is not updated. *)
NoTouch(c, s) == c

(* lru_move_to_front *)
Touch(c, s) == [c EXCEPT !.lru = <<s>> \o Without(@, s)]

(* hash_add and lru_add_front of an entry just filled in. *)
Attach(c, s, k) ==
  [c EXCEPT !.chain[Hash[k]] = <<s>> \o @,
            !.lru = <<s>> \o @,
            !.count = @ + 1]

(* Mutant: the entry is taken off the LRU list but not off its chain. *)
DetachFromLru(c, s) ==
  [c EXCEPT !.lru = Without(@, s),
            !.slot[s] = [EmptySlot EXCEPT !.dirty = c.slot[s].dirty],
            !.count = @ - 1]

(* lru_remove, hash_remove, free_entry_data and valid = false: the slot's  *)
(* dirty flag stays as it is.                                              *)
Detach(c, s) ==
  [c EXCEPT !.chain[Hash[c.slot[s].key]] = Without(@, s),
            !.lru = Without(@, s),
            !.slot[s] = [EmptySlot EXCEPT !.dirty = c.slot[s].dirty],
            !.count = @ - 1]

Lower(n) == IF n > 0 THEN n - 1 ELSE 0

(* How a storage call can end: done, failed without effect, or reported as *)
(* failed (timed out) and done all the same.                               *)
DaoEnds == {"ok"} \cup (IF DaoFaults THEN {"failed", "late"} ELSE {})
Stored(contents, end, k, v) ==
  IF end = "failed" THEN contents ELSE [contents EXCEPT ![k] = v]

(* flush_entry: an entry without data cannot be written. *)
FlushEnds(e) == IF e.val = NoData THEN {"failed"} ELSE DaoEnds
FlushEntry(c, s, end) ==
  LET stored == [c EXCEPT !.nvs = Stored(@, end, c.slot[s].key, c.slot[s].val)]
  IN IF end # "ok" THEN stored
     ELSE [stored EXCEPT !.slot[s].dirty = FALSE, !.dirtyCount = Lower(@)]

DirtySlots(c) == {s \in DOMAIN c.slot : c.slot[s].valid /\ c.slot[s].dirty}

(* The loop over all entries that flushes the dirty ones, in slot order;   *)
(* ends says how each write ended.  Of two entries of one key the last one *)
(* written stays.                                                          *)
FlushLoop(c, ends) ==
  LET done == {s \in DOMAIN ends : ends[s] = "ok"}
      written(k) == {s \in DOMAIN ends : ends[s] # "failed" /\ c.slot[s].key = k}
      last(S) == CHOOSE s \in S : \A r \in S : r <= s
      flushed == [s \in Slots |-> [c.slot[s] EXCEPT !.dirty = @ /\ s \notin done]]
      contents == [k \in Keys |-> IF written(k) = {} THEN c.nvs[k]
                                  ELSE c.slot[last(written(k))].val]
  IN [c EXCEPT !.slot = flushed, !.nvs = contents,
               !.dirtyCount = IF @ > Cardinality(done) THEN @ - Cardinality(done) ELSE 0]

FlushOutcomes(c) ==
  {ends \in [DirtySlots(c) -> {"ok", "failed", "late"}] :
     \A s \in DOMAIN ends : ends[s] \in FlushEnds(c.slot[s])}

(* Mutant: the victim is dropped without being written. *)
EvictUnflushed(c) == {[c |-> Detach(c, c.lru[Len(c.lru)]), ok |-> TRUE]}

(* evict_lru: the least recently used entry is written if it is dirty and  *)
(* then dropped; if it cannot be written it stays.                         *)
Evict(c) ==
  LET victim == c.lru[Len(c.lru)]
      dirty == c.slot[victim].dirty
      flushed(end) == IF dirty THEN FlushEntry(c, victim, end) ELSE c
  IN {IF end = "ok"
      THEN [c |-> Detach(flushed(end), victim), ok |-> TRUE]
      ELSE [c |-> flushed(end), ok |-> FALSE] :
        end \in IF dirty THEN FlushEnds(c.slot[victim]) ELSE {"ok"}}

(* allocate_entry: the first unused slot, after an eviction if there is    *)
(* none; NoSlot if the eviction fails.                                     *)
Unused(c) == {s \in Slots : ~c.slot[s].valid}
FirstUnused(c) == CHOOSE s \in Unused(c) : \A r \in Unused(c) : s <= r

Allocate(c) ==
  IF Unused(c) # {} THEN {[c |-> c, s |-> FirstUnused(c)]}
  ELSE {[c |-> e.c, s |-> IF e.ok THEN FirstUnused(e.c) ELSE NoSlot] : e \in Evict(c)}

-----------------------------------------------------------------------------
(* The operations of a task *)

Idle(t, kind) == pc[t] = "idle" /\ kind \in Uses(policy, t)
Unlocked == lock = Nobody

Goto(t, place, locals) ==
  /\ pc' = [pc EXCEPT ![t] = place]
  /\ op' = [op EXCEPT ![t] = locals]

Return(t) == Goto(t, "idle", NoOp)

Expect(k, v) == expected' = [expected EXCEPT ![k] = IF Own(k) THEN v ELSE Unknown]
Forget(S) == expected' = [k \in Keys |-> IF k \in S THEN Unknown ELSE expected[k]]
Used(k) == recent' = IF Own(k) THEN <<k>> \o Without(recent, k) ELSE recent

(* IOT_CacheGet, hit: the entry moves to the front and its data is copied; *)
(* an entry left without data answers an error if it is a BLOB.            *)
GetHit(t, k) ==
  /\ Idle(t, "get") /\ t \in UsersOf[k] /\ Unlocked
  /\ registered
  /\ Find(Here, k) # NoSlot
  /\ Becomes(Touch(Here, Find(Here, k)))
  /\ Used(k)
  /\ UNCHANGED <<registered, policy, lock, pc, op, expected>>

(* A restart empties the cache; what had not been written back is lost.    *)
Reboot ==
  /\ slot' = [s \in Slots |-> EmptySlot]
  /\ chain' = [b \in Buckets |-> <<>>]
  /\ lru' = <<>> /\ count' = 0 /\ dirtyCount' = 0
  /\ registered' = FALSE
  /\ lock' = Nobody
  /\ pc' = [t \in Tasks |-> "idle"]
  /\ op' = [t \in Tasks |-> NoOp]
  /\ recent' = <<>>
  /\ Forget({slot[s].key : s \in DirtySlots(Here)})
  /\ UNCHANGED <<policy, nvs>>

(* IOT_CacheGet, hit: an entry left without data that is a string or a     *)
(* number is copied from NULL.                                             *)
GetCrash(t, k) ==
  /\ Idle(t, "get") /\ t \in UsersOf[k] /\ Unlocked
  /\ registered
  /\ Find(Here, k) # NoSlot /\ slot[Find(Here, k)].val = NoData
  /\ Reboot

(* IOT_CacheGet, miss: the mutex is released to load the key. *)
GetMiss(t, k) ==
  /\ Idle(t, "get") /\ t \in UsersOf[k] /\ Unlocked
  /\ registered => Find(Here, k) = NoSlot
  /\ Goto(t, "loading", [kind |-> "get", k |-> k, cached |-> registered])
  /\ UNCHANGED <<cacheVars, registered, policy, nvs, lock, expected, recent>>

(* DAO_GetData: not found, failed, or the stored value. *)
LoadMiss(t) ==
  /\ pc[t] = "loading"
  /\ \/ /\ nvs[op[t].k] # Absent
        /\ op[t].cached
        /\ Goto(t, "inserting", [kind |-> "get", k |-> op[t].k, val |-> nvs[op[t].k]])
     \/ /\ nvs[op[t].k] = Absent \/ ~op[t].cached \/ DaoFaults
        /\ Return(t)
  /\ UNCHANGED <<cacheVars, registered, policy, nvs, lock, expected, recent>>

Fill(c, s, k, v, dirty) ==
  Attach([c EXCEPT !.slot[s] = [valid |-> TRUE, key |-> k, val |-> v, dirty |-> dirty]],
         s, k)

(* The loaded value becomes an entry, whatever happened to the key since   *)
(* the miss; without a slot for it, it is only returned.                   *)
InsertLoaded(t) ==
  /\ pc[t] = "inserting" /\ Unlocked
  /\ IF registered
     THEN \E a \in Allocate(Here) :
            IF a.s = NoSlot THEN Becomes(a.c) /\ UNCHANGED recent
            ELSE Becomes(Fill(a.c, a.s, op[t].k, op[t].val, FALSE)) /\ Used(op[t].k)
     ELSE UNCHANGED <<cacheVars, nvs, recent>>
  /\ Return(t)
  /\ UNCHANGED <<registered, policy, lock, expected>>

MarkDirty(c, s) ==
  IF c.slot[s].dirty THEN c
  ELSE [c EXCEPT !.slot[s].dirty = TRUE, !.dirtyCount = (@ + 1) % CounterMod]

(* The entry that a set writes to: the one of the key, moved to the front, *)
(* or a new one, which keeps the dirty flag its slot was left with.        *)
EntryFor(k) ==
  IF Find(Here, k) # NoSlot
  THEN {[c |-> Touch(Here, Find(Here, k)), s |-> Find(Here, k)]}
  ELSE {IF a.s = NoSlot THEN a
        ELSE [c |-> Fill(a.c, a.s, k, NoData, a.c.slot[a.s].dirty), s |-> a.s] :
          a \in Allocate(Here)}

(* IOT_CacheSet under the mutex.  No slot, or no memory for the copy: it   *)
(* fails, in the second case with an entry that has no data.  Written      *)
(* through, the mutex is released for the write; written back, it is done. *)
SetEntry(t, k, v) ==
  /\ Idle(t, "set") /\ t \in UsersOf[k] /\ Unlocked
  /\ registered
  /\ \E e \in EntryFor(k) :
       \/ /\ e.s = NoSlot
          /\ Becomes(e.c)
          /\ UNCHANGED <<pc, op, expected, recent>>
       \/ /\ e.s # NoSlot /\ MemFaults
          /\ Becomes([e.c EXCEPT !.slot[e.s].val = NoData])
          /\ Expect(k, Unknown) /\ Used(k)
          /\ UNCHANGED <<pc, op>>
       \/ /\ e.s # NoSlot /\ policy = "writeThrough"
          /\ Becomes([e.c EXCEPT !.slot[e.s].val = v])
          /\ Goto(t, "writing", [kind |-> "set", k |-> k, val |-> v])
          /\ Expect(k, Unknown) /\ Used(k)
       \/ /\ e.s # NoSlot /\ policy = "writeBack"
          /\ Becomes(MarkDirty([e.c EXCEPT !.slot[e.s].val = v], e.s))
          /\ Expect(k, v) /\ Used(k)
          /\ UNCHANGED <<pc, op>>
  /\ UNCHANGED <<registered, policy, lock>>

(* IOT_CacheSet when the namespace is not cached. *)
SetUncached(t, k, v) ==
  /\ Idle(t, "set") /\ t \in UsersOf[k] /\ Unlocked
  /\ ~registered
  /\ Goto(t, "writing", [kind |-> "set", k |-> k, val |-> v])
  /\ Expect(k, Unknown)
  /\ UNCHANGED <<cacheVars, registered, policy, nvs, lock, recent>>

(* Mutant: a write-through that failed is reported as done. *)
WriteThroughUnchecked(t) ==
  /\ pc[t] = "writing"
  /\ \E end \in DaoEnds :
       /\ nvs' = Stored(nvs, end, op[t].k, op[t].val)
       /\ Expect(op[t].k, op[t].val)
  /\ Return(t)
  /\ UNCHANGED <<cacheVars, registered, policy, lock, recent>>

(* DAO_SetData of a write-through; entry->dirty = false is no change, no   *)
(* entry of a write-through namespace is ever dirty.                       *)
WriteThrough(t) ==
  /\ pc[t] = "writing"
  /\ \E end \in DaoEnds :
       /\ nvs' = Stored(nvs, end, op[t].k, op[t].val)
       /\ Expect(op[t].k, IF end = "ok" THEN op[t].val ELSE Unknown)
  /\ Return(t)
  /\ UNCHANGED <<cacheVars, registered, policy, lock, recent>>

(* The entry of a key is dropped with what it had to write. *)
Drop(c, s) ==
  LET d == Detach(c, s)
  IN IF c.slot[s].dirty
     THEN [d EXCEPT !.slot[s].dirty = FALSE, !.dirtyCount = Lower(@)]
     ELSE d

(* IOT_CacheDelete under the mutex. *)
DeleteEntry(t, k) ==
  /\ Idle(t, "delete") /\ t \in UsersOf[k] /\ Unlocked
  /\ IF registered /\ Find(Here, k) # NoSlot
     THEN Becomes(Drop(Here, Find(Here, k)))
     ELSE UNCHANGED <<cacheVars, nvs>>
  /\ Goto(t, "removing", [kind |-> "delete", k |-> k])
  /\ Expect(k, Unknown)
  /\ UNCHANGED <<registered, policy, lock, recent>>

(* DAO_RemoveDataByKey *)
RemoveStored(t) ==
  /\ pc[t] = "removing"
  /\ \E end \in DaoEnds :
       /\ nvs' = Stored(nvs, end, op[t].k, Absent)
       /\ Expect(op[t].k, IF end = "ok" THEN Absent ELSE Unknown)
  /\ Return(t)
  /\ UNCHANGED <<cacheVars, registered, policy, lock, recent>>

(* IOT_CacheFlush, also called by the flush timer. *)
Flush(t) ==
  /\ Idle(t, "flush") /\ Unlocked
  /\ registered
  /\ \E ends \in FlushOutcomes(Here) : Becomes(FlushLoop(Here, ends))
  /\ UNCHANGED <<registered, policy, lock, pc, op, expected, recent>>

(* IOT_CacheInvalidate of one key: a dirty entry is flushed first, and     *)
(* dropped whether or not that worked.                                     *)
InvalidateKey(t, k) ==
  /\ Idle(t, "invalidate") /\ t \in UsersOf[k] /\ Unlocked
  /\ registered
  /\ Find(Here, k) # NoSlot
  /\ LET s == Find(Here, k)
     IN IF slot[s].dirty
        THEN \E end \in FlushEnds(slot[s]) :
               /\ Becomes(Detach(FlushEntry(Here, s, end), s))
               /\ Forget(IF end = "ok" THEN {} ELSE {k})
        ELSE Becomes(Detach(Here, s)) /\ UNCHANGED expected
  /\ UNCHANGED <<registered, policy, lock, pc, op, recent>>

(* Mutant: the entries are dropped but still counted. *)
EmptiedStillCounted(c, keep) ==
  [c EXCEPT !.slot = [s \in Slots |-> [EmptySlot EXCEPT !.dirty = keep[s]]],
            !.chain = [b \in Buckets |-> <<>>], !.lru = <<>>,
            !.dirtyCount = 0]

(* Everything is dropped; the slots keep the dirty flags in keep. *)
Emptied(c, keep) ==
  [c EXCEPT !.slot = [s \in Slots |-> [EmptySlot EXCEPT !.dirty = keep[s]]],
            !.chain = [b \in Buckets |-> <<>>], !.lru = <<>>,
            !.count = 0, !.dirtyCount = 0]

(* The keys whose dirty entries a flush could not write. *)
Unwritten(ends) == {slot[s].key : s \in {d \in DOMAIN ends : ends[d] # "ok"}}

Flags(c) == [s \in Slots |-> c.slot[s].dirty]

(* IOT_CacheInvalidate of the namespace. *)
InvalidateAll(t) ==
  /\ Idle(t, "invalidateAll") /\ Unlocked
  /\ registered
  /\ \E ends \in FlushOutcomes(Here) :
       LET c == FlushLoop(Here, ends)
       IN Becomes(Emptied(c, Flags(c))) /\ Forget(Unwritten(ends))
  /\ UNCHANGED <<registered, policy, lock, pc, op, recent>>

(* IOT_CacheClear after its optional flush, which is a Flush of its own.   *)
Clear(t) ==
  /\ Idle(t, "clear") /\ Unlocked
  /\ registered
  /\ Becomes(Emptied(Here, [s \in Slots |-> slot[s].dirty /\ ~slot[s].valid]))
  /\ Forget({slot[s].key : s \in DirtySlots(Here)})
  /\ UNCHANGED <<registered, policy, lock, pc, op, recent>>

Orders(S) == {f \in [1 .. Cardinality(S) -> S] : \A i, j \in DOMAIN f : f[i] = f[j] => i = j}
StoredKeys == {k \in Keys : nvs[k] # Absent}

(* IOT_CachePreload: DAO_GetNamespaceData copies every stored key and      *)
(* value, in the order of the storage.                                     *)
PreloadRead(t) ==
  /\ Idle(t, "preload")
  /\ StoredKeys # {}
  /\ \E order \in Orders(StoredKeys) :
       Goto(t, "preloading", [kind |-> "preload", todo |-> order, data |-> nvs,
                              i |-> 0, loaded |-> 0, taken |-> {}])
  /\ UNCHANGED <<cacheVars, registered, policy, nvs, lock, expected, recent>>

PreloadLock(t) ==
  /\ pc[t] = "preloading" /\ Unlocked
  /\ IF registered
     THEN /\ lock' = t
          /\ Goto(t, "preloadKey", op[t])
     ELSE lock' = lock /\ Return(t)
  /\ UNCHANGED <<cacheVars, registered, policy, nvs, expected, recent>>

MoreToLoad(p) == p.i < Len(p.todo) /\ p.loaded < MaxEntries

(* One turn of the loop: a key that is cached already, or gets no slot, is *)
(* skipped and its copy freed; another becomes an entry that owns the copy.*)
PreloadKey(t) ==
  LET p == op[t]
      k == p.todo[p.i + 1]
      next == [p EXCEPT !.i = @ + 1]
  IN /\ pc[t] = "preloadKey"
     /\ MoreToLoad(p)
     /\ IF Find(Here, k) # NoSlot
        THEN Goto(t, "preloadKey", next) /\ UNCHANGED <<cacheVars, nvs, recent>>
        ELSE \E a \in Allocate(Here) :
               IF a.s = NoSlot
               THEN Becomes(a.c) /\ Goto(t, "preloadKey", next) /\ UNCHANGED recent
               ELSE /\ Becomes(Fill(a.c, a.s, k, p.data[k], FALSE))
                    /\ Goto(t, "preloadKey",
                            [next EXCEPT !.loaded = @ + 1, !.taken = @ \cup {<<p.i, a.s>>}])
                    /\ Used(k)
     /\ UNCHANGED <<registered, policy, lock, expected>>

(* Mutant: the mutex stays locked when nothing was loaded. *)
PreloadKeepingLock(t) ==
  /\ pc[t] = "preloadKey"
  /\ ~MoreToLoad(op[t])
  /\ lock' = IF op[t].loaded = 0 THEN lock ELSE Nobody
  /\ Goto(t, "freeing", op[t])
  /\ UNCHANGED <<cacheVars, registered, policy, nvs, expected, recent>>

PreloadUnlock(t) ==
  /\ pc[t] = "preloadKey"
  /\ ~MoreToLoad(op[t])
  /\ lock' = Nobody
  /\ Goto(t, "freeing", op[t])
  /\ UNCHANGED <<cacheVars, registered, policy, nvs, expected, recent>>

(* "Free remaining data if any": every copy from index loaded on that is   *)
(* not NULL, those that became entries included.                           *)
Remaining(p) == {x \in p.taken : x[1] >= p.loaded}

PreloadFree(t) ==
  /\ pc[t] = "freeing"
  /\ slot' = [s \in Slots |->
                IF slot[s].valid /\ \E x \in Remaining(op[t]) : x[2] = s
                THEN [slot[s] EXCEPT !.val = Freed] ELSE slot[s]]
  /\ Return(t)
  /\ UNCHANGED <<chain, lru, count, dirtyCount, registered, policy, nvs, lock, expected, recent>>

-----------------------------------------------------------------------------
(* IOT_CacheRegisterNamespace *)
Register ==
  /\ Unlocked
  /\ ~registered
  /\ slot' = [s \in Slots |-> EmptySlot]
  /\ chain' = [b \in Buckets |-> <<>>]
  /\ lru' = <<>> /\ count' = 0 /\ dirtyCount' = 0
  /\ registered' = TRUE
  /\ UNCHANGED <<policy, nvs, lock, pc, op, expected, recent>>

(* IOT_CacheUnregisterNamespace: dirty entries are flushed, then the array *)
(* of entries is freed whether or not that worked.                         *)
Unregister ==
  /\ (\E t \in Tasks : "unregister" \in Uses(policy, t)) /\ Unlocked
  /\ registered
  /\ registered' = FALSE
  /\ \E ends \in FlushOutcomes(Here) :
       LET c == FlushLoop(Here, ends)
       IN Becomes(Emptied(c, [s \in Slots |-> FALSE])) /\ Forget(Unwritten(ends))
  /\ UNCHANGED <<policy, lock, pc, op, recent>>

Restart ==
  /\ \E t \in Tasks : "restart" \in Uses(policy, t)
  /\ Reboot

-----------------------------------------------------------------------------
Task(t) ==
  \/ \E k \in Keys : GetHit(t, k) \/ GetCrash(t, k) \/ GetMiss(t, k)
  \/ \E k \in Keys : DeleteEntry(t, k) \/ InvalidateKey(t, k)
  \/ \E k \in Keys, v \in Values : SetEntry(t, k, v) \/ SetUncached(t, k, v)
  \/ LoadMiss(t) \/ InsertLoaded(t) \/ WriteThrough(t) \/ RemoveStored(t)
  \/ Flush(t) \/ InvalidateAll(t) \/ Clear(t)
  \/ PreloadRead(t) \/ PreloadLock(t) \/ PreloadKey(t) \/ PreloadUnlock(t) \/ PreloadFree(t)

Next ==
  \/ \E t \in Tasks : Task(t)
  \/ Register \/ Unregister \/ Restart

Spec == Init /\ [][Next]_vars

(* Every task and the storage go on.  A task that waits for the mutex is   *)
(* in its queue and gets it when its turn comes, although others take it   *)
(* again and again: hence strong fairness for the two steps that lock it   *)
(* in the middle of an operation.                                          *)
GoOn(t) ==
  \/ LoadMiss(t) \/ WriteThrough(t) \/ RemoveStored(t)
  \/ PreloadKey(t) \/ PreloadUnlock(t) \/ PreloadFree(t)
LockAgain(t) == InsertLoaded(t) \/ PreloadLock(t)

FairSpec == Spec /\ \A t \in Tasks : WF_vars(GoOn(t)) /\ SF_vars(LockAgain(t))

-----------------------------------------------------------------------------
(* Properties *)

ValidSlots == {s \in Slots : slot[s].valid}
NoRepeat(seq) == Cardinality(Members(seq)) = Len(seq)

(* Every variable holds a value of its type. *)
TypeOK ==
  /\ slot \in [Slots -> [valid : BOOLEAN, key : Keys \cup {NoKey},
                         val : Values \cup {NoData, Freed}, dirty : BOOLEAN]]
  /\ \A b \in Buckets : Members(chain[b]) \subseteq Slots
  /\ Members(lru) \subseteq Slots
  /\ count \in 0 .. MaxEntries
  /\ dirtyCount \in 0 .. CounterMod - 1
  /\ registered \in BOOLEAN /\ policy \in Policies
  /\ nvs \in [Keys -> Values \cup {Absent, Freed}]
  /\ lock \in Tasks \cup {Nobody}
  /\ pc \in [Tasks -> {"idle", "loading", "inserting", "writing", "removing",
                       "preloading", "preloadKey", "freeing"}]
  /\ expected \in [Keys -> Values \cup {Absent, Unknown}]
  /\ Members(recent) \subseteq Keys

(* The array, the chains, the LRU list and the counter describe the same   *)
(* entries: every valid entry is once in the LRU list and once in the      *)
(* chain of its own key, nothing else is linked, and no list has a cycle.  *)
Linked ==
  /\ NoRepeat(lru) /\ Members(lru) = ValidSlots
  /\ \A b \in Buckets :
       /\ NoRepeat(chain[b])
       /\ Members(chain[b]) = {s \in ValidSlots : Hash[slot[s].key] = b}
  /\ count = Cardinality(ValidSlots)

(* The LRU list is in the order of the last uses, so the entry that an     *)
(* eviction drops is the one whose key has not been used for longest,      *)
(* whatever was evicted, invalidated, dropped unwritten or failed before.  *)
Before(seq, x, y) == \E i, j \in DOMAIN seq : i < j /\ seq[i] = x /\ seq[j] = y
KeyAt(i) == slot[lru[i]].key
LruIsRecency ==
  \A i, j \in DOMAIN lru :
    i < j /\ {KeyAt(i), KeyAt(j)} \subseteq Members(recent)
      => Before(recent, KeyAt(i), KeyAt(j))

(* What a key's only user last set or deleted successfully is what it      *)
(* finds, in the cache or in the storage, whatever others do to other      *)
(* keys, unless it was dropped before it could be written.                 *)
Lookup(k) == IF Find(Here, k) # NoSlot THEN slot[Find(Here, k)].val ELSE nvs[k]
ReadsOwnWrites == \A k \in Keys : expected[k] # Unknown => Lookup(k) = expected[k]

(* In a write-through namespace a set or delete that returned IOT_OK is in *)
(* the storage, unless another task writes that key, too.                  *)
AcknowledgedIsStored ==
  policy = "writeThrough" =>
    \A k \in Keys : expected[k] # Unknown => nvs[k] = expected[k]

(* An operation of the cache ends. *)
OperationsEnd == \A t \in Tasks : pc[t] # "idle" ~> pc[t] = "idle"

(* IOT_Cached.h: a write-through namespace is written "to NVS immediately  *)
(* on set"; when no operation is under way cache and storage agree.        *)
CoherentAtRest ==
  (policy = "writeThrough" /\ \A t \in Tasks : pc[t] = "idle") =>
    \A s \in ValidSlots : slot[s].val = nvs[slot[s].key]
=============================================================================
