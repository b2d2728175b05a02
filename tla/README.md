# TLA+ models and proofs of CLHT

CLHT is a library of concurrent hash tables whose buckets fit a cache line. This
directory holds TLA+ models of it, the TLC configurations that check them on small
instances, and proofs that TLAPS checks for every value of the constants. Paths such
as `src/clht_lf.c` are relative to the root of the repository.

## 1. The system

Every variant of the table implements the same interface: `clht_get`, `clht_put`
(insert if absent, returns whether it did) and `clht_remove` (returns the value it
removed, or 0). Key 0 marks an unused entry, value 0 means "not found". A bucket has
three entries (`ENTRIES_PER_BUCKET`); the bucket of a key is
`key & (num_buckets - 1)`.

| Component | State | Operations | Hard behaviour |
|---|---|---|---|
| lock-free table, `src/clht_lf.c`, `include/clht_lf.h` | per bucket one 64-bit snapshot word (32-bit version, a map of three slot states), keys, values | get, put, remove by compare-and-swap of the snapshot | races of puts of one key, slots held across retries, plain stores under readers, value reread instead of version check, progress |
| resizable lock-free table, `src/clht_lf_res.c` | `h->ht`, `resize_lock`, `status_lock`, tables linked by `table_new` and `table_prev`, each with a version | get, put, remove, `ht_status`, `ht_resize_pes` | updates racing the copy, waiting for announced versions, growing at the right moment |
| collection of old tables, `src/clht_gc.c` | `version_list` of thread records, `ht_oldest`, `version_min`, `gc_lock` | thread_init, announce, collect, collect_all, destroy, release | tables freed under their users, windows in the list of tables |
| default lock-based table, `src/clht_lb_res.c` | a mutex per table (locklib), chained buckets, `num_expands`, the locks of `clht_t` | get, put, remove, status, resize | resizer and updates use different locks, old table released under readers |
| `src/clht_lb_res_no_next.c` | bucket locks with a third state RESIZE | the same | stale `ht_old`, waiting for a resize |
| `src/clht_lb_linked.c` | chains that borrow main buckets, `hops` | the same | `hops` read before the lock, emergency expansion |
| `src/clht_lb.c` | bucket locks, chains | get, put, remove | readers without locks, order of the two stores of an insert |
| `src/clht_lb_packed.c` | bucket locks, packed entries, `last` | get, put, remove | a remove moves an entry under scans |
| `src/clht_lb_lock_ins.c` | bucket locks for put only | get, put, remove | remove without lock |
| `src/clht_lf_only_map_rem.c` | as `clht_lf.c`, with a fourth slot state | get, put, remove | competing removes |
| `include/atomic_ops.h` | none | CAS, TAS, SWAP, FAI | |
| locklib, ssmem | external libraries, only headers here | mutex; memory that is handed out again when all threads have dropped it | |
| `bmarks/test.c` | two barriers, counts per thread, `stop` | fill, operate, publish, print; create, stop, join, compare | rounds of a barrier, counts against the size of the table |
| `bmarks/snap_stress.c` | one bucket of its own, values that are pointers | search, put, remove on a snapshot word | reading objects that are freed meanwhile, slots that are never given back |
| `bmarks/math_cache.c`, `bmarks/test_mem.c` | a table of pointers to objects of ssmem | get or compute, put, remove, free | who frees an object, and when |
| `bmarks/test_ro.c`, `mytest.c`, `noise.c`, `src/measurements.c`, `include/latency.h`, `include/sspfd.h`, `scripts/` | none of the table's | profiling, further drivers | the assertions of the drivers are a source of properties |

The components interact through shared memory only. A thread calls a table; the
resizable tables call `ht_status`, which calls `ht_resize_pes` and the collector; the
collector frees tables that no announced version protects; threads announce versions
through the record that `clht_gc_thread_init` links into `version_list`. The benchmarks
call a table through its interface, or have a bucket of their own, and share objects of
ssmem through it.

What makes each correct:

* every table: a linearizable map (module `ClhtMap`);
* a bucket: no key valid twice, every slot under construction owned by exactly one
  put, valid entries never overwritten, no call dependent on another thread's progress;
* a resize: every entry of the old table and nothing else is in the new one, gets on
  the old table stay correct, the new table has room, everyone who waits is let go;
* the collector: no table freed twice, while in use, or never;
* the benchmarks: no thread a phase ahead of the others, counts that agree with the
  table, every object in one place and freed once, no reader of an object that is
  used again.

## 2. Modules

| Module | Models | 
|---|---|
| `ClhtMap` | abstract specification: the map, with operations that take effect at one moment of the call |
| `LfBucket` | one bucket of `src/clht_lf.c`, one access to shared memory per action |
| `MCLfBucket` | instances of it: symmetry, the specification in which one thread may stop |
| `LfBucketProofs` | the invariants of `LfBucket`, and that it implements `ClhtMap`, proved |
| `LfRes` | `src/clht_lf_res.c` and `src/clht_gc.c`: tables, resizing, versions, collection |
| `MCLfRes` | instances of it |
| `LfResProofs` | the invariants of `LfRes`, proved |
| `LbRes` | `src/clht_lb_res.c`, the default build: mutex, chains, resizing |
| `MCLbRes` | instances of it |
| `LbResProofs` | the invariants of `LbRes`, proved |
| `BucketCalls` | what the lock-based tables of a fixed size share: entries of a bucket, its lock, the searches without a lock |
| `LbBucket` | `src/clht_lb.c` |
| `LbLockIns` | `src/clht_lb_lock_ins.c` |
| `LbPacked` | `src/clht_lb_packed.c` |
| `LfMapRem` | `src/clht_lf_only_map_rem.c`, an extension of `LfBucket` |
| `RtmLock` | the bucket lock of `include/clht_lb_res.h` with CLHT_USE_RTM |
| `NatFacts` | lemmas about numbers that the proofs share: least elements, induction over a set of numbers, powers of two |
| `MCFixed` | these five in one instance |
| `FixedProofs` | `LbPacked`, `LfMapRem` and `RtmLock`: refinements, marks, exclusion, proved |
| `FixedLockProofs` | `LbLockIns` and `LbBucket`: refinements; types and sizes of all five, proved |
| `LockedTables` | what the resizable tables without chains share: tables with bucket locks, searches, copying |
| `LbNoNext` | `src/clht_lb_res_no_next.c` |
| `LbNoNextProofs` | its list of tables, proved |
| `LbLinked` | `src/clht_lb_linked.c` |
| `MCLinked` | three instances of `LbLinked` |
| `Driver` | `bmarks/test.c`: threads, barriers, counts, on top of an atomic map |
| `Ssmem` | the allocator as `include/ssmem.h` describes it (external) |
| `SnapStress` | `bmarks/snap_stress.c` |
| `ObjectCache` | `bmarks/math_cache.c` and `bmarks/test_mem.c` |
| `MCBmarks` | the benchmarks in one instance |
| `BmarksProofs` | their barriers, counts and objects, proved |

### ClhtMap

`store` is the map, `call[t]` the call in progress, `ret[t]` the last answer and
`seen[t]` a history: the set of values the key of the call was mapped to since it
began. A successful put or remove changes `store` in one step and returns in it. All
other answers (a get, a put that finds its key, a remove that does not) must be
members of `seen[t]`: they change nothing, so they can be ordered at the moment the
answer was true. A behaviour allowed by `ClhtMap` is therefore linearizable.
The concrete modules keep `call`, `ret` and `seen` under the same names and define
`Store` for the refinement `Map == INSTANCE ClhtMap WITH store <- Store`.

### LfBucket

Buckets share no state and a call touches one bucket, so one bucket with all of its
threads is the whole table. Variables follow the C names: `word` is
`bucket->snapshot`; `snap[t]` is the local `s`; `slot[t]` is `empty_index`, 0 when it
is negative. `pc[t]` names the next access to shared memory.

| Code | Actions |
|---|---|
| `clht_bucket_search` | `SearchVal`, `SearchMap`, `SearchKey`, `SearchAgain` for the four reads of a slot; `SearchNext` is the loop, `SearchDone` what the caller does |
| `clht_put` | `Put`, `ReadSnapshot`, the search, `Claim` (first CAS), `WriteVal`, `WriteKey`, `Commit` (second CAS), `Release` (byte store of MAP_INVLD) |
| `clht_remove` | `Remove`, `ReadSnapshot`, `RemoveKey`, `RemoveVal`, `RemoveCas` |
| `clht_get` | `Get` and the search |

The remove tests `bucket->key[i] == key` before the map of its *snapshot*: `RemoveKey`
is one step because only the key is shared. `s1` is not a variable: it is
`SetMap(snap[t], slot[t], INSRT)` wherever the code uses it.

Abstractions: memory is sequentially consistent. On x86 the only reordering is a store
delayed after later loads of the same thread; the put's stores of value and key are
followed by a locked instruction, and the byte store that releases a slot is the last
access of its call, so a delay is the same as a slower thread. (The `__tile__` fences
are for another machine.) `VersionMod` is the width of the version field and `NoWrap`
assumes that a run commits less often than it can count.

### LfRes

An operation on the bucket of one table is one step (`GetSearch`, `RemoveKey`), or two
for a put that claims a slot (`PutSearch`, `PutCommit`), because `LfBucket` shows that
a bucket implements the map; its inner steps would only multiply states. The steps
between the tables are kept one by one:

| Code | Actions |
|---|---|
| `clht_gc_thread_init` | `ThreadInit` reads the version, `ThreadLink` links the record |
| `clht_get` | `Get` (the caller reads `h->ht`), `GetAnnounce`, `GetSearch` |
| `clht_put`, `clht_remove` | `Put`/`Remove`, `CheckResize` (the spin of CLHT_CHECK_RESIZE), `ReadHt`, `PutSearch`, `NoEmptySlot`, `PutCommit`, `RemoveKey` |
| `ht_status` | `Status` (the TAS), `Decide`, `Leave` |
| `ht_resize_pes` | `ResizeLock`, `ResizeBegin`, `ResizeMark`, `ResizeMin`, `ResizeScan`, `ResizeWait`, `CopyCell` for one entry each, `Swap`, `TableNew`, `ResizeUnlock` |
| `clht_gc_collect` | `Gc`, `GcCheck`, `GcLock`, `GcMin`, `GcScan`, `GcOldest`, `GcFree` for one table each, `GcDone`, `GcUnlock` |
| `clht_gc_destroy`, `clht_gc_collect_all` | `Destroy`, `CollectAll` (the walk along table_new is `Reached`) |
| `clht_size_mem`, `clht_size_mem_garbage` | `SizeMem`, `SizeMemGarbage` (the walk along table_prev) |

Tables are numbered in the order of their creation; freed ones stay in `tables` with a
flag, so that a use after the free can be told. A thread that would work on a freed
table takes no further step, since what the code does from there is undefined. Merged
into one step are: the commit of an update with its CLHT_NO_UPDATE and return (the
announcement is the last store of the call); the counting loop of `ht_status` with its
decision; the creation of the new table, which nobody can see, with the increment of
the old version. In the merged decision `full_ratio` is computed by integer
arithmetic, and `NewNum` doubles, because `full_ratio / 40` is at most 2 and
`ht_status` rounds anything less up to 2.
The version of the first table is never initialised (memory from memalign): `Init`
picks it from `FirstVersions`. The Makefile compiles `clht_gc.c` once, against
`clht_lb_res.h`, whose CLHT_DO_GC is 0; `clht_lf_res.h` says 1. `DoGc` covers both.
That build also gives the two files different layouts of `clht_hashtable_s`; the
module assumes one layout, as the sources intend.

### LbRes

The default build (`Makefile`, with the settings of `clht_lb_res.h`). A bucket and the
buckets linked to it are one sequence of entries, `tables[v].chain[b]`; `num_expands`
is `expands`, and a bucket whose lock is LOCK_RESIZE is in `marked`.

| Code | Actions |
|---|---|
| `clht_get` | `Get` (the caller reads `h->ht`), `GetVal` and `GetKey` for each entry, `GetAgain`, `Unlock` |
| `clht_put` | `Put` (reads `h->ht`), `Exists` for each key of the first search, `PutLocked` (takes the mutex and searches again; links a bucket, or writes the value), `WriteKey`, `Unlock` |
| `clht_remove` | `Remove`, `Exists`, `RemoveLocked`, `Unlock` |
| `ht_status` | `Status` |
| `ht_resize_pes` | `ReadOld`, `ResizeLock`, `CopyLock`, `CopyKey`, `CopyVal`, `Swap`, `ResizeUnlock` |

Taking the mutex, the search under it and the first write are one step (`CanLock` is
the wait): only its holder writes keys of a table that
others can see, except the resizer, which writes to a table nobody sees. A call is
over, for `call` and `ret`, in the step that decides its answer. The mutex itself
(locklib, not in the repository) is an atomic lock. `Status` counts the entries in one
step; the count only chooses by how much the table grows. `status_lock` is left out:
`TRYLOCK_ACQ(...) && !resize_increase` keeps out nobody as every caller asks for an
increase. `resize_increase` is always true, so the shrinking branch does not occur.
ssmem, which decides when the memory of a released table is used again, is external:
`released` records the hand-over.

`raced` is a history variable: it becomes true when an update changes a bucket that
a resizer has locked, or a table that has been replaced. `ImplementsMapUnlessRaced` is
the refinement of `ClhtMap` up to that moment: the guarantee that is left given the
divergence of `LbResLost` below.

### BucketCalls, LbBucket, LbLockIns, LbPacked

As for `LfBucket`, one bucket is the whole table. A bucket and those linked to it are one
sequence of entries, `cells`; `lock` is the thread that holds its lock. Where only the
holder of the lock writes, taking the lock and the search under it are one step, and
the last store under the lock is one step with the release.

| Code | Actions |
|---|---|
| `clht_get` | `Get`, `GetVal`, `GetKey`, `GetAgain` for each entry (`ScanVal`, `ScanKey`, `ScanAgain` of `BucketCalls`) |
| `bucket_exists` | `Exists`: one key at a time |
| `clht_put` of `clht_lb.c` | `Put`, `PutLocked`, then `WriteKey`, or for a new bucket `LinkKey` and `LinkVal` in the order of lines 282-287 |
| `clht_remove` of `clht_lb.c` | `Remove`, `RemoveLocked` |
| `clht_put` of `clht_lb_lock_ins.c` | `PutLock`, `PutScan` for each entry, since removes go on, `PutFree`, `LinkVal`, `WriteKey` |
| `clht_remove` of `clht_lb_lock_ins.c` | `RemoveKey`, `RemoveCas` (to KEY_BLCK), `RemoveVal`, `RemoveFree` |
| `clht_get` of `clht_lb_packed.c` | `ReadLast` for each bucket, then `GetVal`, `GetKey`, `GetAgain` downwards |
| `clht_put` of `clht_lb_packed.c` | `PutLocked`, `WriteKey`, `Count` (`last++`) |
| `clht_remove` of `clht_lb_packed.c` | `RemoveLocked`, `MoveVal`, `MoveKey`, `Uncount` (`last--`) |

`LbBucket` has `Garbage`: a linked bucket comes from memalign and its values are not
cleared. In `LbLockIns` a remove is over for the map at its compare-and-swap, though it
still has to read the value: `Call` and `Ret` map the two. `resize` and the copying code in
`clht_lb_lock_ins.c` have no caller.

The properties say what each table promises, and up to where. `LockInsImplementsMap` is
plain linearizability. `LbImplementsMap` allows an answer read from the entry of a put
that has linked its bucket and not written the value yet. `PackedImplementsMap` allows a
search to miss or misread an entry during a remove that moves one. `MapRemImplementsMap`
allows a remove that meets the mark of another remove to answer 0.

### LfMapRem

`LfMapRem` instantiates `LfBucket` as `B` and takes its puts and searches from there,
with the test `map[i] >= MAP_VALID` in place of `== MAP_VALID`. The remove has its own
steps: `RemoveVal`, `RemoveMap`, `RemoveKey`, `RemoveAgain`, `RemoveMark` (CAS to
MAP_REMOV), `RemoveCheck`, and then `RemoveTake` and `RemoveFree`, or `RemoveUndo`.

### LockedTables, LbNoNext, LbLinked

Both tables lock buckets; a resize takes the lock of a bucket for ever (LOCK_RESIZE) and
copies it. `tables[v].locks[b]` is "free", "update" or "resize".

| Code | Actions |
|---|---|
| `clht_get` | `Get`, `GetVal`, `GetKey`, `GetAgain` |
| `clht_put`, `clht_remove` of `no_next` | `ExistsUpdate`, `LockTaken` and `TableWait` (the wait in `lock_acq_chk_resize`), `PutLocked`, `WriteKey`, `RemoveLocked`, `Again` |
| `clht_put`, `clht_remove` of `linked` | `ExistsUpdate`, `ReadHops`, `PutHop` and `RemoveHop` for each lock, `LockTaken`, `TableWait`, `WriteVal`, `WriteKey`, `Check` (the hops after the put), `Restart` |
| `ht_status` | `Status`, `ReadOld` (count and decide), `UnlockStatus` or `StatusUnlock` |
| `ht_resize_pes` | `ResizeLock`, `Copy` for each bucket, `Swap`, `TableNew` |

`depth` counts the calls of `ht_status` a thread is in: `ht_resize_pes` calls it again
for a new table that is crowded from the start (line 603). `stale` becomes true when a
put that has read other hops than its bucket now has finds an entry to write to, and when a
resize copies a table that is not the current one any more. `KeysReachable` and
`LinkedImplementsMap` are claims up to then: a put whose hops are outdated and which fails,
waits or resizes does no harm, and one that writes may put its key twice or out of reach (lines 288
and 362), which they do not judge. `PutSeq` follows the buckets as far as the last; that an
entry finds no room at all (line 460, where the code goes on with no bucket) happens in no
instance, and is not modelled.

With CLHT_HELP_RESIZE (0 in `clht_lb_res.h` and `clht_lb_linked.h`) a thread that waits
for a resize of `no_next` helps with it: `Help` (the first to decrement `is_helper`),
`HelpLock` and `HelpCopy` for each bucket from the last one down. The resizer stops
where it meets the helper (`Meet`) and waits for the bucket that the helper is still
copying (`HelperDone` in the guard of `Swap`). `help` is the choice of the build; both
values are checked.

### RtmLock

With CLHT_USE_RTM, which the headers set for machines that have transactions (`RTM`),
LOCK_ACQ starts a transaction, reads the lock in it and runs the section without taking
the lock. The module is one bucket with its lock, updates whose section reads and writes
`content`, and the resizer. The processor is external: `XBegin`; `Write`, whose store
undoes the transactions of others that have touched the same place; `Abort` for any other
reason, at any moment; a commit (the first case of `Release`) shows the store of
the section to others at once. A transaction that is undone is back at `_xbegin`, tries once
more, and then takes the lock.

| Code | Actions |
|---|---|
| `lock_acq_rtm_chk_resize` | `Acquire`, `XBegin`, `ReadLock`, `Wait` |
| `lock_acq_chk_resize` | `Cas`, `Wait` |
| LOCK_RLS | `Release` |
| `lock_acq_resize`, `bucket_cpy`, `table_new` | `ResizeLock`, `Copy`, `TableNew` |

The tables themselves are modelled with the plain lock. `LockExcludes` is what they need of
a lock: no update lost, none in a bucket that has been copied.

### Driver

The table is the map it implements, each call one step; `counts` are the counters of the
threads. `barrier_cross` runs under a mutex up to its wait: `Arrive` waits, `Complete` is
the last to arrive, `WakeUp` returns from the wait. The wait is not in a loop, and POSIX
lets it return without a signal: `Spurious`.

| Code | Actions |
|---|---|
| `test` | `Fill`, `Filled`, `Operation`, `Stopped`, `Publish`, `PrintTurn` (a turn of EXEC_IN_DEC_ID_ORDER) |
| `main` | `Create`, `Stop`, `Join`, `Report` |

`math_cache.c`, `test_mem.c` and `snap_stress.c` have the same barrier and the same `main`.

Operations that leave the table as it is count for nothing and are left out. `IntBits`
is the width of the `int` to which the benchmark assigns the value of a remove:
`missed` counts removes of values that become 0 there.

### Ssmem, SnapStress, ObjectCache

`Ssmem` follows its header: a freed object is handed out again when every thread has
called the allocator since. The real library keeps freed objects for the thread that
freed them and reclaims them in batches; the module lets every thread have them at the
first moment the header allows, which has more behaviours. `readers[o]` are the threads
that may still look at the freed object `o`. `refilled` is a history variable: a thread
is in it from the moment a put writes the value that the thread has read of a slot into
that slot once more, until it reads the next slot.

| Code | Actions |
|---|---|
| `snap_stress.c`: `test`, get | `Begin`, `SearchVal`, `SearchMap`, `SearchKey`, `SearchAgain`, `Read` |
| put | `Put` (allocates), `Snapshot`, the search, `Claim`, `WriteVal`, `WriteKey`, `Commit`, `Release` |
| remove | `RemSnapshot`, `RemKey`, `RemVal`, `RemCas`, `RemFree` |
| `math_cache.c`: `test` | `CacheGet`, `CacheCheck`, `CacheMiss`, `CachePut`, `CachePutFailed`, `CacheRemove`, `CacheRemoveCheck`, `RemoveFree` |
| `test_mem.c`: `test` | `Fill`, `FillPut`, `FillFailed`, `Filled`, `MemPut`, `MemPutCall`, `MemRemove`, `RemoveFree` |

## 3. Runs

All runs exhaust their state space. Several put instances or variants of a module into
one state space, told apart by a variable that never changes. "Deadlock" is checked in
the LfBucket runs, `LbRes`, `Fixed` and `LbNoNext`. The LfRes runs switch it off: after
`Destroy` the table is gone, and threads left with a freed table stop, by design of the
module. `LbResLost`, `Linked` and `Bmarks` stop when their updates or allocations are
used up, and programs end.

| Run | Instance | Shows |
|---|---|---|
| `LfBucket` | 2 threads, 2 keys, 2 slots, 3 puts | `TypeOK`, `NoDuplicateKeys`, `InsertSlotsHeld`, `ValidSlotsStable`, and `ImplementsMap`: the bucket is a linearizable map when values differ |
| `LfBucketLone` | 2 threads, 2 slots, only t1 fair | `LoneCallReturns`: a call of t1 returns unless the bucket is full for good, wherever t2 stops; `LoneGetReturns`: a get always does; `IInv`, the inductive invariant of the proofs |
| `LfRes` | "resize": 1 updater, 1 reader, keys 1..3, 3 puts, up to 3 tables; "collect": 2 updaters, 2 keys, 2 puts, collection on | `ResImplementsMap` across resizes, which also says that no entry is lost by copying, in the first; `CollectorSafe`, `NoTableLost`, `TypeOK`, `TablesLinked` in both |
| `LfResLive` | 2 updaters, fair | `CallsReturnIfIdleSilent` |
| `LfResLost` | 2 updaters | *violated* `SizeAccounts` |
| `LfResSparse` | 1 thread, 64 buckets, constants of the code, fair | *violated* `CallsReturn` |
| `LbRes` | t1 puts and removes, t2 puts and gets, 3 keys, 4 updates, up to 3 tables | `TypeOK`, `LockDiscipline` (every path unlocks), `ResizedOnce` (no table copied twice, none current released), `ImplementsMapUnlessRaced` |
| `LbResLost` | 2 updaters | *violated* `SizeAccounts` |
| `Fixed` | each table of a fixed size: 2 threads, 2 keys, 1 entry per bucket, 3 puts (`LfMapRem`: 2 slots, 2 puts) | the refinements named above; `SizeRight`: when nobody updates, `clht_size` is the number of keys that gets find (no duplicates, no entry left half done, no gaps in packed chains); `MarksHeld`: a mark belongs to one remove. `RtmLock` with 3 threads: `LockExcludes` |
| `LbNoNext` | 2 threads that put and remove, t2 also gets, keys 1, 2, 5, 1 entry per bucket, 3 updates, up to 4 tables, with and without helper, fair | `ImplementsMap`, copied entries included, `OneSuccessor` (a table is replaced once), `CallsReturn` (nobody waits for a table that never comes) |
| `Linked` | "hops": keys come and go and spread; "emergency": no place in reach; "shrink": a sparse table gets smaller and has to grow at once | `LocksReleased`, `KeysReachable`, `LinkedImplementsMap`, copied entries included |
| `Bmarks` | `test.c`: 3 threads, 4 keys, 2 entries to fill, 1 update, 1 spurious return; `snap_stress.c`: 2 threads, 2 slots, 3 puts, 1 slot in any state at first; object benchmarks: 2 threads, 2 keys, 3 objects, 4 allocations | `PhasesSeparate`, `TestEnds`; `StressSlotsHeld`; `ObjectsOnce`, `ReadsRight`; `Counted`: the counts agree with what is stored (`SizeMatches` of `Driver`) |

### Bounds

`MaxPuts` bounds the puts; removes and gets are unbounded. Two puts are needed to race
for one key and a third to reuse a slot under a reader of the old entry; two slots are
needed to have a duplicate at all. `LbRes` bounds puts and removes together (`MaxUpdates`): two puts fill a bucket
and trigger a resize, a third links another bucket or meets the copy, a fourth follows
a remove under a reader. `MaxTables` bounds the tables; with three, an old
table that was itself the product of a resize is collected. `Tries` is the number of
failures before a put asks for a resize (16 in the code); 0 or 1 keeps both branches,
and `LfResSparse` uses the real constants. One or two entries per bucket make full
buckets common; the code's three would only delay them.

In `Fixed` one entry per bucket makes the second put link a bucket and a remove move an
entry between buckets; the third put meets what is left of both. `RtmLock` counts
updates modulo 3, enough to tell that one or two of them were lost. In `LbNoNext` keys 1
and 5 meet in one bucket of the first two sizes and part in the third, and key 2 gives
the other bucket an entry, so that resizer and helper both have some to copy. In
`Linked` the keys are odd: they meet in one bucket of the first table and part in later
ones; `Extra` is CLHT_LINKED_MAX_EXPANSIONS_HARD, the buckets behind the last and the
most hops a put may make. `LbLinked` has percentages as in the code where it matters:
"shrink" raises CLHT_PERC_FULL_HALVE so that two entries are few. In `Bmarks` `Initial`
is not a multiple of the number of threads, so the remainder counts; the three threads
make rounds of a barrier in which one can be a round behind; `IntBits = 2` makes a key's
square and some operation numbers 0 as an `int`. `MaxOps` is 1: the phases, not the
operations, are what this run is about. `MaxAllocs` is 3 for `snap_stress.c`: the third put can
meet a get that still holds the object of the first. `DirtySlots` holds one slot, the rest of the
memory is taken to be 0.

### Fairness

`FairSpec` of `LfRes` assumes weak fairness of the steps inside a call, for every
thread: the operating system runs every thread. It assumes no fairness of `Call`
actions: no program is obliged to make calls. `LoneSpec` of `MCLfBucket` assumes it of
one thread only, which is what lock-freedom has to survive. `MaxPuts` makes the number
of commits finite; that a call is delayed only by the success of another is what turns
into termination. `FairSpec` of `LbNoNext` assumes the same of every thread's steps inside a
call. `FairSpec` of `Driver`, which `MCSpec` of `MCBmarks` repeats, assumes it of the steps of
the program apart from `Operation` (the duration of the benchmark is up to the user) and
`Spurious`. That a fill ends needs that a random key is new in the end.

### Where the code differs from what it says

The first three are violated runs; what follows them was met while modelling and is part of
the models, as a behaviour that a property allows for or, where so marked, as an
assumption.

* `LfResLost`: a put or remove checks `resize_lock` before it reads `h->ht`
  (`src/clht_lf_res.c:254-255`) and announces no version while it works, so the
  resizer does not wait for it. An acknowledged put can be missing from the new table,
  and a removed key come back; `bmarks/test_ro.c:588` asserts the opposite.
  `ResImplementsMap` is therefore checked for one updating thread, where it holds: gets
  on tables already replaced included.
* `LfResSparse`: `ht_status` ignores the emergency of a full bucket if the table is
  less than 2% full (`src/clht_lf_res.c:546`): the put never returns.
* `LbResLost`: updates of the default table lock its mutex, the resizer locks its
  buckets (`src/clht_lb_res.c:303,405` and `484`): nothing orders an update and the
  copying of its bucket, and an acknowledged update can be lost.
* A search takes an entry for consistent if its value is the same before and after
  (`src/clht_lf.c:195`). With equal values stored for different keys a get could answer
  with a value its key never had: the runs assume `DistinctVals`.
* In `src/clht_lf_res.c` an update announces no version while it works, so the collector
  may free the table under it; such a thread stops in the model. And the resizer waits for an
  announcement by every registered thread: one that got a value last, or has only
  registered, and makes no more calls, never gives it (`CallsReturnIfIdleSilent` assumes that
  it has).
* `src/clht_lb.c:282-287`: a linked bucket is visible before its entry has a value; a get
  that finds the key returns what the memory held, a put reports a key that no get finds.
* `src/clht_lb_packed.c:346-356`: a search that has passed the gap misses the entry that is
  moved there, and one that stands at the old place may read it again.
* `src/clht_lf_only_map_rem.c:325`: a remove that meets the mark of another goes on and
  answers 0 though gets find the key, even if the other takes its mark back.
* `src/clht_lb_linked.c:288,362`: hops are read before the lock and set from that value. A
  put can miss its key in a bucket further on and insert it twice, or lower the hops so
  that keys go out of reach. `ht_old` is read before `resize_lock` is tried: a table that was
  copied already is copied again, and as its buckets are locked the copy is empty.
* `src/clht_lb_linked.c:331-335`: a put in an emergency waits for a successor of its table
  even when `ht_status` returned because another thread had the lock; if that one
  resizes nothing, or an older table, nobody creates the successor.
* `src/clht_lb_linked.c:603,713`: the nested `ht_status` releases `status_lock`, and the
  outer one does again, then perhaps for a third thread that has taken it.
* `src/clht_lb_linked.c:460`: `clht_put_seq` follows `next` without a limit; entries can end
  up further away than an update ever looks, and behind the last bucket there is none.
* `bmarks/test.c:293`: the 64-bit value of a remove is assigned to an `int`; if its low bits
  are 0 the remove is not counted. `SizeMatches` has that as a term.
* `bmarks/test.c:145`: `pthread_cond_wait` is not called in a loop. If it returns unasked, a
  thread runs ahead, its place in the next round is taken twice, and all may wait at the end.
* `bmarks/snap_stress.c:326`: a put that finds its key gives back its slot only if
  `empty_index > 0`: slot 0 stays marked for ever. Line 565: the bucket is not cleared.
* `bmarks/snap_stress.c:283-293`: a get reads a value, the map, the key and the value again, and
  then the object. It may read the value that an invalid slot still has, whose object was
  freed long ago. If the slot becomes valid with another object and is emptied again, and the
  first object is handed out for another key and stored in the same slot, value first, the
  get finds the old key, a valid map from before and an equal value, and reads an object of
  the other key ("key != val"). `GetsReadTheirKey` leaves these gets out (`refilled`). The
  proof of it did not go through without that; with `Entries = 1` and `MaxAllocs = 3` TLC
  shows the 56 steps (with `MaxAllocs = 2` it cannot happen).

## 4. Proofs

TLAPS proves the following for every value of the constants that the named assumptions
of the modules allow: any number of threads, any keys, slots, tables and bounds.

| Module | Theorem | States |
|---|---|---|
| `LfBucketProofs` | `TypeCorrect`, `Invariance` | `[]TypeOK`, `[]IInv` |
| | `UniqueKeys` | `[]NoDuplicateKeys` |
| | `SlotsHeld` | `[]InsertSlotsHeld` |
| | `StableSlots` | `ValidSlotsStable` |
| | `Implements` | `ImplementsMap`, if `DistinctVals` |
| `LfResProofs` | `Invariance`, `TypeCorrect` | `[]IInv`, `[]TypeOK` |
| | `Linked` | `[]TablesLinked` |
| | `CollectorIsSafe` | `[]CollectorSafe` |
| | `NothingLost` | `[]NoTableLost` |
| `LbResProofs` | `Invariance`, `TypeCorrect` | `[]IInv`, `[]TypeOK` |
| | `Disciplined` | `[]LockDiscipline` |
| | `CopiedOnce` | `[]ResizedOnce` |
| `LbNoNextProofs` | `Invariance`, `Successors` | `[]IInv`, `[]OneSuccessor` |
| `BmarksProofs` | `Invariance`, `PhasesApart` | `[]IInv` and `[]PhasesSeparate` of `Driver` |
| | `BmarksInvariance`, `TypesKept` | `[]MCInv`, `[]BmarksTypeOK` |
| | `NoneLost` | `[]ObjectsOnce` |
| | `ReadsSafe` | `[]ReadsRight` |
| | `MarksOwned` | `[]StressSlotsHeld` |
| | `CountsRight` | `[]Counted` |
| `FixedProofs` | `PackedRefines` | `PackedImplementsMap` |
| | `MapRemRefines` | `MapRemImplementsMap` |
| | `MarksAreHeld` | `[]MarksHeld` |
| | `RtmInvariance`, `LocksExclude` | `[]RtmInv`, `[]LockExcludes` |
| `FixedLockProofs` | `LockInsRefines` | `LockInsImplementsMap` |
| | `LbRefines` | `LbImplementsMap` |
| | `SizesMatch` | `[]SizeRight` |
| | `TypesHold` | `[]TypeOK` |

The constants are restricted by named assumptions only: sizes and bounds are positive numbers,
the sets of threads, keys and objects are finite where they are counted, and 0 (`NoKey`,
`NoVal`, `Null`) is no key, value or object. `NoWrap` says that a run commits less often than
the version can count. `BlckAssumption`: KEY_BLCK (-1) is no key and is not 0, as
`clht_lb_lock_ins.h` reserves it. `GarbageAssumption`: what memalign leaves in a linked bucket is
not a value that a put stores; if it were, an answer read from it would look like a right
one. `CountsPositive`: the content of `RtmLock` has at least one value.

Each proof has one lemma per action or per group of actions that disturb the same parts
of the invariant, and frame lemmas for what the step of one thread leaves to the others.
The run `LfBucketLone` also checks `IInv` of `LfBucket` on its instance.

### LfBucketProofs

The proofs rest on `BucketAssumption` and `NoWrap` (fewer puts than versions). `NoDuplicateKeys` is not
inductive, since nothing in it says why a second put fails to commit. `IInv` adds

* `ControlInv`: which steps belong to which call;
* `HoldInv`: a slot between its claim and its commit is marked, belongs to one put
  and carries that put's key and value once written;
* `VersionInv`: version plus pending puts is at most the number of puts called, so the
  version never wraps and equal versions mean that nothing was committed in between;
* `SnapshotInv`: a snapshot is of an earlier version or of the current one, and within
  one version slots only cease to be valid;
* `SearchInv`: as long as a put's snapshot is current (`Fresh`), the slots its search
  has passed do not hold its key. The commit succeeds only with a current snapshot.

The refinement, `Implements`:

The map changes in two steps only: `StoreStep` shows that a commit inserts a key that
was absent and that the compare-and-swap of a remove takes out the key of its call with
the value that it returns. Every other answer has to be in `seen[t]`, the values that
the key had during the call. `RInv` is `IInv` and what this takes:

* `ValuesInv`: no slot and no reader has the value of a put before the put writes it, so
  that a value read twice alike was not replaced in between. This is where
  `DistinctVals` is needed, and why the comparison of values in
  `src/clht_lf.c:195` does not replace a check of the version;
* `Ahead`: a search has seen its key absent, or the key is in a slot still to come: a key
  that leaves the slots ahead is removed, and absent at that moment (`LostSeen`); one
  that appears behind was absent before (`GainedSeen`);
* `ValReadOk`, `MapReadOk`: what the reads of value, map and key of a slot establish one
  after the other, while the slot may be freed, claimed and filled again
  (`MapReadStep`, the longest case);
* `RemoveAhead`, `RemoveOk`: the same for a remove, whose snapshot may be old: what it
  read of a slot counts only if the compare-and-swap finds the version unchanged;
* the put that gives its slot back (`Release`) has met its key.

`OtherStep` keeps what a call knows under the steps of other threads, `OwnStep` under
its own and shows that its answer is explained (`Answers`). `MapStep` maps each step to a
step of `ClhtMap` or a stutter.

### LfResProofs

From `ResAssumption`. The theorems about tables are consequences of the order of the
list: tables up to `ht` are linked in both directions with growing versions, those
before `oldest` are freed, and the exceptions are tied to the step of one thread. `IInv`
adds

* `OwnerInv`: who is at a step of `ht_status`, a resize or a collection has
  `status_lock`, so there is one such thread at most;
* `VersionInv`: versions grow by two per table, so they do not reach `VersionMax`, given
  that the uninitialised first one leaves room (`FirstVersions`);
* `ResizeInv`: what a resize or a collection knows at each step, such as that the new
  table is the last one, and that the tables before the one to be freed next are freed;
* `HeapInv`: `vmin` does not pass the version of the oldest table. Without it the
  destruction, which frees along table_new from `ht_oldest`, could stop early.

The walks along `table_new` and `table_prev` (`Reached`) are sets closed under the link;
`SetInduction` of `NatFacts` shows what they contain.

### LbResProofs

From `LbAssumption`. `ResizedOnce` is not inductive: `ht_resize_pes` is called with a
table read before `resize_lock` is taken, and nothing it tests says that this table is
still current. `OneChosen` and `ListInv` do: a table triggers a resize at the moment
`num_expands` reaches its threshold, which is once, so at most one thread is on its way
to resize, and it is with the current table. `num_expands` only grows, and every
replaced table has reached its threshold (`Triggered`). `LockDiscipline` goes with the
labels of the critical section; `ThreadInv` has what the copy knows of table and bucket.

### LbNoNextProofs

From `TablesAssumption`. `OneSuccessor` is not inductive: between the read of `ht_old`, the
try for `resize_lock` and the store of `table_new` nothing that is tested says that
`h->ht` is still the same. `OneOwner` does: from `ht_status` to its end one thread at most
has `status_lock`, so `resize_lock` is never contended, and `OldTable` says what that
thread has read at each step. `ListInv`: there is one table more than `ht` exactly while
somebody copies. Updates, the copy and the helper, who may still be at work when the
table has been replaced, leave the links of tables alone (`Keeps`); for `bucket_cpy` this
goes by induction over the entries of the bucket (`CopiedExists`, `BucketCpyKeeps`).

### BmarksProofs

*Barriers*, from `DriverAssumption`, for any number of threads, as long as `spurious` is 0.
`WaitInv`: the counter `crossing` of a barrier is the number of threads that wait in it. So the
last to arrive finds all others there (`AllArrived`), and the barrier opens for all at once: the
rounds that a thread has left, plus one if it has been woken and not left yet, are the
same for all threads (`RoundInv`), which gives the distance of one; and `barrier_global` has
opened for all threads or for none (`PastInv`), which separates filling from measuring.
`CreateInv`: main starts each thread once.

*Counts* of `test.c`. `DrInv` says what each thread has contributed: its share of the fill
as far as it has come, plus its puts, less its removes. These add up to the size of the
table plus `missed`. `MapThenSumSet` is a recursive function of the library; that it exists is
shown by induction over subsets (`Total`), and then what the sum is when one term changes
(`TotalChanged`), and that the shares of the fill, remainder included, add up to `Initial`
(`TotalShares`).

*Objects*, from `BenchAssumption`. `StInv` of `snap_stress.c`: an object in use is in one of the
places that `ObjectsOnce` lists, and in one only; slots between claim and commit belong to
one put, but for the first one and those that were marked from the start; a remove whose
snapshot is current has read the value that the slot still has; what a get has read of its
slot is an object whose readers include the get, unless it is in `refilled`. `CaInv` is the same
for `math_cache.c` and `test_mem.c`, where the table is a map. `CaCounted` and `StInv` count entries
against successful calls.

### FixedProofs

From the assumptions of `BucketCalls` and `MCFixed`. Each table has a section and an invariant
of its own, since only the module `MCFixed` joins them.

* `clht_lb_packed.c`: the counted entries are the first ones of the chain (`PkFilled`), and
  no key is counted twice, except that while a remove moves the last entry into the gap, its
  key is at both places, or its value already is (`PkKeysOk`, with what the holder of the
  lock has written so far). A search goes downwards. If it has met no move, its key is
  absent, was seen absent, or is in an entry still ahead of it; what it reads of value, key
  and value again is an entry that was there during the call. `PkSteps` maps each step of
  the lock holder to a step of the map or a stutter.
* `RtmLock`: a transaction in its section has the lock in its read set, and the lock is
  free, since taking it undoes the transaction; the content is what the section has read,
  in a transaction for the same reason, and with the lock because no other section may
  write; the mark of the resizer stays.
* `clht_lf_only_map_rem.c`, first its types and marks (`RemInv`): a mark belongs to one
  remove, and a slot under insertion belongs to one put, which alone writes to it.
  `MarksHeld` follows.
* Then that it implements the map (`RemLinear`). The put is that of `clht_lf.c`, so `RemPuts`
  has the parts of `IInv` of `LfBucket` about it: what it has filled (`RemFilling`), the bound on
  the version (`RemVersions`), its snapshot (`RemSnapshots`), and that as long as the snapshot is
  current its search has missed nothing (`RemSearches`); so no key is in two slots
  (`RemUnique`). But removes do not change the version here, so a snapshot of the current
  version is up to date (`RemFresh`) only as long as every slot that it shows visible still is; a
  commit, which compares the whole word, succeeds with such a snapshot only. A marked slot
  stays visible, since its remove may undo the mark. `RemNewValues`: no slot and no reader has
  the value of a put before the put writes it. With that `RemCallOk` says of each call what its
  reads have established: its key is ahead of it or was seen absent (`RemAhead`), the slot it
  reads is still what it was, or the key was absent in between (`RemValOk`, `RemReadOk`); and a
  remove that keeps its mark has the key of its call in the slot, one that undoes it has
  seen the key absent (`RemMarkOk`). A remove that met another's mark (`met`) is what
  `MapRemImplementsMap` leaves out.

### FixedLockProofs

* `clht_lb_lock_ins.c`: only the holder of the lock fills entries, but removes free them without
  it. The invariant says who has blocked each entry, that the key of a put is in no entry
  that its scan has passed, and what a search has read. `InsSteps` has the effect of
  every action on the map; a blocked entry has left the map already.
* `clht_lb.c`: no key is in two entries, apart from an entry that is linked and not complete
  (the exception of `LbImplementsMap`).
* `TypesHold` puts the invariants of the five together.
* `SizesMatch`: `clht_size` counts entries, the map has keys, and the proof is that entries and
  keys match one to one when nobody updates (`CountedByKey`): no key twice, from the
  invariants above; no entry blocked (`InsBlocksHeld`: each block is that of a remove under way, which
  the refinement did not need), none linked and incomplete, and in the packed table none counted
  behind the end.

### Only model-checked

* Liveness under fairness and deadlock: `LoneCallReturns`, `LoneGetReturns`,
  `CallsReturnIfIdleSilent`, `CallsReturn`, `TestEnds`. These are out of the reach of the
  prover.
* The refinements of `ClhtMap` by `LfRes`, `LbRes`, `LbNoNext` and `LbLinked`.
* The invariants of `LbLinked`.

## 5. Plan

1. For `LfRes` the refinement with two updaters up to the first lost update, as in
   `LbRes`.
2. Theorems about `LbLinked`: its locks (`LocksReleased`) first.

## 6. Not modelled

Key ranges and hashing beyond the bucket number; performance counters, printing,
`clht_size` during updates (it reads without synchronisation and promises nothing then);
allocation failure; the code for CLHT_DO_CHECK_STATUS, which no header enables, and for
CLHT_HELP_RESIZE other than that of `clht_lb_res_no_next.c` (`clht_lb_lock_ins.h` enables it,
but nothing there resizes); the shrinking branch of the resizers other
than that of `clht_lb_linked.c`, whose call is commented out or missing; memory models
weaker than x86; the inside of locklib, which is not in the repository (an atomic mutex
stands for it), and of ssmem beyond its header. The release of old tables to ssmem is a
flag, not connected to `Ssmem`: whether a reader can meet a table that is used again is up
to calls of the allocator that the tables do not make themselves. Of the benchmarks,
`test_ro.c`, `mytest.c`, `noise.c`, the parsing of options, the timing and the placement of
threads are left out, as are `scripts/` and the build files.
