----------------------------- MODULE ObjectCache -----------------------------
(***************************************************************************)
(* Two benchmarks whose values are objects of ssmem, which the threads     *)
(* hand to the table by a put and take back by a remove: the cache of      *)
(* results (bmarks/math_cache.c) and the memory test (bmarks/test_mem.c).  *)
(* The table is the map it implements, each call one step; program tells   *)
(* the two apart and never changes.                                        *)
(***************************************************************************)
EXTENDS Ssmem, FiniteSets, FiniteSetsExt

CONSTANTS CacheKeys,
          Fills,       \* num_elems_thread of test_mem, for every thread
          CacheAllocs  \* bound: how many objects are allocated

VARIABLES program, pc,
          store,       \* the table: an object for each key, or Null
          k,           \* k[t]: key
          obj,         \* obj[t]: the object to put
          res,         \* res[t]: the object got or removed
          filled,      \* filled[t]: the entries of the fill
          puts, rems,  \* the counts of successful calls, of all threads
          stop, allocs

counters == <<filled, puts, rems, stop, allocs>>
cvars == <<program, pc, store, k, obj, res, counters, memory>>

CInit ==
  /\ program \in {"math_cache", "test_mem"}
  /\ pc = [t \in Threads |-> IF program = "test_mem" THEN "fill" ELSE "loop"]
  /\ store = [c \in CacheKeys |-> Null]
  /\ k = [t \in Threads |-> Null] /\ obj = [t \in Threads |-> Null]
  /\ res = [t \in Threads |-> Null] /\ filled = [t \in Threads |-> 0]
  /\ puts = 0 /\ rems = 0 /\ stop = FALSE /\ allocs = 0
  /\ MemoryInit

CTypeOK ==
  /\ store \in [CacheKeys -> Objects \cup {Null}]
  /\ k \in [Threads -> CacheKeys \cup {Null}]
  /\ {obj, res} \subseteq [Threads -> Objects \cup {Null}]
  /\ filled \in [Threads -> 0 .. Fills]
  /\ used \subseteq Objects /\ readers \in [Objects -> SUBSET Threads]
  /\ content \in [Objects -> CacheKeys \cup {Null}]

At(t, label) == pc[t] = label
Goto(t, label) == pc' = [pc EXCEPT ![t] = label]
Present == {c \in CacheKeys : store[c] # Null}

-----------------------------------------------------------------------------
(* What the loops have in common.                                          *)

(* A new object, with the key c in it.                                     *)
New(t, c, label) ==
  /\ allocs < CacheAllocs /\ allocs' = allocs + 1
  /\ \E o \in Objects : Alloc(t, o, c) /\ obj' = [obj EXCEPT ![t] = o]
  /\ Goto(t, label)
  /\ UNCHANGED <<store, res, filled, puts, rems, stop>>

(* clht_put(k, obj): the table has the object, or the caller still has.    *)
PutCall(t) ==
  IF k[t] \in Present
  THEN UNCHANGED <<store, obj>>
  ELSE /\ store' = [store EXCEPT ![k[t]] = obj[t]]
       /\ obj' = [obj EXCEPT ![t] = Null]

(* clht_remove(c): res is the object that was there.                       *)
RemoveCall(t, c) ==
  /\ res' = [res EXCEPT ![t] = store[c]]
  /\ store' = [store EXCEPT ![c] = Null]

-----------------------------------------------------------------------------
(* math_cache.c.                                                           *)

CacheGet(t) ==
  /\ At(t, "loop") /\ ~stop
  /\ \E c \in CacheKeys :
       /\ k' = [k EXCEPT ![t] = c]
       /\ res' = [res EXCEPT ![t] = store[c]]
       /\ Goto(t, IF c \in Present THEN "check" ELSE "alloc")
  /\ UNCHANGED <<store, obj, counters, memory>>

(* The object is compared with the computation.                            *)
CacheCheck(t) ==
  /\ At(t, "check")
  /\ Goto(t, "remove") /\ res' = [res EXCEPT ![t] = Null]
  /\ UNCHANGED <<store, k, obj, counters, memory>>

CacheMiss(t) == At(t, "alloc") /\ New(t, k[t], "put") /\ UNCHANGED k

CachePut(t) ==
  /\ At(t, "put")
  /\ PutCall(t)
  /\ IF k[t] \in Present THEN Goto(t, "put_free") /\ UNCHANGED puts
                         ELSE Goto(t, "remove") /\ puts' = puts + 1
  /\ UNCHANGED <<k, res, filled, rems, stop, allocs, memory>>

CachePutFailed(t) ==
  /\ At(t, "put_free")
  /\ Free(t, obj[t]) /\ obj' = [obj EXCEPT ![t] = Null]
  /\ Goto(t, "remove")
  /\ UNCHANGED <<store, k, res, counters>>

(* A remove of another key.                                                *)
CacheRemove(t) ==
  /\ At(t, "remove")
  /\ \E c \in CacheKeys :
       /\ k' = [k EXCEPT ![t] = c] /\ RemoveCall(t, c)
       /\ Goto(t, IF c \in Present THEN "rem_check" ELSE "loop")
  /\ UNCHANGED <<obj, counters, memory>>

CacheRemoveCheck(t) ==
  /\ At(t, "rem_check") /\ Goto(t, "rem_free")
  /\ UNCHANGED <<store, k, obj, res, counters, memory>>

-----------------------------------------------------------------------------
(* test_mem.c.  Its gets do not look at what they get.                     *)

Fill(t) ==
  /\ At(t, "fill") /\ filled[t] < Fills
  /\ \E c \in CacheKeys : k' = [k EXCEPT ![t] = c] /\ New(t, c, "fill_put")

FillPut(t) ==
  /\ At(t, "fill_put")
  /\ PutCall(t)
  /\ IF k[t] \in Present
     THEN Goto(t, "fill_free") /\ UNCHANGED filled
     ELSE Goto(t, "fill") /\ filled' = [filled EXCEPT ![t] = @ + 1]
  /\ UNCHANGED <<k, res, puts, rems, stop, allocs, memory>>

FillFailed(t) ==
  /\ At(t, "fill_free")
  /\ Free(t, obj[t]) /\ obj' = [obj EXCEPT ![t] = Null]
  /\ Goto(t, "fill")
  /\ UNCHANGED <<store, k, res, counters>>

(* The barriers between the fill and the measurement.                      *)
Filled(t) ==
  /\ \/ At(t, "fill") /\ filled[t] = Fills /\ Goto(t, "barrier")
     \/ At(t, "barrier") /\ (\A u \in Threads : filled[u] = Fills)
          /\ Goto(t, "loop")
  /\ UNCHANGED <<store, k, obj, res, counters, memory>>

(* The object of a put that fails is kept for the next.                    *)
MemPut(t) ==
  /\ At(t, "loop") /\ ~stop
  /\ \E c \in CacheKeys : k' = [k EXCEPT ![t] = c]
  /\ IF obj[t] = Null
     THEN New(t, Null, "put")
     ELSE Goto(t, "put") /\ UNCHANGED <<store, obj, res, counters, memory>>

MemPutCall(t) ==
  /\ At(t, "put")
  /\ PutCall(t)
  /\ puts' = IF k[t] \in Present THEN puts ELSE puts + 1
  /\ Goto(t, "loop")
  /\ UNCHANGED <<k, res, filled, rems, stop, allocs, memory>>

MemRemove(t) ==
  /\ At(t, "loop") /\ ~stop
  /\ \E c \in Present : k' = [k EXCEPT ![t] = c] /\ RemoveCall(t, c)
  /\ Goto(t, "rem_free")
  /\ UNCHANGED <<obj, counters, memory>>

-----------------------------------------------------------------------------
(* The end of both.                                                        *)

RemoveFree(t) ==
  /\ At(t, "rem_free")
  /\ Free(t, res[t]) /\ res' = [res EXCEPT ![t] = Null]
  /\ rems' = rems + 1
  /\ Goto(t, "loop")
  /\ UNCHANGED <<store, k, obj, filled, puts, stop, allocs>>

Exit(t) ==
  /\ At(t, "loop") /\ stop
  /\ Goto(t, "done")
  /\ UNCHANGED <<store, k, obj, res, counters, memory>>

Stop ==
  /\ ~stop /\ stop' = TRUE
  /\ UNCHANGED <<pc, store, k, obj, res, filled, puts, rems, allocs, memory>>

MathCache(t) ==
  \/ CacheGet(t) \/ CacheCheck(t) \/ CacheMiss(t) \/ CachePut(t)
  \/ CachePutFailed(t) \/ CacheRemove(t) \/ CacheRemoveCheck(t)
TestMem(t) ==
  \/ Fill(t) \/ FillPut(t) \/ FillFailed(t) \/ Filled(t)
  \/ MemPut(t) \/ MemPutCall(t) \/ MemRemove(t)

CNext ==
  /\ UNCHANGED program
  /\ \/ Stop
     \/ \E t \in Threads :
          \/ program = "math_cache" /\ MathCache(t)
          \/ program = "test_mem" /\ TestMem(t)
          \/ RemoveFree(t) \/ Exit(t)

CSpec == CInit /\ [][CNext]_cvars
-----------------------------------------------------------------------------
(* What a thread got or removed holds its key when it looks, although      *)
(* others may remove, free and reuse objects meanwhile ("WRONG").          *)
LooksRight ==
  \A t \in Threads : pc[t] \in {"check", "rem_check"} => content[res[t]] = k[t]

(* Every object in use is in exactly one place: with the thread that puts  *)
(* it, in the table, or with the thread that removed it.                   *)
CachePlaces(o) ==
  Cardinality({t \in Threads : obj[t] = o})
    + Cardinality({c \in Present : store[c] = o})
    + Cardinality({t \in Threads : /\ pc[t] \in {"rem_check", "rem_free"}
                                   /\ res[t] = o})
CacheObjectsOnce ==
  \A o \in Objects : CachePlaces(o) = (IF o \in used THEN 1 ELSE 0)

(* The table holds as many objects as the counts say, apart from removes   *)
(* that have not counted theirs yet.                                       *)
CacheCounted ==
  Cardinality(Present)
    + Cardinality({t \in Threads : pc[t] \in {"rem_check", "rem_free"}})
  = MapThenSumSet(LAMBDA t : filled[t], Threads) + puts - rems
=============================================================================
