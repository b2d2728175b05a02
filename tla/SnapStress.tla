----------------------------- MODULE SnapStress -----------------------------
(***************************************************************************)
(* The stress test of snapshots (bmarks/snap_stress.c).  Threads search,   *)
(* put and remove in one bucket with code of their own, close to that of   *)
(* src/clht_lf_res.c, whose values are objects that hold their key; main   *)
(* stops them and compares the valid slots with their counts.  One action  *)
(* is one access to shared memory.                                         *)
(***************************************************************************)
EXTENDS Ssmem, FiniteSets, FiniteSetsExt

CONSTANTS StressKeys,  \* (rand & 1) + 2
          Entries,     \* KEY_BUCKT
          MaxAllocs,   \* bound: how many puts the threads begin
          DirtySlots   \* bound: slots whose byte may not be 0 at first

VARIABLES pc,       \* pc[t]: the next access of t
          role,     \* role[t]: whether t searches for "get" or for "put"
          k,        \* k[t]
          idx,      \* idx[t]: the loop index i
          cur,      \* cur[t]: v
          snap,     \* snap[t]: s, or s1
          slot,     \* slot[t]: empty_index, as 0 when negative
          obj,      \* obj[t]: the object of the next put, or Null
          word, key, val,  \* snap, key and val of all threads
          puts, rems,      \* my_putting_count_succ, my_removing_count_succ
          stop,
          allocs,   \* how many puts have begun
          first,    \* history: the map when the program started
          refilled  \* history: threads that have seen a slot valid before it
                    \* was filled again, with the very value they had read

locals == <<role, k, idx, cur, snap, slot>>
arrays == <<key, val>>
counters == <<puts, rems, stop, allocs, first>>
svars == <<pc, locals, obj, word, arrays, counters, refilled, memory>>

INVLD == "invalid"
VALID == "valid"
INSRT == "insert"   \* also any other byte that is neither of these
Slots == 1 .. Entries
Blank == [version |-> 0, map |-> [i \in Slots |-> INVLD]]

(* The bucket is memalign memory that nobody clears; the arrays are static.*)
SInit ==
  /\ pc = [t \in Threads |-> "loop"] /\ role = [t \in Threads |-> "get"]
  /\ k = [t \in Threads |-> Null] /\ idx = [t \in Threads |-> 1]
  /\ cur = [t \in Threads |-> Null] /\ snap = [t \in Threads |-> Blank]
  /\ slot = [t \in Threads |-> 0] /\ obj = [t \in Threads |-> Null]
  /\ first \in [Slots -> {INVLD, VALID, INSRT}]
  /\ {i \in Slots : first[i] # INVLD} \subseteq DirtySlots
  /\ word = [version |-> 0, map |-> first]
  /\ key = [i \in Slots |-> Null] /\ val = [i \in Slots |-> Null]
  /\ puts = 0 /\ rems = 0 /\ stop = FALSE /\ allocs = 0
  /\ refilled = {}
  /\ MemoryInit

STypeOK ==
  /\ role \in [Threads -> {"get", "put"}]
  /\ k \in [Threads -> StressKeys \cup {Null}]
  /\ idx \in [Threads -> Slots]
  /\ slot \in [Threads -> Slots \cup {0}]
  /\ obj \in [Threads -> Objects \cup {Null}]
  /\ word.map \in [Slots -> {INVLD, VALID, INSRT}]
  /\ key \in [Slots -> StressKeys \cup {Null}]
  /\ val \in [Slots -> Objects \cup {Null}]
  /\ used \subseteq Objects /\ readers \in [Objects -> SUBSET Threads]
  /\ {puts, rems} \subseteq 0 .. MaxAllocs

At(t, label) == pc[t] = label
Goto(t, label) == pc' = [pc EXCEPT ![t] = label]
Valid == {i \in Slots : word.map[i] = VALID}
SetMap(s, i, m) == [s EXCEPT !.map[i] = m]
SetMapAndIncVersion(s, i, m) ==
  [version |-> s.version + 1, map |-> [s.map EXCEPT ![i] = m]]
EmptySlots(s) == {i \in Slots : s.map[i] = INVLD}

Continue(t, label) == Goto(t, label) /\ UNCHANGED locals

(* The end of an iteration; the locals are dead.                           *)
End(t) ==
  /\ Goto(t, "loop")
  /\ role' = [role EXCEPT ![t] = "get"] /\ k' = [k EXCEPT ![t] = Null]
  /\ idx' = [idx EXCEPT ![t] = 1] /\ cur' = [cur EXCEPT ![t] = Null]
  /\ snap' = [snap EXCEPT ![t] = Blank] /\ slot' = [slot EXCEPT ![t] = 0]

(* A search of the role r begins.                                          *)
Search(t, r) ==
  /\ Goto(t, "val")
  /\ role' = [role EXCEPT ![t] = r] /\ idx' = [idx EXCEPT ![t] = 1]
  /\ cur' = [cur EXCEPT ![t] = Null]
-----------------------------------------------------------------------------
Begin(t) ==
  /\ At(t, "loop") /\ ~stop
  /\ \E c \in StressKeys : k' = [k EXCEPT ![t] = c]
  /\ Search(t, "get")
  /\ UNCHANGED <<snap, slot, obj, word, arrays, counters, memory>>

Exit(t) ==
  /\ At(t, "loop") /\ stop
  /\ Goto(t, "done")
  /\ UNCHANGED <<locals, obj, word, arrays, counters, memory>>

-----------------------------------------------------------------------------
(* The searches.  One that meets a value that changes goes on.             *)

(* The search is over; its index and value are dead.                       *)
Over(t, label) ==
  /\ Goto(t, label)
  /\ idx' = [idx EXCEPT ![t] = 1] /\ cur' = [cur EXCEPT ![t] = Null]
  /\ UNCHANGED <<role, k, snap>>

(* The slot to commit to: the one that the put holds, or a new one.        *)
Missed(t) ==
  IF role[t] = "get" THEN Over(t, "choose") /\ UNCHANGED slot
  ELSE IF slot[t] > 0 THEN Over(t, "commit") /\ UNCHANGED slot
  ELSE IF EmptySlots(snap[t]) = {} THEN End(t)
  ELSE /\ slot' = [slot EXCEPT ![t] = Min(EmptySlots(snap[t]))]
       /\ Over(t, "claim")

(* A put gives its slot back, unless it is the first (empty_index > 0).    *)
(* Mutant of Found: a put that finds its key keeps its slot.               *)
FoundKeeps(t) ==
  IF role[t] = "get" THEN Continue(t, "read") ELSE End(t)
Found(t) ==
  IF role[t] = "get" THEN Continue(t, "read")
  ELSE IF slot[t] > 1 THEN Over(t, "release") /\ UNCHANGED slot
  ELSE End(t)

SearchNext(t) ==
  IF idx[t] = Entries
  THEN Missed(t)
  ELSE /\ idx' = [idx EXCEPT ![t] = @ + 1]
       /\ Goto(t, "val")
       /\ UNCHANGED <<role, k, cur, snap, slot>>

SearchVal(t) ==
  /\ At(t, "val")
  /\ cur' = [cur EXCEPT ![t] = val[idx[t]]]
  /\ Goto(t, "map")
  /\ UNCHANGED <<role, k, idx, snap, slot>>

SearchMap(t) ==
  /\ At(t, "map")
  /\ IF word.map[idx[t]] = VALID THEN Continue(t, "key") ELSE SearchNext(t)

SearchKey(t) ==
  /\ At(t, "key")
  /\ IF key[idx[t]] = k[t] THEN Continue(t, "again") ELSE SearchNext(t)

(* Mutant of SearchAgain: the value is not read again.                     *)
SearchAgainUnchecked(t) == At(t, "again") /\ Found(t)
SearchAgain(t) ==
  /\ At(t, "again")
  /\ IF val[idx[t]] = cur[t] THEN Found(t) ELSE SearchNext(t)

(* GET_VAL(v), which is compared with k.                                   *)
Read(t) == At(t, "read") /\ Over(t, "choose") /\ UNCHANGED slot

Searching(t) ==
  /\ SearchVal(t) \/ SearchMap(t) \/ SearchKey(t) \/ SearchAgain(t) \/ Read(t)
  /\ refilled' = refilled \ {u \in {t} : At(u, "val")}
  /\ UNCHANGED <<obj, word, arrays, counters, memory>>

-----------------------------------------------------------------------------
(* The put.                                                                *)

Put(t) ==
  /\ At(t, "choose") /\ allocs < MaxAllocs
  /\ allocs' = allocs + 1
  /\ \E o \in Objects : /\ Exchange(t, obj[t], o, k[t])
                        /\ obj' = [obj EXCEPT ![t] = o]
  /\ Continue(t, "snapshot")
  /\ UNCHANGED <<word, arrays, puts, rems, stop, first>>

Snapshot(t) ==
  /\ At(t, "snapshot")
  /\ snap' = [snap EXCEPT ![t] = word]
  /\ Search(t, "put")
  /\ UNCHANGED <<k, slot, obj, word, arrays, counters, memory>>

Claim(t) ==
  /\ At(t, "claim")
  /\ IF word = snap[t]
     THEN /\ word' = SetMap(word, slot[t], INSRT)
          /\ Goto(t, "write_val")
          /\ UNCHANGED slot
     ELSE /\ Goto(t, "snapshot")
          /\ slot' = [slot EXCEPT ![t] = 0]
          /\ UNCHANGED word
  /\ snap' = [snap EXCEPT ![t] = word']
  /\ UNCHANGED <<role, k, idx, cur, obj, arrays, counters, memory>>

WriteVal(t) ==
  /\ At(t, "write_val")
  /\ val' = [val EXCEPT ![slot[t]] = obj[t]]
  /\ refilled' = refilled \cup
       {u \in Threads : /\ pc[u] \in {"key", "again"}
                        /\ idx[u] = slot[t] /\ cur[u] = obj[t]}
  /\ Continue(t, "write_key")
  /\ UNCHANGED <<obj, word, key, counters, memory>>

WriteKey(t) ==
  /\ At(t, "write_key")
  /\ key' = [key EXCEPT ![slot[t]] = k[t]]
  /\ Continue(t, "commit")
  /\ UNCHANGED <<obj, word, val, counters, memory>>

(* Mutant of Handed: the thread keeps what it has put.                     *)
HandedNot(t) == obj
Handed(t) == [obj EXCEPT ![t] = Null]
Commit(t) ==
  /\ At(t, "commit")
  /\ IF word = snap[t]
     THEN /\ word' = SetMapAndIncVersion(word, slot[t], VALID)
          /\ obj' = Handed(t)
          /\ puts' = puts + 1
          /\ End(t)
     ELSE Continue(t, "snapshot") /\ UNCHANGED <<word, obj, puts>>
  /\ UNCHANGED <<arrays, rems, stop, allocs, first, memory>>

Release(t) ==
  /\ At(t, "release")
  /\ word' = SetMap(word, slot[t], INVLD)
  /\ End(t)
  /\ UNCHANGED <<obj, arrays, counters, memory>>

-----------------------------------------------------------------------------
(* The remove.                                                             *)

RemSnapshot(t) ==
  /\ At(t, "choose") \/ At(t, "rem_snapshot")
  /\ snap' = [snap EXCEPT ![t] = word]
  /\ idx' = [idx EXCEPT ![t] = 1] /\ cur' = [cur EXCEPT ![t] = Null]
  /\ Goto(t, "rem_key")
  /\ UNCHANGED <<role, k, slot, obj, word, arrays, counters, memory>>

RemKey(t) ==
  /\ At(t, "rem_key")
  /\ IF key[idx[t]] = k[t] /\ snap[t].map[idx[t]] = VALID
     THEN Continue(t, "rem_val")
     ELSE IF idx[t] = Entries THEN End(t)
     ELSE /\ idx' = [idx EXCEPT ![t] = @ + 1]
          /\ UNCHANGED <<pc, role, k, cur, snap, slot>>
  /\ UNCHANGED <<obj, word, arrays, counters, memory>>

RemVal(t) ==
  /\ At(t, "rem_val")
  /\ cur' = [cur EXCEPT ![t] = val[idx[t]]]
  /\ Goto(t, "rem_cas")
  /\ UNCHANGED <<role, k, idx, snap, slot, obj, word, arrays, counters, memory>>

(* Mutant of RemCas: a store of the byte in place of the compare-and-swap. *)
RemCasStores(t) ==
  /\ At(t, "rem_cas")
  /\ word' = SetMap(word, idx[t], INVLD) /\ Continue(t, "rem_free")
  /\ UNCHANGED <<obj, arrays, counters, memory>>
RemCas(t) ==
  /\ At(t, "rem_cas")
  /\ IF word = snap[t]
     THEN word' = SetMap(word, idx[t], INVLD) /\ Continue(t, "rem_free")
     ELSE Continue(t, "rem_snapshot") /\ UNCHANGED word
  /\ UNCHANGED <<obj, arrays, counters, memory>>

RemFree(t) ==
  /\ At(t, "rem_free")
  /\ Free(t, cur[t])
  /\ rems' = rems + 1
  /\ End(t)
  /\ UNCHANGED <<obj, word, arrays, puts, stop, allocs, first>>

Stop ==
  /\ ~stop /\ stop' = TRUE
  /\ UNCHANGED <<pc, locals, obj, word, arrays, puts, rems, allocs, first,
                 memory>>

Loop(t) ==
  \/ Searching(t) \/ WriteVal(t)
  \/ /\ UNCHANGED refilled
     /\ \/ Begin(t) \/ Exit(t)
        \/ Put(t) \/ Snapshot(t) \/ Claim(t) \/ WriteKey(t)
        \/ Commit(t) \/ Release(t)
        \/ RemSnapshot(t) \/ RemKey(t) \/ RemVal(t) \/ RemCas(t) \/ RemFree(t)

SNext == (Stop /\ UNCHANGED refilled) \/ \E t \in Threads : Loop(t)
SSpec == SInit /\ [][SNext]_svars
-----------------------------------------------------------------------------
(* A get that reads an object finds the key it looks for there ("key !=    *)
(* val"), although the object may have been removed and freed since, unless*)
(* the object was handed out again and put into the same slot, so that it  *)
(* passes for the one that was there before.                               *)
GetsReadTheirKey ==
  \A t \in Threads \ refilled :
    At(t, "read") => cur[t] # Null /\ content[cur[t]] = k[t]

(* Every object in use is in exactly one place: the next put of a thread,  *)
(* a valid slot, or the hands of the remove that has emptied the slot.     *)
Places(o) ==
  Cardinality({t \in Threads : obj[t] = o})
    + Cardinality({i \in Valid : val[i] = o})
    + Cardinality({t \in Threads : At(t, "rem_free") /\ cur[t] = o})
ObjectsOnce == \A o \in Objects : Places(o) = (IF o \in used THEN 1 ELSE 0)

(* A slot marked for insertion belongs to one put, or was marked from the  *)
(* start.  The first slot may also have been left by a put that found its  *)
(* key: it is lost for good.                                               *)
Holders(i) == {t \in Threads :
  slot[t] = i /\ pc[t] \notin {"claim", "loop", "done"}}
StressSlotsHeld ==
  \A i \in Slots :
    /\ word.map[i] = INSRT /\ i > 1 /\ first[i] # INSRT =>
         Cardinality(Holders(i)) = 1
    /\ Holders(i) # {} => word.map[i] = INSRT /\ Cardinality(Holders(i)) = 1

(* When all have stopped, the valid slots are those that the counts say,   *)
(* and those that were marked valid from the start ("SIZE missmatch").     *)
ValidCounted ==
  (\A t \in Threads : At(t, "done")) =>
    Cardinality(Valid) =
      puts - rems + Cardinality({i \in Slots : first[i] = VALID})
=============================================================================
