------------------------------ MODULE LbLinked ------------------------------
(***************************************************************************)
(* The lock-based table that puts what does not fit in a bucket into one   *)
(* of the next (src/clht_lb_linked.c).  The hops of a bucket tell how far  *)
(* its keys have spread; an update locks the bucket and its hops, one      *)
(* after another.                                                          *)
(***************************************************************************)
EXTENDS LockedTables

CONSTANTS SoftHops,   \* CLHT_LINKED_MAX_EXPANSIONS
          Emergency,  \* CLHT_LINKED_EMERGENCY_RESIZE
          PercHalve,  \* CLHT_PERC_FULL_HALVE
          PercDouble, \* CLHT_LINKED_PERC_FULL_DOUBLE
          MaxAvg      \* CLHT_LINKED_MAX_AVG_EXPANSION

ASSUME LinkedAssumption ==
  /\ Extra \in Nat \ {0} /\ Buckets >= 2  \* clht_create makes 1 bucket two
  /\ {SoftHops, Emergency, PercHalve, PercDouble, MaxAvg} \subseteq Nat
  /\ Emergency > 0

VARIABLES full,   \* full[t]: the table that a put of t found too full
          depth,  \* depth[t]: how many calls of ht_status t is in
          stale   \* history: an outdated hops or ht_old has been used

vars == <<calls, full, depth, stale>>
Labels == {"idle", "get_val", "get_key", "get_again", "exists", "again",
           "tot_hops", "lock", "table_wait", "write_val", "write_key", "check",
           "status", "ht_old", "resize_lock", "copy", "table_new",
           "status_unlock"}

Init ==
  /\ TablesInit
  /\ full = [t \in Threads |-> Null]
  /\ depth = [t \in Threads |-> 0]
  /\ stale = FALSE
TypeOK ==
  /\ TablesTypeOK(Labels)
  /\ full \in [Threads -> Null .. Len(tables)]
  /\ depth \in [Threads -> 0 .. MaxTables]
  /\ stale \in BOOLEAN

outside == <<full, depth>>

-----------------------------------------------------------------------------
(* The updates.                                                            *)

ExistsUpdate(t) ==
  /\ Exists(t, IF call[t].op = "put" THEN "tot_hops" ELSE "lock")
  /\ UNCHANGED <<outside, stale>>

(* A put reads the hops of its bucket before it has the lock.              *)
ReadHops(t) ==
  /\ At(t, "tot_hops")
  /\ SetHops(t, tables[tab[t]].hops[MyBin(t)])
  /\ Goto(t, "lock")
  /\ UNCHANGED <<heap, answers, tab, idx, cur, wanted, outside, stale>>

(* The bucket to lock next, and those that t holds then.                   *)
Next1(t) == MyBin(t) + idx[t]
Held(t) == MyBin(t) .. Next1(t)
CanLock(t, l) == At(t, "lock") /\ tables[tab[t]].locks[Next1(t)] = l

(* Mutant of Released: one lock is left behind.                            *)
ReleasedFewer(t, T) ==
  SetLocks(T, MyBin(t) .. Next1(t) - 2, "free")
(* lock_release_n: the locks that t has before it gets the next.           *)
Released(t, T) == SetLocks(T, MyBin(t) .. Next1(t) - 1, "free")

(* The next bucket is taken for a resize: all locks are given back.  A put *)
(* waits for the successor of the table, a remove starts over at once.     *)
LockTaken(t) ==
  /\ CanLock(t, "resize")
  /\ SetTable(tab[t], Released(t, tables[tab[t]]))
  /\ Goto(t, IF call[t].op = "put" THEN "table_wait" ELSE "again")
  /\ SetIdx(t, 0)
  /\ UNCHANGED <<ht, resize_lock, status_lock, answers, tab, search, wanted,
                 outside, stale>>

TableWait(t) ==
  /\ At(t, "table_wait") /\ tables[tab[t]].new # Null
  /\ Enter(t, call[t].key, "exists")
  /\ UNCHANGED <<heap, answers, cur, wanted, outside, stale>>

Restart(t) == Again(t) /\ UNCHANGED <<outside, stale>>

(* The put has locked one more bucket.  It looks for its key as far as the *)
(* hops that it has read, and then for the first free entry, if need be in *)
(* further buckets up to the last that the hops may reach.                 *)
PutHop(t) ==
  LET T == tables[tab[t]]
      locked == SetLocks(T, {Next1(t)}, "update")
      found == idx[t] <= hops[t] /\ Having(tab[t], {Next1(t)}, call[t].key) # {}
      free == Having(tab[t], Held(t), NoKey)
      more == idx[t] < hops[t] \/ (free = {} /\ idx[t] < Extra)
  IN
  /\ CanLock(t, "free") /\ call[t].op = "put"
  /\ \/ /\ found
        /\ SetTable(tab[t], Released(t, T))
        /\ Return(t, 0)
        /\ UNCHANGED <<full, stale>>
     \/ /\ ~found /\ more
        /\ SetTable(tab[t], locked)
        /\ SetIdx(t, idx[t] + 1)
        /\ UNCHANGED <<answers, pc, tab, search, wanted, full, stale>>
     \/ /\ ~found /\ ~more /\ free = {}
        /\ SetTable(tab[t], Released(t, T))
        /\ full' = [full EXCEPT ![t] = tab[t]]
        /\ Goto(t, "status") /\ SetIdx(t, 0) /\ SetHops(t, 0)
        /\ UNCHANGED <<answers, tab, cur, wanted, stale>>
     \/ /\ ~found /\ ~more /\ free # {}
        /\ SetTable(tab[t], IF idx[t] <= hops[t] THEN locked
                            ELSE [locked EXCEPT !.hops[MyBin(t)] = idx[t]])
        /\ Goto(t, "write_val") /\ SetIdx(t, idx[t] + 1)
        /\ stale' = (stale \/ hops[t] # T.hops[MyBin(t)])
        /\ UNCHANGED <<answers, tab, search, wanted, full>>
  /\ UNCHANGED <<ht, resize_lock, status_lock, depth>>

(* The entry that the put has found, among the buckets it has locked.      *)
Free(t) == First(Having(tab[t], MyBin(t) .. Next1(t) - 1, NoKey))

WriteVal(t) ==
  /\ At(t, "write_val")
  /\ SetTable(tab[t], SetVal(tables[tab[t]], Free(t), call[t].val))
  /\ Goto(t, "write_key")
  /\ UNCHANGED <<ht, resize_lock, status_lock, answers, tab, search, idx, wanted,
                 outside, stale>>

WriteKey(t) ==
  /\ At(t, "write_key")
  /\ SetTable(tab[t], Released(t, SetKey(tables[tab[t]], Free(t), call[t].key)))
  /\ call' = [call EXCEPT ![t] = Idle]
  /\ ret' = [ret EXCEPT ![t] = 1]
  /\ Goto(t, "check") /\ SetIdx(t, MyBin(t)) /\ SetHops(t, 0)
  /\ UNCHANGED <<ht, resize_lock, status_lock, updates, tab, cur, wanted,
                 outside, stale>>

(* The put looks at the hops of its bucket again.                          *)
Check(t) ==
  /\ At(t, "check")
  /\ Goto(t, IF tables[tab[t]].hops[idx[t]] > SoftHops THEN "status" ELSE "idle")
  /\ SetTab(t, Null) /\ SetIdx(t, 0)
  /\ UNCHANGED <<heap, answers, search, wanted, outside, stale>>

(* A remove looks at the hops of its bucket once it has the lock.          *)
RemoveHop(t) ==
  LET T == tables[tab[t]]
      found == Having(tab[t], {Next1(t)}, call[t].key)
      more == idx[t] < T.hops[MyBin(t)]
  IN
  /\ CanLock(t, "free") /\ call[t].op = "remove"
  /\ \/ /\ found # {}
        /\ SetTable(tab[t], Released(t, SetKey(T, First(found), NoKey)))
        /\ Return(t, Cell(tab[t], First(found)).val)
     \/ /\ found = {} /\ more
        /\ SetTable(tab[t], SetLocks(T, {Next1(t)}, "update"))
        /\ SetIdx(t, idx[t] + 1)
        /\ UNCHANGED <<answers, pc, tab, search, wanted>>
     \/ /\ found = {} /\ ~more
        /\ SetTable(tab[t], Released(t, T))
        /\ Return(t, 0)
  /\ UNCHANGED <<ht, resize_lock, status_lock, outside, stale>>

-----------------------------------------------------------------------------
(* ht_status: called by a put whose bucket has many hops, by one that      *)
(* finds no free entry in reach (an emergency), and once more by           *)
(* ht_resize_pes for a new table with many hops (an increase).             *)

Permille(v) == (1000 * Size(v)) \div (tables[v].num * Entries)
Sparse(v) == Size(v) > 0 /\ Permille(v) < 10 * PercHalve
Dense(v, increase) ==
  \/ Permille(v) > 10 * PercDouble
  \/ \E b \in DOMAIN tables[v].hops : tables[v].hops[b] > SoftHops
  \/ MapThenSumSet(LAMBDA b : tables[v].hops[b], DOMAIN tables[v].hops)
       > MaxAvg * tables[v].num
  \/ increase
One(condition) == IF condition THEN 1 ELSE 0
IncBy(v, increase) ==
  Permille(v) \div 300 + One(increase) + One(tables[v].num = tables[v].before)

(* num_buckets_new, or 0 if the table shall stay as it is.                 *)
NewSize(v, emergency, increase) ==
  LET n == tables[v].num IN
  CASE emergency -> n * Pow2RoundUp(Emergency)
    [] ~emergency /\ Sparse(v) -> n \div 8
    [] ~emergency /\ ~Sparse(v) /\ Dense(v, increase)
         -> n * Pow2RoundUp(IncBy(v, increase))
    [] OTHER -> 0

(* Where the outermost ht_status returns to: in an emergency the put waits *)
(* for the successor of the table that was too full.                       *)
Leave(t) ==
  /\ Goto(t, IF full[t] # Null THEN "table_wait" ELSE "idle")
  /\ SetTab(t, full[t])
  /\ full' = [full EXCEPT ![t] = Null]

(* Mutant of Status: status_lock keeps nobody out.                         *)
StatusFree(t) ==
  /\ At(t, "status")
  /\ status_lock' = TRUE
  /\ depth' = [depth EXCEPT ![t] = @ + 1]
  /\ Goto(t, "ht_old")
  /\ UNCHANGED <<tables, ht, resize_lock, answers, search, idx, tab, wanted, full,
                 stale>>
(* An increase goes on without the lock, and sets and releases it.         *)
Status(t) ==
  /\ At(t, "status")
  /\ status_lock' = TRUE
  /\ \/ status_lock /\ depth[t] = 0 /\ Leave(t) /\ UNCHANGED depth
     \/ /\ ~status_lock \/ depth[t] > 0
        /\ depth' = [depth EXCEPT ![t] = @ + 1]
        /\ Goto(t, "ht_old")
        /\ UNCHANGED <<tab, full>>
  /\ UNCHANGED <<tables, ht, resize_lock, answers, search, idx, wanted, stale>>

(* Entries and hops are counted, in one step as only the factor depends on *)
(* them, and h->ht is read for ht_old.                                     *)
ReadOld(t) ==
  LET n == NewSize(ht, full[t] # Null /\ depth[t] = 1, depth[t] > 1) IN
  /\ At(t, "ht_old")
  /\ wanted' = [wanted EXCEPT ![t] = n]
  /\ SetTab(t, IF n = 0 THEN Null ELSE ht)
  /\ Goto(t, IF n = 0 THEN "status_unlock" ELSE "resize_lock")
  /\ UNCHANGED <<heap, answers, search, idx, outside, stale>>

TakeResizeLock(t) ==
  /\ ResizeLock(t, "status_unlock")
  /\ stale' = (stale \/ (~resize_lock /\ tab[t] # ht))
  /\ UNCHANGED outside

(* The old tables are never released.                                      *)
Resize(t) ==
  /\ \/ Copy(t)
     \/ Swap(t)
     \/ TableNew(t, FALSE, IF tables[New].expands >= tables[New].num
                           THEN "status" ELSE "status_unlock")
  /\ UNCHANGED <<outside, stale>>

UnlockStatus(t) ==
  /\ At(t, "status_unlock")
  /\ status_lock' = FALSE
  /\ depth' = [depth EXCEPT ![t] = @ - 1]
  /\ \/ depth[t] = 1 /\ Leave(t)
     \/ depth[t] > 1 /\ UNCHANGED <<pc, tab, full>>
  /\ UNCHANGED <<tables, ht, resize_lock, answers, search, idx, wanted, stale>>

-----------------------------------------------------------------------------
Call(t) == (Get(t) \/ Put(t) \/ Remove(t)) /\ UNCHANGED <<outside, stale>>
Searching(t) ==
  (GetVal(t) \/ GetKey(t) \/ GetAgain(t)) /\ UNCHANGED <<outside, stale>>

Next ==
  /\ \E t \in Threads :
       \/ Call(t) \/ Searching(t) \/ ExistsUpdate(t) \/ Restart(t)
       \/ ReadHops(t) \/ LockTaken(t) \/ TableWait(t)
       \/ PutHop(t) \/ WriteVal(t) \/ WriteKey(t) \/ Check(t) \/ RemoveHop(t)
       \/ Status(t) \/ ReadOld(t) \/ TakeResizeLock(t) \/ Resize(t)
       \/ UnlockStatus(t)
  /\ Observe

Spec == Init /\ [][Next]_vars
-----------------------------------------------------------------------------
Locking(t) ==
  IF pc[t] \in {"lock", "write_val", "write_key"}
  THEN {<<tab[t], b>> : b \in MyBin(t) .. Next1(t) - 1} ELSE {}

(* A lock of a bucket is held by one thread, which releases it.            *)
HopLocks ==
  /\ \A t, u \in Threads : t # u => Locking(t) \cap Locking(u) = {}
  /\ \A v \in 1 .. Len(tables) : \A b \in DOMAIN tables[v].locks :
       tables[v].locks[b] = "update" <=>
         \E t \in Threads : <<v, b>> \in Locking(t)

(* Each key has one entry, within the hops of its bucket, up to the first  *)
(* put that writes by outdated hops or resize of an outdated table.        *)
WithinHops ==
  stale \/ \A v \in 1 .. Len(tables), k \in Keys :
    LET all == Having(v, DOMAIN tables[v].cells, k) IN
      /\ \A p \in all : p[1] \in Reach(v, k)
      /\ Cardinality(all) <= 1

Map == INSTANCE ClhtMap WITH store <- Store

(* A step of the map that the table implements, as long as no put has      *)
(* written by hops, and no resize copied a table, that were outdated.      *)
ImplementsMapStep == stale' \/ [Map!Next]_(Map!vars)
=============================================================================
