---------------------------- MODULE BucketCalls ----------------------------
(***************************************************************************)
(* What the tables of a fixed size have in common (src/clht_lb.c,          *)
(* src/clht_lb_lock_ins.c, src/clht_lb_packed.c): calls on the keys of one *)
(* bucket, whose chain of linked buckets is one sequence of entries, and   *)
(* whose lock orders updates but not searches.  Buckets share no state and *)
(* a call touches one bucket, so this is the whole table.                  *)
(*                                                                         *)
(* One action is one access to shared memory that another thread can       *)
(* notice, with the thread-local work after it.  The last store under a    *)
(* lock and the release of the lock are one step, and so are the           *)
(* acquisition and what the holder reads, where only holders write.        *)
(***************************************************************************)
EXTENDS Integers, Sequences, FiniteSets, FiniteSetsExt

CONSTANTS Threads,   \* the threads that call the table
          Keys,      \* keys that hash to this bucket
          NoKey,     \* key 0, the content of a free entry
          NoThread,  \* the holder of a free lock
          Entries,   \* ENTRIES_PER_BUCKET
          MaxPuts    \* bound: how many puts the threads call

ASSUME CallsAssumption ==
  /\ NoKey \notin Keys /\ NoThread \notin Threads
  /\ Entries \in Nat \ {0} /\ MaxPuts \in Nat \ {0}

Vals == 1 .. MaxPuts   \* no two puts store the same value
NoVal == 0
Idle == [op |-> "none", key |-> NoKey, val |-> NoVal]
Calls == {Idle}
           \cup [op : {"get", "remove"}, key : Keys, val : {NoVal}]
           \cup [op : {"put"}, key : Keys, val : Vals]
Unused == [key |-> NoKey, val |-> NoVal]

VARIABLES cells,    \* the entries of the bucket and of those linked to it
          lock,     \* the thread that holds the lock of the bucket
          call,     \* call[t]: the call whose answer is not decided yet
          pc,       \* pc[t]: the next access to shared memory of t
          idx,      \* idx[t]: the entry that t is at
          cur,      \* cur[t]: the value that a search has read
          puts,     \* how many puts have been called
          ret,      \* ret[t]: what the last call of t returned, 0 during one
          seen      \* history: what the key was mapped to during the call

threads == <<call, pc, idx, cur, ret>>
calls == <<cells, lock, threads, puts, seen>>

CallsInit ==
  /\ cells = [i \in 1 .. Entries |-> Unused]
  /\ lock = NoThread
  /\ call = [t \in Threads |-> Idle]
  /\ pc = [t \in Threads |-> "idle"]
  /\ idx = [t \in Threads |-> 1]
  /\ cur = [t \in Threads |-> NoVal]
  /\ puts = 0
  /\ ret = [t \in Threads |-> 0]
  /\ seen = [t \in Threads |-> {}]

(* keys, values: what the fields of an entry can hold.                     *)
CallsTypeOK(keys, values, labels) ==
  /\ cells \in Seq([key : keys, val : values])
  /\ lock \in Threads \cup {NoThread}
  /\ call \in [Threads -> Calls]
  /\ pc \in [Threads -> labels]
  /\ idx \in [Threads -> Nat]
  /\ cur \in [Threads -> values]
  /\ puts \in 0 .. MaxPuts
  /\ ret \in [Threads -> values \cup {0, 1}]
  /\ seen \in [Threads -> SUBSET (Vals \cup {NoVal})]

-----------------------------------------------------------------------------
(* Control.                                                                *)

At(t, label) == pc[t] = label
Goto(t, label) == pc' = [pc EXCEPT ![t] = label]
SetIdx(t, i) == idx' = [idx EXCEPT ![t] = i]
Read(t, v) == cur' = [cur EXCEPT ![t] = v]

(* The answer of t is decided; t goes on at label.                         *)
Decide(t, r, label) ==
  /\ call' = [call EXCEPT ![t] = Idle]
  /\ ret' = [ret EXCEPT ![t] = r]
  /\ Goto(t, label)
  /\ Read(t, NoVal)

Return(t, r) == Decide(t, r, "idle") /\ SetIdx(t, 1)

Begin(t, op, label) ==
  /\ At(t, "idle")
  /\ op = "put" => puts < MaxPuts
  /\ puts' = IF op = "put" THEN puts + 1 ELSE puts
  /\ \E k \in Keys :
       call' = [call EXCEPT ![t] = [op |-> op, key |-> k,
                                    val |-> IF op = "put" THEN puts + 1
                                                          ELSE NoVal]]
  /\ Goto(t, label) /\ SetIdx(t, 1)
  /\ ret' = [ret EXCEPT ![t] = 0]
  /\ UNCHANGED <<cells, lock, cur>>

(* Calls in progress, c, observe the map that a step leaves behind, s.     *)
Observe(s, c) ==
  seen' = [t \in Threads |-> IF c[t] = Idle THEN {}
                             ELSE seen[t] \cup {s[c[t].key]}]

(* The entries with key k, a set; those that are free if k is NoKey.       *)
Having(k) == {i \in DOMAIN cells : cells[i].key = k}
Lookup(k) == IF Having(k) = {} THEN NoVal ELSE cells[Min(Having(k))].val

-----------------------------------------------------------------------------
(* The search without the lock: entry after entry to the end of the chain. *)

AtEnd(t) == idx[t] > Len(cells)
Mine(t) == cells[idx[t]].key = call[t].key

ScanVal(t) ==
  /\ At(t, "get_val")
  /\ \/ AtEnd(t) /\ Return(t, 0)
     \/ /\ ~AtEnd(t)
        /\ Read(t, cells[idx[t]].val)
        /\ Goto(t, "get_key")
        /\ UNCHANGED <<call, idx, ret>>
  /\ UNCHANGED <<cells, lock, puts>>

(* The key is compared between the two reads of the value.                 *)
ScanKey(t) ==
  /\ At(t, "get_key")
  /\ \/ Mine(t) /\ Goto(t, "get_again") /\ UNCHANGED <<idx, cur>>
     \/ /\ ~Mine(t)
        /\ Goto(t, "get_val") /\ SetIdx(t, idx[t] + 1) /\ Read(t, NoVal)
  /\ UNCHANGED <<cells, lock, call, puts, ret>>

ScanAgain(t) ==
  /\ At(t, "get_again")
  /\ Return(t, IF cells[idx[t]].val = cur[t] THEN cur[t] ELSE 0)
  /\ UNCHANGED <<cells, lock, puts>>

(* What bucket_exists decides: a put that finds its key has failed, and so *)
(* has a remove that does not; the others go on to take the lock.          *)
ExistsDone(t, found) ==
  \/ (found <=> call[t].op = "put") /\ Return(t, 0)
  \/ /\ ~(found <=> call[t].op = "put")
     /\ Goto(t, "lock") /\ SetIdx(t, 1)
     /\ UNCHANGED <<call, cur, ret>>

ScanExists(t) ==
  /\ At(t, "exists")
  /\ IF AtEnd(t) \/ Mine(t)
     THEN ExistsDone(t, ~AtEnd(t))
     ELSE SetIdx(t, idx[t] + 1) /\ UNCHANGED <<call, pc, cur, ret>>
  /\ UNCHANGED <<cells, lock, puts>>

-----------------------------------------------------------------------------
(* Stores under the lock.                                                  *)

(* LOCK_ACQ spins until the lock is free.                                  *)
CanLock(t) == At(t, "lock") /\ lock = NoThread

SetKey(i, k) == [cells EXCEPT ![i].key = k]
SetVal(i, v) == [cells EXCEPT ![i].val = v]

(* A new bucket is linked to the chain: its keys are cleared, its values   *)
(* are what the memory held before.                                        *)
Linked(junk) ==
  cells \o [i \in 1 .. Entries |-> [key |-> NoKey, val |-> junk]]

(* The holder goes on to its next store, at entry i.                       *)
Hold(t, i, label) ==
  /\ lock' = t
  /\ SetIdx(t, i) /\ Goto(t, label)
  /\ UNCHANGED <<call, cur, puts, ret>>

(* The last store of an update, and the release.                           *)
Finish(t, r) ==
  /\ lock' = NoThread
  /\ Return(t, r)
  /\ UNCHANGED puts
=============================================================================
