----------------------------- MODULE LbLockIns -----------------------------
(***************************************************************************)
(* The table that locks only to insert (src/clht_lb_lock_ins.c): a remove  *)
(* takes no lock.  It compare-and-swaps the key to KEY_BLCK, which keeps   *)
(* puts off the entry until the value has been read.                       *)
(***************************************************************************)
EXTENDS BucketCalls

CONSTANT KeyBlck   \* KEY_BLCK, of an entry being removed: no key, nor NoKey

VARIABLE slot   \* slot[t]: the first free entry a put has seen, 0 for none

vars == <<calls, slot>>
Labels == {"idle", "get_val", "get_key", "get_again", "exists", "lock",
           "scan", "link_val", "write_key", "rem_key", "rem_cas", "rem_val",
           "rem_free"}

Init == CallsInit /\ slot = [t \in Threads |-> 0]
TypeOK ==
  /\ CallsTypeOK(Keys \cup {NoKey, KeyBlck}, Vals \cup {NoVal}, Labels)
  /\ slot \in [Threads -> Nat]

(* A remove is done with its compare-and-swap: what it returns is fixed.   *)
Store == [k \in Keys |-> Lookup(k)]
Call == [t \in Threads |-> IF pc[t] \in {"rem_val", "rem_free"} THEN Idle
                           ELSE call[t]]
Ret == [t \in Threads |-> CASE At(t, "rem_val") -> cells[idx[t]].val
                            [] At(t, "rem_free") -> cur[t]
                            [] OTHER -> ret[t]]

(* clht_size: an entry that is being removed counts, its key is not 0.     *)
Size == Cardinality(DOMAIN cells \ Having(NoKey))

-----------------------------------------------------------------------------
Get(t) == Begin(t, "get", "get_val") /\ UNCHANGED slot
Put(t) == Begin(t, "put", "exists") /\ UNCHANGED slot
Remove(t) == Begin(t, "remove", "rem_key") /\ UNCHANGED slot

GetVal(t) == ScanVal(t) /\ UNCHANGED slot
GetKey(t) == ScanKey(t) /\ UNCHANGED slot
GetAgain(t) == ScanAgain(t) /\ UNCHANGED slot
Exists(t) == ScanExists(t) /\ UNCHANGED slot

PutLock(t) ==
  /\ CanLock(t)
  /\ Hold(t, 1, "scan")
  /\ UNCHANGED <<cells, slot>>

(* Removes go on meanwhile: each entry is looked at in a step of its own.  *)
PutScan(t) ==
  /\ At(t, "scan") /\ ~AtEnd(t)
  /\ \/ Mine(t) /\ Finish(t, 0) /\ slot' = [slot EXCEPT ![t] = 0]
     \/ /\ ~Mine(t)
        /\ slot' = IF slot[t] = 0 /\ cells[idx[t]].key = NoKey
                   THEN [slot EXCEPT ![t] = idx[t]] ELSE slot
        /\ Hold(t, idx[t] + 1, "scan")
  /\ UNCHANGED cells

(* At the end of the chain: the value goes to the free entry, or to a new  *)
(* bucket that is linked first.                                            *)
PutFree(t) ==
  /\ At(t, "scan") /\ AtEnd(t)
  /\ IF slot[t] # 0
     THEN /\ cells' = SetVal(slot[t], call[t].val)
          /\ Hold(t, slot[t], "write_key")
     ELSE /\ cells' = Linked(NoVal)
          /\ Hold(t, idx[t], "link_val")
  /\ slot' = [slot EXCEPT ![t] = 0]

LinkVal(t) ==
  /\ At(t, "link_val")
  /\ cells' = SetVal(idx[t], call[t].val)
  /\ Hold(t, idx[t], "write_key")
  /\ UNCHANGED slot

WriteKey(t) ==
  /\ At(t, "write_key")
  /\ cells' = SetKey(idx[t], call[t].key)
  /\ Finish(t, 1)
  /\ UNCHANGED slot

RemoveKey(t) ==
  /\ At(t, "rem_key")
  /\ \/ AtEnd(t) /\ Return(t, 0)
     \/ ~AtEnd(t) /\ Mine(t) /\ Goto(t, "rem_cas")
        /\ UNCHANGED <<call, idx, cur, ret>>
     \/ ~AtEnd(t) /\ ~Mine(t) /\ SetIdx(t, idx[t] + 1)
        /\ UNCHANGED <<call, pc, cur, ret>>
  /\ UNCHANGED <<cells, lock, puts, slot>>

(* Mutant of RemoveCas: the entry is free for puts before its value is     *)
(* read.                                                                   *)
RemoveCasFrees(t) ==
  /\ At(t, "rem_cas")
  /\ \/ /\ Mine(t)
        /\ cells' = SetKey(idx[t], NoKey)
        /\ Goto(t, "rem_val") /\ UNCHANGED <<call, idx, cur, ret>>
     \/ ~Mine(t) /\ Return(t, 0) /\ UNCHANGED cells
  /\ UNCHANGED <<lock, puts, slot>>
RemoveCas(t) ==
  /\ At(t, "rem_cas")
  /\ \/ /\ Mine(t)
        /\ cells' = SetKey(idx[t], KeyBlck)
        /\ Goto(t, "rem_val") /\ UNCHANGED <<call, idx, cur, ret>>
     \/ ~Mine(t) /\ Return(t, 0) /\ UNCHANGED cells
  /\ UNCHANGED <<lock, puts, slot>>

RemoveVal(t) ==
  /\ At(t, "rem_val")
  /\ Read(t, cells[idx[t]].val)
  /\ Goto(t, "rem_free")
  /\ UNCHANGED <<cells, lock, call, idx, puts, ret, slot>>

RemoveFree(t) ==
  /\ At(t, "rem_free")
  /\ cells' = SetKey(idx[t], NoKey)
  /\ Return(t, cur[t])
  /\ UNCHANGED <<lock, puts, slot>>

Work(t) ==
  \/ GetVal(t) \/ GetKey(t) \/ GetAgain(t) \/ Exists(t)
  \/ PutLock(t) \/ PutScan(t) \/ PutFree(t) \/ LinkVal(t) \/ WriteKey(t)
  \/ RemoveKey(t) \/ RemoveCas(t) \/ RemoveVal(t) \/ RemoveFree(t)

Next ==
  /\ \E t \in Threads : Get(t) \/ Put(t) \/ Remove(t) \/ Work(t)
  /\ Observe(Store', Call')

Spec == Init /\ [][Next]_vars
-----------------------------------------------------------------------------
(* Every call takes effect at one moment, removes without the lock         *)
(* included: no put or remove is lost between a remove and the holder of   *)
(* the lock, and a remove returns the value that it took out.              *)
Map == INSTANCE ClhtMap WITH store <- Store, call <- Call, ret <- Ret
ImplementsMap == Map!Spec
=============================================================================
