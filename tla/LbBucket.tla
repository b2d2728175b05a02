------------------------------ MODULE LbBucket ------------------------------
(***************************************************************************)
(* The lock-based table without resizing (src/clht_lb.c): puts and removes *)
(* take the lock of the bucket, gets and the search that every update does *)
(* first do not.                                                           *)
(***************************************************************************)
EXTENDS BucketCalls

CONSTANT Garbage   \* what the value of a new bucket may hold, not in Vals

vars == calls
Labels == {"idle", "get_val", "get_key", "get_again", "exists", "lock",
           "write_key", "link_key", "link_val"}

Init == CallsInit
TypeOK == CallsTypeOK(Keys \cup {NoKey}, Vals \cup {NoVal, Garbage}, Labels)

(* A put is done when its entry has both key and value.                    *)
Unwritten == {idx[t] : t \in {u \in Threads : At(u, "link_val")}}
Store == [k \in Keys |-> IF Having(k) \cap Unwritten # {} THEN NoVal
                         ELSE Lookup(k)]

(* clht_size counts the entries that have a key.                           *)
Size == Cardinality(DOMAIN cells \ Having(NoKey))

-----------------------------------------------------------------------------
Get(t) == Begin(t, "get", "get_val")
Put(t) == Begin(t, "put", "exists")
Remove(t) == Begin(t, "remove", "exists")

GetVal(t) == ScanVal(t)
GetKey(t) == ScanKey(t)

(* Mutant of GetAgain: the value is not read a second time.                *)
GetAgainUnchecked(t) ==
  At(t, "get_again") /\ Return(t, cur[t]) /\ UNCHANGED <<cells, lock, puts>>
GetAgain(t) == ScanAgain(t)
Exists(t) == ScanExists(t)

(* Keys change under the lock only, so the whole second search stands for  *)
(* one moment.  The put fails, or writes the value of the first free       *)
(* entry, or links a bucket for lack of one.                               *)
PutLocked(t) ==
  /\ CanLock(t) /\ call[t].op = "put"
  /\ \/ /\ Having(call[t].key) # {}
        /\ Finish(t, 0) /\ UNCHANGED cells
     \/ /\ Having(call[t].key) = {} /\ Having(NoKey) # {}
        /\ cells' = SetVal(Min(Having(NoKey)), call[t].val)
        /\ Hold(t, Min(Having(NoKey)), "write_key")
     \/ /\ Having(call[t].key) = {} /\ Having(NoKey) = {}
        /\ \E junk \in {NoVal, Garbage} : cells' = Linked(junk)
        /\ Hold(t, Len(cells) + 1, "link_key")

WriteKey(t) ==
  /\ At(t, "write_key")
  /\ cells' = SetKey(idx[t], call[t].key)
  /\ Finish(t, 1)

(* The entry of a linked bucket gets its key first, then its value.        *)
LinkKey(t) ==
  /\ At(t, "link_key")
  /\ cells' = SetKey(idx[t], call[t].key)
  /\ Hold(t, idx[t], "link_val")

LinkVal(t) ==
  /\ At(t, "link_val")
  /\ cells' = SetVal(idx[t], call[t].val)
  /\ Finish(t, 1)

RemoveLocked(t) ==
  /\ CanLock(t) /\ call[t].op = "remove"
  /\ LET found == Having(call[t].key) IN
       IF found = {}
       THEN Finish(t, 0) /\ UNCHANGED cells
       ELSE /\ cells' = SetKey(Min(found), NoKey)
            /\ Finish(t, cells[Min(found)].val)

Work(t) ==
  \/ GetVal(t) \/ GetKey(t) \/ GetAgain(t) \/ Exists(t)
  \/ PutLocked(t) \/ WriteKey(t) \/ LinkKey(t) \/ LinkVal(t)
  \/ RemoveLocked(t)

Next ==
  /\ \E t \in Threads : Get(t) \/ Put(t) \/ Remove(t) \/ Work(t)
  /\ Observe(Store', call')

Spec == Init /\ [][Next]_vars
-----------------------------------------------------------------------------
Map == INSTANCE ClhtMap WITH store <- Store

(* The answer of a search that stands at the entry of a put between the    *)
(* two stores at lines 283 and 287: a get returns what the memory held, a  *)
(* put reports a key that is not there for a get.                          *)
ReadsUnwritten(t) ==
  /\ call[t].op \in {"get", "put"} /\ idx[t] \in Unwritten
  /\ Map!Return(t, 0) \/ Map!Return(t, Garbage)
  /\ Store' = Store /\ Map!Observe

(* Every call takes effect at one moment, but for answers read from an     *)
(* entry whose put has not written the value yet.                          *)
MapStep == Map!Next \/ \E t \in Threads : ReadsUnwritten(t)
ImplementsMapUnlessUnwritten == Map!Init /\ [][MapStep]_(Map!vars)
=============================================================================
