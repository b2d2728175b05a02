------------------------------ MODULE LbPacked ------------------------------
(***************************************************************************)
(* The packed lock-based table (src/clht_lb_packed.c): each bucket counts  *)
(* its entries, searches go down from the last one, and a remove moves the *)
(* last entry of the chain into the gap.  The entry it is moved from keeps *)
(* its key; only the count says that it is no more.                        *)
(***************************************************************************)
EXTENDS BucketCalls

VARIABLES last,     \* last[b]: bucket->last of the b-th bucket of the chain
          bucket,   \* bucket[t]: the bucket that t searches
          full,     \* full[t]: bu_last was ENTRIES_PER_BUCKET - 1
          moved     \* history: a remove moved an entry during the call of t

chain == <<last, bucket, full, moved>>
vars == <<calls, chain>>
Labels == {"idle", "get_last", "get_val", "get_key", "get_again",
           "exists_last", "exists", "lock", "write_key", "count", "move_val",
           "move_key", "uncount"}

Init ==
  /\ CallsInit
  /\ last = <<0>>
  /\ bucket = [t \in Threads |-> 1]
  /\ full = [t \in Threads |-> FALSE]
  /\ moved = [t \in Threads |-> FALSE]

TypeOK ==
  /\ CallsTypeOK(Keys \cup {NoKey}, Vals \cup {NoVal}, Labels)
  /\ last \in Seq(0 .. Entries) /\ Len(cells) = Len(last) * Entries
  /\ bucket \in [Threads -> 1 .. Len(last)]
  /\ full \in [Threads -> BOOLEAN] /\ moved \in [Threads -> BOOLEAN]

(* Entry j of bucket b is cells[Start(b) + j]; Live are those counted.     *)
Start(b) == (b - 1) * Entries
Live == UNION {Start(b) + 1 .. Start(b) + last[b] : b \in DOMAIN last}
Bucket(i) == (i - 1) \div Entries + 1

Store == [k \in Keys |-> LET found == Having(k) \cap Live IN
                           IF found = {} THEN NoVal ELSE cells[Min(found)].val]

(* A search under the lock stops at the first bucket that is not full.     *)
Searched ==
  {b \in DOMAIN last : \A c \in 1 .. b - 1 : last[c] = Entries}

(* clht_size adds the counts up to the first bucket that is not full.      *)
Size == Cardinality(Live \cap UNION {Start(b) + 1 .. Start(b) + Entries :
                                        b \in Searched})

-----------------------------------------------------------------------------
Start1(t, op, label) ==
  /\ Begin(t, op, label)
  /\ bucket' = [bucket EXCEPT ![t] = 1]
  /\ full' = [full EXCEPT ![t] = FALSE]
  /\ moved' = [moved EXCEPT ![t] = FALSE]
  /\ UNCHANGED last

Get(t) == Start1(t, "get", "get_last")
Put(t) == Start1(t, "put", "exists_last")
Remove(t) == Start1(t, "remove", "exists_last")

(* bu_last: where the search of this bucket starts, to go down from there. *)
ReadLast(t) ==
  /\ pc[t] \in {"get_last", "exists_last"}
  /\ SetIdx(t, last[bucket[t]])
  /\ full' = [full EXCEPT ![t] = last[bucket[t]] = Entries]
  /\ Goto(t, IF At(t, "get_last") THEN "get_val" ELSE "exists")
  /\ UNCHANGED <<cells, lock, call, cur, puts, ret, last, bucket, moved>>

Here(t) == Start(bucket[t]) + idx[t]
Found(t) == cells[Here(t)].key = call[t].key

(* Past the first entry: only a full bucket has a next one to search.      *)
Onward(t) == full[t] /\ bucket[t] < Len(last)
NextBucket(t, label) ==
  /\ bucket' = [bucket EXCEPT ![t] = @ + 1]
  /\ Goto(t, label)
  /\ UNCHANGED <<call, idx, cur, ret>>

GetVal(t) ==
  /\ At(t, "get_val")
  /\ \/ idx[t] = 0 /\ Onward(t) /\ NextBucket(t, "get_last")
     \/ idx[t] = 0 /\ ~Onward(t) /\ Return(t, 0) /\ UNCHANGED bucket
     \/ /\ idx[t] > 0
        /\ Read(t, cells[Here(t)].val) /\ Goto(t, "get_key")
        /\ UNCHANGED <<call, idx, ret, bucket>>
  /\ UNCHANGED <<cells, lock, puts, last, full, moved>>

GetKey(t) ==
  /\ At(t, "get_key")
  /\ \/ Found(t) /\ Goto(t, "get_again") /\ UNCHANGED <<idx, cur>>
     \/ /\ ~Found(t)
        /\ Goto(t, "get_val") /\ SetIdx(t, idx[t] - 1) /\ Read(t, NoVal)
  /\ UNCHANGED <<cells, lock, call, puts, ret, chain>>

GetAgain(t) ==
  /\ At(t, "get_again")
  /\ Return(t, IF cells[Here(t)].val = cur[t] THEN cur[t] ELSE 0)
  /\ UNCHANGED <<cells, lock, puts, chain>>

Exists(t) ==
  /\ At(t, "exists")
  /\ \/ idx[t] = 0 /\ Onward(t) /\ NextBucket(t, "exists_last")
     \/ idx[t] = 0 /\ ~Onward(t) /\ ExistsDone(t, FALSE) /\ UNCHANGED bucket
     \/ idx[t] > 0 /\ Found(t) /\ ExistsDone(t, TRUE) /\ UNCHANGED bucket
     \/ /\ idx[t] > 0 /\ ~Found(t) /\ SetIdx(t, idx[t] - 1)
        /\ UNCHANGED <<call, pc, cur, ret, bucket>>
  /\ UNCHANGED <<cells, lock, puts, last, full, moved>>

-----------------------------------------------------------------------------
(* Under the lock.                                                         *)

Match(t) == Having(call[t].key) \cap Live
              \cap UNION {Start(b) + 1 .. Start(b) + Entries : b \in Searched}
Room == {b \in Searched : last[b] < Entries}

(* The put fails, or stores the value behind the last entry of the first   *)
(* bucket with room, or links a bucket, whose count is 0, and stores the   *)
(* key there.                                                              *)
PutLocked(t) ==
  /\ CanLock(t) /\ call[t].op = "put"
  /\ \/ Match(t) # {} /\ Finish(t, 0) /\ UNCHANGED <<cells, last>>
     \/ /\ Match(t) = {} /\ Room # {}
        /\ LET i == Start(Min(Room)) + last[Min(Room)] + 1 IN
             cells' = SetVal(i, call[t].val) /\ Hold(t, i, "write_key")
        /\ UNCHANGED last
     \/ /\ Match(t) = {} /\ Room = {}
        /\ cells' = [Linked(NoVal) EXCEPT ![Len(cells) + 1] =
                       [key |-> call[t].key, val |-> call[t].val]]
        /\ last' = Append(last, 0)
        /\ Hold(t, Len(cells) + 1, "count")
  /\ UNCHANGED <<bucket, full, moved>>

WriteKey(t) ==
  /\ At(t, "write_key")
  /\ cells' = SetKey(idx[t], call[t].key)
  /\ Hold(t, idx[t], "count")
  /\ UNCHANGED chain

Count(t) ==
  /\ At(t, "count")
  /\ last' = [last EXCEPT ![Bucket(idx[t])] = @ + 1]
  /\ Finish(t, 1)
  /\ UNCHANGED <<cells, bucket, full, moved>>

(* The answer is decided when the key is cleared; the lock is kept for the *)
(* move.                                                                   *)
RemoveLocked(t) ==
  /\ CanLock(t) /\ call[t].op = "remove"
  /\ IF Match(t) = {}
     THEN Finish(t, 0) /\ UNCHANGED cells
     ELSE LET i == Min(Match(t)) IN
          /\ cells' = SetKey(i, NoKey)
          /\ lock' = t
          /\ Decide(t, cells[i].val, "move_val") /\ SetIdx(t, i)
          /\ UNCHANGED puts
  /\ UNCHANGED chain

(* Mutant of Blast: the end of the chain, empty as it may be.              *)
BlastEmpty(i) == [bucket |-> Len(last), entry |-> Start(Len(last)) + last[Len(last)]]

(* The last entry of the chain, from the bucket of entry i on.             *)
Blast(i) ==
  LET b == CHOOSE b \in Bucket(i) .. Len(last) :
             /\ \A c \in Bucket(i) + 1 .. b : last[c] # 0
             /\ b < Len(last) => last[b + 1] = 0
  IN  [bucket |-> b, entry |-> Start(b) + last[b]]

(* Mutant of MoveVal: the value stays behind.                              *)
MoveValSkipped(t) ==
  At(t, "move_val") /\ Hold(t, idx[t], "move_key") /\ UNCHANGED <<cells, chain>>
MoveVal(t) ==
  /\ At(t, "move_val")
  /\ cells' = SetVal(idx[t], cells[Blast(idx[t]).entry].val)
  /\ Hold(t, idx[t], "move_key")
  /\ UNCHANGED chain

Moves == moved' = [u \in Threads |-> call[u] # Idle \/ moved[u]]

MoveKey(t) ==
  /\ At(t, "move_key")
  /\ cells' = SetKey(idx[t], cells[Blast(idx[t]).entry].key)
  /\ Hold(t, idx[t], "uncount")
  /\ Moves
  /\ UNCHANGED <<last, bucket, full>>

(* Mutant of Uncount: the bucket of the gap counts one less.               *)
UncountHere(t) ==
  /\ At(t, "uncount")
  /\ last' = [last EXCEPT ![Bucket(idx[t])] = @ - 1]
  /\ Moves
  /\ lock' = NoThread
  /\ Goto(t, "idle") /\ SetIdx(t, 1)
  /\ UNCHANGED <<cells, call, cur, puts, ret, bucket, full>>

(* The entry in its old place is counted no more.                          *)
Uncount(t) ==
  /\ At(t, "uncount")
  /\ last' = [last EXCEPT ![Blast(idx[t]).bucket] = @ - 1]
  /\ Moves
  /\ lock' = NoThread
  /\ Goto(t, "idle") /\ SetIdx(t, 1)
  /\ UNCHANGED <<cells, call, cur, puts, ret, bucket, full>>

Work(t) ==
  \/ ReadLast(t) \/ GetVal(t) \/ GetKey(t) \/ GetAgain(t) \/ Exists(t)
  \/ PutLocked(t) \/ WriteKey(t) \/ Count(t)
  \/ RemoveLocked(t) \/ MoveVal(t) \/ MoveKey(t) \/ Uncount(t)

Next ==
  /\ \E t \in Threads : Get(t) \/ Put(t) \/ Remove(t) \/ Work(t)
  /\ Observe(Store', call')

Spec == Init /\ [][Next]_vars
-----------------------------------------------------------------------------
(* A search during which a remove moves an entry may miss the entry, take  *)
(* it for changed, or read one that is counted no more.                    *)
Map == INSTANCE ClhtMap WITH store <- Store
Misled(t) ==
  /\ moved[t] /\ call[t] # Idle /\ pc[t] # "lock"
  /\ Map!Return(t, ret'[t]) /\ ret'[t] \in Vals \cup {NoVal}
  /\ Store' = Store /\ Map!Observe

(* Every other call takes effect at one moment: all that change something, *)
(* and the searches that overlap no such move.                             *)
MapStep == Map!Next \/ \E t \in Threads : Misled(t)
ImplementsMapUnlessMoved == Map!Init /\ [][MapStep]_(Map!vars)
=============================================================================
