------------------------------ MODULE LfBucket ------------------------------
(***************************************************************************)
(* One bucket of the lock-free table (src/clht_lf.c): threads get, put and *)
(* remove keys that all hash to the same bucket.  One action is one access *)
(* to shared memory, together with the thread-local work that follows it.  *)
(*                                                                         *)
(* The snapshot word of the bucket is the pair of a version and a map that *)
(* says of every slot whether it is free, being filled by a put, or valid. *)
(* It is read and compare-and-swapped as a whole.                          *)
(***************************************************************************)
EXTENDS Integers, FiniteSets

CONSTANTS Threads,      \* the threads that call the table
          Keys,         \* keys that hash to this bucket
          NoKey,        \* key 0, the content of a key field never written
          Entries,      \* ENTRIES_PER_BUCKET
          VersionMod,   \* 2^w for a w-bit version field (w is 32 in the code)
          MaxPuts,      \* bound: how many puts the threads call
          DistinctVals  \* TRUE if no two puts store the same value

ASSUME BucketAssumption ==
  /\ IsFiniteSet(Threads)
  /\ NoKey \notin Keys
  /\ Entries \in Nat \ {0}
  /\ VersionMod \in Nat \ {0}
  /\ MaxPuts \in Nat \ {0}
  /\ DistinctVals \in BOOLEAN

(* Fewer commits than the version field can count.                         *)
ASSUME NoWrap == MaxPuts < VersionMod

INVLD == "invalid"
VALID == "valid"
INSRT == "insert"
MapState == {INVLD, VALID, INSRT}

Slots == 1 .. Entries
Vals  == 1 .. MaxPuts
NoVal == 0

Idle == [op |-> "none", key |-> NoKey, val |-> NoVal]
Calls == {Idle}
           \cup [op : {"get", "remove"}, key : Keys, val : {NoVal}]
           \cup [op : {"put"}, key : Keys, val : Vals]
Snapshots == [version : 0 .. VersionMod - 1, map : [Slots -> MapState]]
Free == [version |-> 0, map |-> [i \in Slots |-> INVLD]]
Labels == {"idle", "snapshot", "search_val", "search_map", "search_key",
           "search_again", "claim", "write_val", "write_key", "commit",
           "release", "rem_key", "rem_val", "rem_cas"}

VARIABLES word,   \* bucket->snapshot: the version and the map
          key,    \* bucket->key
          val,    \* bucket->val
          call,   \* call[t]: the call in progress, with its arguments
          pc,     \* pc[t]: the next access to shared memory of t
          snap,   \* snap[t]: s, the snapshot that t works from
          slot,   \* slot[t]: empty_index, 0 when negative
          idx,    \* idx[t]: the loop index of a search or a remove
          cur,    \* cur[t]: the value read first by a search or a remove
          puts,   \* how many puts have been called
          ret,    \* ret[t]: what the last call of t returned, 0 during one
          seen    \* history: what the key was mapped to during the call

bucket == <<word, key, val>>
locals == <<snap, slot, idx, cur>>
vars == <<bucket, call, pc, locals, puts, ret, seen>>

TypeOK ==
  /\ word \in Snapshots
  /\ key \in [Slots -> Keys \cup {NoKey}]
  /\ val \in [Slots -> Vals \cup {NoVal}]
  /\ call \in [Threads -> Calls]
  /\ pc \in [Threads -> Labels]
  /\ snap \in [Threads -> Snapshots]
  /\ slot \in [Threads -> Slots \cup {0}]
  /\ idx \in [Threads -> Slots]
  /\ cur \in [Threads -> Vals \cup {NoVal}]
  /\ puts \in 0 .. MaxPuts
  /\ ret \in [Threads -> Vals \cup {0, 1}]
  /\ seen \in [Threads -> SUBSET (Vals \cup {NoVal})]

Init ==
  /\ word = Free
  /\ key = [i \in Slots |-> NoKey]
  /\ val = [i \in Slots |-> NoVal]
  /\ call = [t \in Threads |-> Idle]
  /\ pc = [t \in Threads |-> "idle"]
  /\ snap = [t \in Threads |-> Free]
  /\ slot = [t \in Threads |-> 0]
  /\ idx = [t \in Threads |-> 1]
  /\ cur = [t \in Threads |-> NoVal]
  /\ puts = 0
  /\ ret = [t \in Threads |-> 0]
  /\ seen = [t \in Threads |-> {}]

-----------------------------------------------------------------------------
(* The helpers of clht_lf.h on snapshots.                                  *)

EmptySlots(s) == {i \in Slots : s.map[i] = INVLD}

SetMap(s, i, m) == [s EXCEPT !.map[i] = m]

SetMapAndIncVersion(s, i, m) ==
  [version |-> (s.version + 1) % VersionMod, map |-> [s.map EXCEPT ![i] = m]]

(* The map that the bucket stands for, and its history.                    *)
Entry(k) == {i \in Slots : word.map[i] = VALID /\ key[i] = k}

Store == [k \in Keys |-> IF Entry(k) = {} THEN NoVal
                         ELSE val[CHOOSE i \in Entry(k) : TRUE]]

Observe ==
  seen' = [t \in Threads |-> IF call'[t] = Idle THEN {}
                             ELSE seen[t] \cup {Store'[call'[t].key]}]

-----------------------------------------------------------------------------
(* Control.                                                                *)

At(t, label) == pc[t] = label
Goto(t, label) == pc' = [pc EXCEPT ![t] = label]

Return(t, r) ==
  /\ Goto(t, "idle")
  /\ call' = [call EXCEPT ![t] = Idle]
  /\ ret' = [ret EXCEPT ![t] = r]
  /\ snap' = [snap EXCEPT ![t] = Free]
  /\ slot' = [slot EXCEPT ![t] = 0]
  /\ idx' = [idx EXCEPT ![t] = 1]
  /\ cur' = [cur EXCEPT ![t] = NoVal]

(* Mutant of Retry: the slot that the put holds is forgotten.              *)
RetryForgetful(t, e) ==
  /\ Goto(t, "snapshot")
  /\ slot' = [slot EXCEPT ![t] = 0]
  /\ idx' = [idx EXCEPT ![t] = 1]
  /\ cur' = [cur EXCEPT ![t] = NoVal]
  /\ UNCHANGED <<call, ret, snap>>

(* goto retry, with empty_index = e.                                       *)
Retry(t, e) ==
  /\ Goto(t, "snapshot")
  /\ slot' = [slot EXCEPT ![t] = e]
  /\ idx' = [idx EXCEPT ![t] = 1]
  /\ cur' = [cur EXCEPT ![t] = NoVal]
  /\ UNCHANGED <<call, ret, snap>>

Continue(t, label) ==
  /\ Goto(t, label)
  /\ UNCHANGED <<call, ret, locals>>

(* A get starts to search at once, a put and a remove read the snapshot.   *)
Get(t) ==
  /\ At(t, "idle")
  /\ \E k \in Keys :
       call' = [call EXCEPT ![t] = [op |-> "get", key |-> k, val |-> NoVal]]
  /\ Goto(t, "search_val")
  /\ ret' = [ret EXCEPT ![t] = 0]
  /\ UNCHANGED <<bucket, locals, puts>>

NewVal == IF DistinctVals THEN puts + 1 ELSE 1

Put(t) ==
  /\ At(t, "idle")
  /\ puts < MaxPuts
  /\ puts' = puts + 1
  /\ \E k \in Keys :
       call' = [call EXCEPT ![t] = [op |-> "put", key |-> k, val |-> NewVal]]
  /\ Goto(t, "snapshot")
  /\ ret' = [ret EXCEPT ![t] = 0]
  /\ UNCHANGED <<bucket, locals>>

Remove(t) ==
  /\ At(t, "idle")
  /\ \E k \in Keys :
       call' = [call EXCEPT ![t] = [op |-> "remove", key |-> k, val |-> NoVal]]
  /\ Goto(t, "snapshot")
  /\ ret' = [ret EXCEPT ![t] = 0]
  /\ UNCHANGED <<bucket, locals, puts>>

ReadSnapshot(t) ==
  /\ At(t, "snapshot")
  /\ snap' = [snap EXCEPT ![t] = word]
  /\ Goto(t, IF call[t].op = "put" THEN "search_val" ELSE "rem_key")
  /\ UNCHANGED <<bucket, call, slot, idx, cur, puts, ret>>

-----------------------------------------------------------------------------
(* clht_bucket_search, and what its caller does with the result.           *)

(* A put that did not find its key takes the first slot that was free in   *)
(* its snapshot, or goes back to retry when there is none.                 *)
TakeSlot(t) ==
  IF EmptySlots(snap[t]) = {}
  THEN Retry(t, 0)
  ELSE /\ \E i \in EmptySlots(snap[t]) :
            /\ \A j \in EmptySlots(snap[t]) : i <= j
            /\ slot' = [slot EXCEPT ![t] = i]
       /\ Goto(t, "claim")
       /\ UNCHANGED <<call, ret, snap, idx, cur>>

SearchDone(t, r) ==
  \/ /\ call[t].op = "get"
     /\ Return(t, r)
  \/ /\ call[t].op = "put" /\ r # NoVal
     /\ IF slot[t] = 0 THEN Return(t, 0) ELSE Continue(t, "release")
  \/ /\ call[t].op = "put" /\ r = NoVal
     /\ IF slot[t] = 0 THEN TakeSlot(t) ELSE Continue(t, "commit")

(* Mutant of SearchNext: i <= KEY_BUCKT.                                   *)
SearchNextPastEnd(t) ==
  IF idx[t] > Entries
  THEN SearchDone(t, NoVal)
  ELSE /\ idx' = [idx EXCEPT ![t] = idx[t] + 1]
       /\ Goto(t, "search_val")
       /\ UNCHANGED <<call, ret, snap, slot, cur>>

SearchNext(t) ==
  IF idx[t] = Entries
  THEN SearchDone(t, NoVal)
  ELSE /\ idx' = [idx EXCEPT ![t] = idx[t] + 1]
       /\ Goto(t, "search_val")
       /\ UNCHANGED <<call, ret, snap, slot, cur>>

SearchVal(t) ==
  /\ At(t, "search_val")
  /\ cur' = [cur EXCEPT ![t] = val[idx[t]]]
  /\ Goto(t, "search_map")
  /\ UNCHANGED <<bucket, call, snap, slot, idx, puts, ret>>

(* Mutant of SearchMap: wait for a put that fills the slot.                *)
SearchMapWaits(t) ==
  /\ At(t, "search_map")
  /\ word.map[idx[t]] # INSRT
  /\ IF word.map[idx[t]] = VALID THEN Continue(t, "search_key")
                                 ELSE SearchNext(t)
  /\ UNCHANGED <<bucket, puts>>

SearchMap(t) ==
  /\ At(t, "search_map")
  /\ IF word.map[idx[t]] = VALID THEN Continue(t, "search_key")
                                 ELSE SearchNext(t)
  /\ UNCHANGED <<bucket, puts>>

(* Mutant of SearchKey: i is not incremented.                              *)
SearchKeyStuck(t) ==
  /\ At(t, "search_key")
  /\ Continue(t, IF key[idx[t]] = call[t].key THEN "search_again"
                                              ELSE "search_val")
  /\ UNCHANGED <<bucket, puts>>

SearchKey(t) ==
  /\ At(t, "search_key")
  /\ IF key[idx[t]] = call[t].key THEN Continue(t, "search_again")
                                  ELSE SearchNext(t)
  /\ UNCHANGED <<bucket, puts>>

(* Mutant of SearchAgain: the value is not read a second time.             *)
SearchAgainUnchecked(t) ==
  /\ At(t, "search_again")
  /\ SearchDone(t, cur[t])
  /\ UNCHANGED <<bucket, puts>>

SearchAgain(t) ==
  /\ At(t, "search_again")
  /\ SearchDone(t, IF val[idx[t]] = cur[t] THEN cur[t] ELSE NoVal)
  /\ UNCHANGED <<bucket, puts>>

-----------------------------------------------------------------------------
(* clht_put: claim a slot, fill it, commit it, or give it back.            *)

Claim(t) ==
  /\ At(t, "claim")
  /\ IF word = snap[t]
     THEN /\ word' = SetMap(snap[t], slot[t], INSRT)
          /\ Continue(t, "write_val")
     ELSE /\ Retry(t, 0)
          /\ UNCHANGED word
  /\ UNCHANGED <<key, val, puts>>

WriteVal(t) ==
  /\ At(t, "write_val")
  /\ val' = [val EXCEPT ![slot[t]] = call[t].val]
  /\ Continue(t, "write_key")
  /\ UNCHANGED <<word, key, puts>>

WriteKey(t) ==
  /\ At(t, "write_key")
  /\ key' = [key EXCEPT ![slot[t]] = call[t].key]
  /\ Continue(t, "commit")
  /\ UNCHANGED <<word, val, puts>>

(* Mutant of Commit: a byte store in place of the compare-and-swap.        *)
CommitAnyVersion(t) ==
  /\ At(t, "commit")
  /\ word' = SetMapAndIncVersion(word, slot[t], VALID)
  /\ Return(t, 1)
  /\ UNCHANGED <<key, val, puts>>

Commit(t) ==
  /\ At(t, "commit")
  /\ LET s1 == SetMap(snap[t], slot[t], INSRT) IN
       IF word = s1
       THEN /\ word' = SetMapAndIncVersion(s1, slot[t], VALID)
            /\ Return(t, 1)
       ELSE /\ Retry(t, slot[t])
            /\ UNCHANGED word
  /\ UNCHANGED <<key, val, puts>>

Release(t) ==
  /\ At(t, "release")
  /\ word' = SetMap(word, slot[t], INVLD)
  /\ Return(t, 0)
  /\ UNCHANGED <<key, val, puts>>

-----------------------------------------------------------------------------
(* clht_remove.                                                            *)

RemoveNext(t) ==
  IF idx[t] = Entries
  THEN Return(t, 0)
  ELSE /\ idx' = [idx EXCEPT ![t] = idx[t] + 1]
       /\ Goto(t, "rem_key")
       /\ UNCHANGED <<call, ret, snap, slot, cur>>

RemoveKey(t) ==
  /\ At(t, "rem_key")
  /\ IF key[idx[t]] = call[t].key /\ snap[t].map[idx[t]] = VALID
     THEN Continue(t, "rem_val")
     ELSE RemoveNext(t)
  /\ UNCHANGED <<bucket, puts>>

RemoveVal(t) ==
  /\ At(t, "rem_val")
  /\ cur' = [cur EXCEPT ![t] = val[idx[t]]]
  /\ Goto(t, "rem_cas")
  /\ UNCHANGED <<bucket, call, snap, slot, idx, puts, ret>>

RemoveCas(t) ==
  /\ At(t, "rem_cas")
  /\ IF word = snap[t]
     THEN /\ word' = SetMap(snap[t], idx[t], INVLD)
          /\ Return(t, cur[t])
     ELSE /\ Retry(t, 0)
          /\ UNCHANGED word
  /\ UNCHANGED <<key, val, puts>>

-----------------------------------------------------------------------------

Call(t) == Get(t) \/ Put(t) \/ Remove(t)

Work(t) ==
  \/ ReadSnapshot(t)
  \/ SearchVal(t) \/ SearchMap(t) \/ SearchKey(t) \/ SearchAgain(t)
  \/ Claim(t) \/ WriteVal(t) \/ WriteKey(t) \/ Commit(t) \/ Release(t)
  \/ RemoveKey(t) \/ RemoveVal(t) \/ RemoveCas(t)

Step(t) == (Call(t) \/ Work(t)) /\ Observe

Next == \E t \in Threads : Step(t)

Spec == Init /\ [][Next]_vars
-----------------------------------------------------------------------------
(* What must hold.                                                         *)

(* A key is valid in at most one slot: the two puts of one key that race   *)
(* through search, claim and commit cannot both succeed.                   *)
NoDuplicateKeys ==
  \A i, j \in Slots :
    word.map[i] = VALID /\ word.map[j] = VALID /\ key[i] = key[j] => i = j

(* t holds a slot from its successful claim to its commit or release, also *)
(* while it retries a commit that failed.                                  *)
Holds(t, i) == slot[t] = i /\ ~At(t, "claim")

(* Slots being filled and puts that fill one match one to one: no slot is  *)
(* filled by two puts, and none stays marked after its put has returned.   *)
InsertSlotsHeld ==
  \A i \in Slots :
    LET holders == {t \in Threads : Holds(t, i)} IN
      /\ word.map[i] = INSRT => holders # {}
      /\ \A t, u \in holders : t = u
      /\ holders # {} => word.map[i] = INSRT

(* While a slot stays valid its key and value do not change under the      *)
(* readers.  Only a remove followed by a new put may recycle it.           *)
ValidSlotsStable ==
  [][\A i \in Slots : word.map[i] = VALID /\ word'.map[i] = VALID
                        => key'[i] = key[i] /\ val'[i] = val[i]]_vars

(* The bucket implements the map: gets, failed puts and failed removes     *)
(* answer with what held at some moment of the call, and a remove returns  *)
(* the value that its step takes out of the map.                           *)
Map == INSTANCE ClhtMap WITH store <- Store
ImplementsMap == Map!Spec

(* A call returns, unless the bucket runs out of free slots for good (the  *)
(* comment at the top of clht_lf.c allows put not to complete then).  A    *)
(* call fails to make progress only because another one did, and MaxPuts   *)
(* bounds how often that happens.                                          *)
Returns(t) == <>[](EmptySlots(word) # {}) => []<>At(t, "idle")

(* A get has no loop but the one over the slots: it returns always.        *)
GetReturns(t) == call[t].op = "get" ~> At(t, "idle")
-----------------------------------------------------------------------------
(* The inductive invariant behind NoDuplicateKeys and InsertSlotsHeld.     *)

Search   == {"search_val", "search_map", "search_key", "search_again"}
Claimed  == {"write_val", "write_key", "commit", "release"}
Removing == {"rem_key", "rem_val", "rem_cas"}

(* What a thread can be doing in which call.                               *)
Control(t) ==
  /\ At(t, "idle") <=> call[t].op = "none"
  /\ pc[t] \in Search => call[t].op \in {"get", "put"}
  /\ pc[t] \in Claimed \cup {"claim"} => call[t].op = "put" /\ slot[t] # 0
  /\ pc[t] \in Removing => call[t].op = "remove"
  /\ At(t, "snapshot") => call[t].op \in {"put", "remove"}
  /\ slot[t] # 0 => call[t].op = "put"
  /\ pc[t] \in {"idle", "snapshot"} => idx[t] = 1

ControlInv == \A t \in Threads : Control(t)

(* A slot that a put holds is marked, is held by that put alone, and       *)
(* carries its key and value from the time they are written.               *)
Filled(t, i) ==
  /\ word.map[i] = INSRT
  /\ ~At(t, "write_val") => val[i] = call[t].val
  /\ pc[t] \notin {"write_val", "write_key"} => key[i] = call[t].key

HoldInv ==
  /\ \A t \in Threads : \A i \in Slots : Holds(t, i) => Filled(t, i)
  /\ \A t, u \in Threads : \A i \in Slots :
       Holds(t, i) /\ Holds(u, i) => t = u
  /\ \A i \in Slots : word.map[i] = INSRT => \E t \in Threads : Holds(t, i)
  /\ \A i \in Slots : word.map[i] = VALID => val[i] # NoVal

(* Every commit is that of a put of its own, so the version cannot wrap.   *)
Pending == {t \in Threads : call[t].op = "put"}
VersionInv == word.version + Cardinality(Pending) <= puts

(* A thread works from a snapshot of an earlier version, or of the current *)
(* one; while the version stays the same slots only cease to be valid.     *)
Working(t) == pc[t] \notin {"idle", "snapshot"} /\ call[t].op # "get"

SnapshotOk(t) ==
  /\ snap[t].version <= word.version
  /\ snap[t].version = word.version =>
       \A i \in Slots : word.map[i] = VALID => snap[t].map[i] = VALID
  /\ At(t, "claim") => snap[t].map[slot[t]] = INVLD
  /\ slot[t] # 0 => snap[t].map[slot[t]] # VALID
  /\ pc[t] \in {"rem_val", "rem_cas"} => snap[t].map[idx[t]] = VALID

SnapshotInv == \A t \in Threads : Working(t) => SnapshotOk(t)

(* Nothing was committed or removed since t read its snapshot.             *)
Fresh(t) ==
  /\ Working(t)
  /\ snap[t].version = word.version
  /\ \A i \in Slots : snap[t].map[i] = VALID => word.map[i] = VALID

(* As long as that is so, the search of a put has seen the truth.          *)
Searched(t, i) ==
  \/ pc[t] \in Search /\ i < idx[t]
  \/ pc[t] \in {"claim", "write_val", "write_key", "commit"}

SearchOk(t) ==
  /\ \A i \in Slots :
       Searched(t, i) /\ word.map[i] = VALID => key[i] # call[t].key
  /\ At(t, "search_map") /\ word.map[idx[t]] = VALID => cur[t] = val[idx[t]]
  /\ pc[t] \in {"search_key", "search_again"}
       => word.map[idx[t]] = VALID /\ cur[t] = val[idx[t]]

SearchInv == \A t \in Pending : Fresh(t) => SearchOk(t)

IInv ==
  /\ TypeOK
  /\ ControlInv
  /\ HoldInv
  /\ VersionInv
  /\ SnapshotInv
  /\ SearchInv
  /\ NoDuplicateKeys
=============================================================================
