--------------------------- MODULE LfBucketProofs ---------------------------
(***************************************************************************)
(* Proofs about LfBucket, for every number of threads, keys and slots and  *)
(* for every version width that is not exhausted: first its invariants,    *)
(* then that it implements the map.                                        *)
(***************************************************************************)
EXTENDS LfBucket, FiniteSetTheorems, TLAPS

(* A version field of m values holds the sum of a version and one.         *)
LEMMA ModRange ==
  ASSUME NEW a \in Nat, NEW m \in Nat \ {0}
  PROVE  a % m \in 0 .. m - 1
OBVIOUS

LEMMA ModSmall ==
  ASSUME NEW a \in Nat, NEW m \in Nat, a < m
  PROVE  a % m = a
OBVIOUS

LEMMA StoreType == TypeOK => Store \in [Keys -> Vals \cup {NoVal}]
<1> SUFFICES ASSUME TypeOK, NEW k \in Keys, Entry(k) # {}
             PROVE  val[CHOOSE i \in Entry(k) : TRUE] \in Vals \cup {NoVal}
  BY DEF Store
<1>1. (CHOOSE i \in Entry(k) : TRUE) \in Slots
  BY DEF Entry
<1> QED BY <1>1 DEF TypeOK

LEMMA SetMapType ==
  ASSUME NEW s \in Snapshots, NEW i \in Slots \cup {0}, NEW m \in MapState
  PROVE  /\ SetMap(s, i, m) \in Snapshots
         /\ SetMap(s, i, m).version = s.version
         /\ SetMap(s, i, m).map = [s.map EXCEPT ![i] = m]
         /\ SetMapAndIncVersion(s, i, m) \in Snapshots
<1>1. s.version \in 0 .. VersionMod - 1 /\ s.map \in [Slots -> MapState]
  BY DEF Snapshots
<1>2. [s.map EXCEPT ![i] = m] \in [Slots -> MapState]
  BY <1>1
<1>3. SetMap(s, i, m) = [version |-> s.version, map |-> [s.map EXCEPT ![i] = m]]
  BY DEF SetMap, Snapshots
<1>4. (s.version + 1) % VersionMod \in 0 .. VersionMod - 1
  BY <1>1, ModRange, BucketAssumption
<1> QED
  BY <1>1, <1>2, <1>3, <1>4 DEF SetMapAndIncVersion, Snapshots


-----------------------------------------------------------------------------
(* Type correctness.                                                       *)

LEMMA CallTypes ==
  /\ Idle \in Calls
  /\ \A k \in Keys, op \in {"get", "remove"} :
       [op |-> op, key |-> k, val |-> NoVal] \in Calls
  /\ \A k \in Keys, v \in Vals : [op |-> "put", key |-> k, val |-> v] \in Calls
  /\ \A c \in Calls : c.val \in Vals \cup {NoVal} /\ c.key \in Keys \cup {NoKey}
  /\ \A c \in Calls : c # Idle => c.key \in Keys /\ c.op # "none"
  /\ \A c \in Calls : c.op = "put" => c.val \in Vals /\ c.key \in Keys
  /\ Idle.op = "none"
BY DEF Calls, Idle

LEMMA InitType == Init => TypeOK
<1> SUFFICES ASSUME Init PROVE TypeOK
  OBVIOUS
<1>1. Free \in Snapshots
  BY BucketAssumption DEF Free, Snapshots, MapState
<1> QED
  BY <1>1, CallTypes, BucketAssumption DEF Init, TypeOK, Labels, Slots, Vals

(* The parts of a step that only touch the state of the thread.            *)
LocalType ==
  /\ call \in [Threads -> Calls]
  /\ pc \in [Threads -> Labels]
  /\ snap \in [Threads -> Snapshots]
  /\ slot \in [Threads -> Slots \cup {0}]
  /\ idx \in [Threads -> Slots]
  /\ cur \in [Threads -> Vals \cup {NoVal}]
  /\ ret \in [Threads -> Vals \cup {0, 1}]

BucketType ==
  /\ word \in Snapshots
  /\ key \in [Slots -> Keys \cup {NoKey}]
  /\ val \in [Slots -> Vals \cup {NoVal}]
  /\ puts \in 0 .. MaxPuts

LEMMA ReturnType ==
  ASSUME TypeOK, NEW t \in Threads, NEW r \in Vals \cup {0, 1}, Return(t, r)
  PROVE  LocalType'
<1>1. Free \in Snapshots /\ 1 \in Slots
  BY BucketAssumption DEF Free, Snapshots, MapState, Slots
<1> QED
  BY <1>1, CallTypes DEF Return, TypeOK, LocalType, Goto, Labels, NoVal

LEMMA RetryType ==
  ASSUME TypeOK, NEW t \in Threads, NEW e \in Slots \cup {0}, Retry(t, e)
  PROVE  LocalType'
BY BucketAssumption DEF Retry, TypeOK, LocalType, Goto, Labels, NoVal, Slots

LEMMA ContinueType ==
  ASSUME TypeOK, NEW t \in Threads, NEW l \in Labels, Continue(t, l)
  PROVE  LocalType'
BY DEF Continue, TypeOK, LocalType, Goto, locals

LEMMA SearchDoneType ==
  ASSUME TypeOK, NEW t \in Threads, NEW r \in Vals \cup {NoVal},
         SearchDone(t, r)
  PROVE  LocalType'
<1>1. CASE TakeSlot(t)
  <2>1. CASE EmptySlots(snap[t]) = {}
    BY <1>1, <2>1, RetryType DEF TakeSlot
  <2>2. CASE EmptySlots(snap[t]) # {}
    <3>1. PICK i \in Slots : slot' = [slot EXCEPT ![t] = i]
      BY <1>1, <2>2 DEF TakeSlot, EmptySlots
    <3> QED
      BY <1>1, <2>2, <3>1 DEF TakeSlot, TypeOK, LocalType, Goto, Labels
  <2> QED BY <2>1, <2>2
<1>2. CASE \E x \in Vals \cup {0, 1} : Return(t, x)
  BY <1>2, ReturnType
<1>3. CASE Continue(t, "release") \/ Continue(t, "commit")
  BY <1>3, ContinueType DEF Labels
<1> QED
  BY <1>1, <1>2, <1>3 DEF SearchDone, NoVal

LEMMA SearchNextType ==
  ASSUME TypeOK, NEW t \in Threads, SearchNext(t)
  PROVE  LocalType'
<1>1. CASE idx[t] = Entries
  BY <1>1, SearchDoneType DEF SearchNext
<1>2. CASE idx[t] # Entries
  <2>1. idx[t] + 1 \in Slots
    BY <1>2, BucketAssumption DEF TypeOK, Slots
  <2> QED
    BY <1>2, <2>1 DEF SearchNext, TypeOK, LocalType, Goto, Labels
<1> QED BY <1>1, <1>2

LEMMA CallType ==
  ASSUME TypeOK, NEW t \in Threads, Call(t)
  PROVE  LocalType' /\ BucketType'
<1>1. CASE Get(t)
  BY <1>1, CallTypes
  DEF Get, TypeOK, LocalType, BucketType, Goto, Labels, bucket, locals
<1>2. CASE Put(t)
  <2>1. NewVal \in Vals
    BY <1>2, BucketAssumption DEF Put, NewVal, TypeOK, Vals
  <2>2. puts' \in 0 .. MaxPuts
    BY <1>2, BucketAssumption DEF Put, TypeOK
  <2>3. call' \in [Threads -> Calls]
    BY <1>2, <2>1, CallTypes DEF Put, TypeOK
  <2> QED
    BY <1>2, <2>2, <2>3
    DEF Put, TypeOK, LocalType, BucketType, Goto, Labels, bucket, locals
<1>3. CASE Remove(t)
  BY <1>3, CallTypes
  DEF Remove, TypeOK, LocalType, BucketType, Goto, Labels, bucket, locals
<1> QED BY <1>1, <1>2, <1>3 DEF Call

LEMMA WorkType ==
  ASSUME TypeOK, NEW t \in Threads, Work(t)
  PROVE  LocalType' /\ BucketType'
<1> USE DEF BucketType
<1>1. CASE ReadSnapshot(t)
  BY <1>1 DEF ReadSnapshot, TypeOK, LocalType, Goto, Labels, bucket
<1>2. CASE SearchVal(t)
  BY <1>2 DEF SearchVal, TypeOK, LocalType, Goto, Labels, bucket
<1>3. CASE SearchMap(t)
  <2>1. LocalType'
    BY <1>3, ContinueType, SearchNextType DEF SearchMap, Labels
  <2> QED BY <1>3, <2>1 DEF SearchMap, TypeOK, bucket
<1>4. CASE SearchKey(t)
  <2>1. LocalType'
    BY <1>4, ContinueType, SearchNextType DEF SearchKey, Labels
  <2> QED BY <1>4, <2>1 DEF SearchKey, TypeOK, bucket
<1>5. CASE SearchAgain(t)
  <2>1. LocalType'
    BY <1>5, SearchDoneType DEF SearchAgain, TypeOK
  <2> QED BY <1>5, <2>1 DEF SearchAgain, TypeOK, bucket
<1>6. CASE Claim(t)
  <2>1. CASE word = snap[t]
    <3>1. SetMap(snap[t], slot[t], INSRT) \in Snapshots
      BY SetMapType DEF TypeOK, MapState
    <3> QED
      BY <1>6, <2>1, <3>1, ContinueType DEF Claim, TypeOK, Labels
  <2>2. CASE word # snap[t]
    BY <1>6, <2>2, RetryType DEF Claim, TypeOK
  <2> QED BY <2>1, <2>2
<1>7. CASE WriteVal(t)
  <2>1. call[t].val \in Vals \cup {NoVal}
    BY CallTypes DEF TypeOK
  <2> QED
    BY <1>7, <2>1, ContinueType DEF WriteVal, TypeOK, Labels
<1>8. CASE WriteKey(t)
  <2>1. call[t].key \in Keys \cup {NoKey}
    BY CallTypes DEF TypeOK
  <2> QED
    BY <1>8, <2>1, ContinueType DEF WriteKey, TypeOK, Labels
<1>9. CASE Commit(t)
  <2> DEFINE s1 == SetMap(snap[t], slot[t], INSRT)
  <2>1. CASE word = s1
    <3>1. SetMapAndIncVersion(s1, slot[t], VALID) \in Snapshots
      BY SetMapType DEF TypeOK, MapState
    <3> QED
      BY <1>9, <2>1, <3>1, ReturnType DEF Commit, TypeOK
  <2>2. CASE word # s1
    BY <1>9, <2>2, RetryType DEF Commit, TypeOK
  <2> QED BY <2>1, <2>2
<1>10. CASE Release(t)
  <2>1. SetMap(word, slot[t], INVLD) \in Snapshots
    BY SetMapType DEF TypeOK, MapState
  <2> QED
    BY <1>10, <2>1, ReturnType DEF Release, TypeOK
<1>11. CASE RemoveKey(t)
  <2>1. CASE Continue(t, "rem_val")
    BY <1>11, <2>1, ContinueType DEF RemoveKey, TypeOK, Labels, bucket
  <2>2. CASE RemoveNext(t) /\ idx[t] = Entries
    BY <1>11, <2>2, ReturnType DEF RemoveKey, RemoveNext, TypeOK, bucket
  <2>3. CASE RemoveNext(t) /\ idx[t] # Entries
    <3>1. idx[t] + 1 \in Slots
      BY <2>3, BucketAssumption DEF TypeOK, Slots
    <3> QED
      BY <1>11, <2>3, <3>1
      DEF RemoveKey, RemoveNext, TypeOK, LocalType, Goto, Labels, bucket
  <2> QED BY <1>11, <2>1, <2>2, <2>3 DEF RemoveKey
<1>12. CASE RemoveVal(t)
  BY <1>12 DEF RemoveVal, TypeOK, LocalType, Goto, Labels, bucket
<1>13. CASE RemoveCas(t)
  <2>1. CASE word = snap[t]
    <3>1. SetMap(snap[t], idx[t], INVLD) \in Snapshots
      BY SetMapType DEF TypeOK, MapState
    <3> QED
      BY <1>13, <2>1, <3>1, ReturnType DEF RemoveCas, TypeOK, NoVal
  <2>2. CASE word # snap[t]
    BY <1>13, <2>2, RetryType DEF RemoveCas, TypeOK
  <2> QED BY <2>1, <2>2
<1> QED
  BY <1>1, <1>2, <1>3, <1>4, <1>5, <1>6, <1>7, <1>8, <1>9, <1>10, <1>11,
     <1>12, <1>13 DEF Work

LEMMA NextType == TypeOK /\ [Next]_vars => TypeOK'
<1>1. ASSUME TypeOK, NEW t \in Threads, Step(t)
      PROVE  TypeOK'
  <2>1. LocalType' /\ BucketType'
    BY <1>1, CallType, WorkType DEF Step
  <2>2. Store' \in [Keys -> Vals \cup {NoVal}]
    <3> SUFFICES ASSUME NEW k \in Keys, Entry(k)' # {}
                 PROVE  val'[CHOOSE i \in Entry(k)' : TRUE] \in Vals \cup {NoVal}
      BY DEF Store
    <3>1. (CHOOSE i \in Entry(k)' : TRUE) \in Slots
      BY DEF Entry
    <3> QED BY <2>1, <3>1 DEF BucketType
  <2>3. seen' \in [Threads -> SUBSET (Vals \cup {NoVal})]
    <3> SUFFICES ASSUME NEW u \in Threads, call'[u] # Idle
                 PROVE  seen[u] \cup {Store'[call'[u].key]}
                          \in SUBSET (Vals \cup {NoVal})
      BY <1>1 DEF Step, Observe, TypeOK
    <3>1. call'[u].key \in Keys
      BY <2>1, CallTypes DEF LocalType
    <3> QED BY <1>1, <2>2, <3>1 DEF TypeOK
  <2> QED BY <2>1, <2>3 DEF TypeOK, LocalType, BucketType
<1>2. ASSUME TypeOK, UNCHANGED vars
      PROVE  TypeOK'
  BY <1>2 DEF TypeOK, vars, bucket, locals
<1> QED BY <1>1, <1>2 DEF Next

(* The state of the bucket and of its threads stays well formed: every     *)
(* step of clht_get, clht_put and clht_remove keeps each variable in its   *)
(* range, the version in the width of its field included.                  *)
THEOREM TypeCorrect == Spec => []TypeOK
BY InitType, NextType, PTL DEF Spec

-----------------------------------------------------------------------------
(* The step of one thread leaves the others alone.                         *)

OthersUnchanged(t) ==
  \A u \in Threads \ {t} :
    /\ pc'[u] = pc[u] /\ call'[u] = call[u] /\ snap'[u] = snap[u]
    /\ slot'[u] = slot[u] /\ idx'[u] = idx[u] /\ cur'[u] = cur[u]

LEMMA LocalOthers ==
  ASSUME TypeOK, NEW t \in Threads, NEW r, NEW e, NEW l,
         Return(t, r) \/ Retry(t, e) \/ Continue(t, l)
  PROVE  OthersUnchanged(t)
BY DEF Return, Retry, Continue, Goto, locals, OthersUnchanged, TypeOK

LEMMA SearchDoneOthers ==
  ASSUME TypeOK, NEW t \in Threads, NEW r, SearchDone(t, r) \/ SearchNext(t)
  PROVE  OthersUnchanged(t)
<1>1. ASSUME NEW x, SearchDone(t, x) PROVE OthersUnchanged(t)
  <2>1. CASE TakeSlot(t)
    <3>1. CASE EmptySlots(snap[t]) = {}
      BY <2>1, <3>1, LocalOthers DEF TakeSlot
    <3>2. CASE EmptySlots(snap[t]) # {}
      BY <2>1, <3>2 DEF TakeSlot, OthersUnchanged, TypeOK, Goto
    <3> QED BY <3>1, <3>2
  <2>2. CASE ~TakeSlot(t)
    BY <1>1, <2>2, LocalOthers DEF SearchDone
  <2> QED BY <2>1, <2>2
<1>2. CASE SearchNext(t) /\ idx[t] # Entries
  BY <1>2 DEF SearchNext, OthersUnchanged, TypeOK, Goto
<1> QED BY <1>1, <1>2 DEF SearchNext

LEMMA StepOthers ==
  ASSUME TypeOK, NEW t \in Threads, Step(t)
  PROVE  OthersUnchanged(t)
<1> USE LocalOthers, SearchDoneOthers DEF Goto
<1>1. CASE Call(t)
  BY <1>1 DEF Call, Get, Put, Remove, OthersUnchanged, TypeOK, locals
<1>2. CASE ReadSnapshot(t) \/ SearchVal(t) \/ RemoveVal(t)
  BY <1>2 DEF ReadSnapshot, SearchVal, RemoveVal, OthersUnchanged, TypeOK
<1>3. CASE SearchMap(t) \/ SearchKey(t) \/ SearchAgain(t)
  BY <1>3 DEF SearchMap, SearchKey, SearchAgain
<1>4. CASE Claim(t) \/ WriteVal(t) \/ WriteKey(t) \/ Commit(t) \/ Release(t)
  BY <1>4 DEF Claim, WriteVal, WriteKey, Commit, Release
<1>5. CASE RemoveKey(t)
  BY <1>5 DEF RemoveKey, RemoveNext, OthersUnchanged, TypeOK
<1>6. CASE RemoveCas(t)
  BY <1>6 DEF RemoveCas
<1> QED
  BY <1>1, <1>2, <1>3, <1>4, <1>5, <1>6 DEF Step, Work

-----------------------------------------------------------------------------
(* Control.                                                                *)

LEMMA ControlDone ==
  ASSUME TypeOK, ControlInv, NEW t \in Threads, NEW r \in Vals \cup {NoVal},
         SearchDone(t, r), pc[t] \in Search
  PROVE  Control(t)'
<1> USE DEF Control, At, Goto, Search, Claimed, Removing, TypeOK
<1>1. Control(t)
  BY DEF ControlInv
<1>2. CASE call[t].op = "put" /\ TakeSlot(t)
  <2>1. CASE EmptySlots(snap[t]) = {}
    BY <1>1, <1>2, <2>1 DEF TakeSlot, Retry
  <2>2. CASE EmptySlots(snap[t]) # {}
    <3>1. PICK i \in Slots : slot' = [slot EXCEPT ![t] = i]
      BY <1>2, <2>2 DEF TakeSlot, EmptySlots
    <3> QED BY <1>1, <1>2, <2>2, <3>1 DEF TakeSlot, Slots
  <2> QED BY <2>1, <2>2
<1>3. CASE Return(t, r) \/ Return(t, 0)
  BY <1>3, CallTypes DEF Return
<1>4. CASE call[t].op = "put" /\ slot[t] # 0
             /\ (Continue(t, "release") \/ Continue(t, "commit"))
  BY <1>1, <1>4 DEF Continue, locals
<1> QED BY <1>2, <1>3, <1>4 DEF SearchDone

LEMMA ControlStep ==
  ASSUME TypeOK, ControlInv, NEW t \in Threads, Step(t)
  PROVE  ControlInv'
<1> SUFFICES Control(t)'
  <2>1. ASSUME NEW u \in Threads, u # t PROVE Control(u)'
    BY <2>1, StepOthers
    DEF OthersUnchanged, ControlInv, Control, At
  <2> QED BY <2>1 DEF ControlInv
<1> USE DEF Control, At, Goto, Search, Claimed, Removing, TypeOK
<1>0. Control(t)
  BY DEF ControlInv
<1>1. CASE Call(t)
  BY <1>0, <1>1 DEF Call, Get, Put, Remove, locals
<1>2. CASE ReadSnapshot(t) \/ SearchVal(t) \/ RemoveVal(t)
  BY <1>0, <1>2 DEF ReadSnapshot, SearchVal, RemoveVal
<1>3. ASSUME SearchNext(t), pc[t] \in Search PROVE Control(t)'
  <2>1. CASE idx[t] = Entries
    BY <1>3, <2>1, ControlDone DEF SearchNext
  <2>2. CASE idx[t] # Entries
    BY <1>0, <1>3, <2>2 DEF SearchNext
  <2> QED BY <2>1, <2>2
<1>4. CASE SearchMap(t) \/ SearchKey(t)
  <2>1. CASE SearchNext(t)
    BY <1>3, <1>4, <2>1 DEF SearchMap, SearchKey
  <2>2. CASE ~SearchNext(t)
    BY <1>0, <1>4, <2>2 DEF SearchMap, SearchKey, Continue, locals
  <2> QED BY <2>1, <2>2
<1>5. CASE SearchAgain(t)
  BY <1>5, ControlDone DEF SearchAgain
<1>6. CASE Claim(t) \/ Commit(t)
  BY <1>0, <1>6, CallTypes DEF Claim, Commit, Continue, Retry, Return, locals
<1>7. CASE WriteVal(t) \/ WriteKey(t)
  BY <1>0, <1>7 DEF WriteVal, WriteKey, Continue, locals
<1>8. CASE Release(t) \/ RemoveCas(t)
  BY <1>0, <1>8, CallTypes DEF Release, RemoveCas, Return, Retry
<1>9. CASE RemoveKey(t)
  BY <1>0, <1>9, CallTypes
  DEF RemoveKey, RemoveNext, Return, Continue, locals
<1> QED
  BY <1>1, <1>2, <1>4, <1>5, <1>6, <1>7, <1>8, <1>9 DEF Step, Work

-----------------------------------------------------------------------------
(* Slots held by puts.                                                     *)

(* The steps that leave the bucket as it is.                               *)
Quiet(t) ==
  \/ Call(t) \/ ReadSnapshot(t)
  \/ SearchVal(t) \/ SearchMap(t) \/ SearchKey(t) \/ SearchAgain(t)
  \/ Claim(t) /\ word # snap[t]
  \/ Commit(t) /\ word # SetMap(snap[t], slot[t], INSRT)
  \/ RemoveKey(t) \/ RemoveVal(t)
  \/ RemoveCas(t) /\ word # snap[t]

(* A put keeps the slot that it holds.                                     *)
KeepsSlot(t) ==
  /\ {pc[t], pc'[t]} \cap {"write_val", "write_key"} = {}
  /\ \A i \in Slots : Holds(t, i)' <=> Holds(t, i)
  /\ \A i \in Slots : Holds(t, i) => call'[t] = call[t]

LEMMA QuietBucket ==
  ASSUME NEW t \in Threads, Quiet(t)
  PROVE  UNCHANGED bucket
BY DEF Quiet, Call, Get, Put, Remove, ReadSnapshot, SearchVal, SearchMap,
       SearchKey, SearchAgain, Claim, Commit, RemoveKey, RemoveVal, RemoveCas,
       bucket

LEMMA SearchDoneKeeps ==
  ASSUME TypeOK, ControlInv, NEW t \in Threads, NEW r,
         SearchDone(t, r), pc[t] \in Search
  PROVE  KeepsSlot(t)
<1> USE DEF KeepsSlot, Holds, At, Goto, Search, TypeOK, Slots
<1>1. Control(t)
  BY DEF ControlInv
<1>2. CASE slot[t] = 0 /\ TakeSlot(t)
  <2>1. CASE EmptySlots(snap[t]) = {}
    BY <1>2, <2>1 DEF TakeSlot, Retry
  <2>2. CASE EmptySlots(snap[t]) # {}
    BY <1>2, <2>2 DEF TakeSlot
  <2> QED BY <2>1, <2>2
<1>3. CASE slot[t] = 0 /\ (Return(t, r) \/ Return(t, 0))
  BY <1>3 DEF Return
<1>4. CASE slot[t] # 0 /\ (Continue(t, "release") \/ Continue(t, "commit"))
  BY <1>4 DEF Continue, locals
<1>5. call[t].op = "get" => slot[t] = 0
  BY <1>1 DEF Control
<1> QED BY <1>2, <1>3, <1>4, <1>5 DEF SearchDone

LEMMA QuietKeeps ==
  ASSUME TypeOK, ControlInv, NEW t \in Threads, Quiet(t)
  PROVE  KeepsSlot(t)
<1>0. Control(t)
  BY DEF ControlInv
<1> USE DEF KeepsSlot, Holds, At, Goto, TypeOK, Slots
<1>1. CASE Call(t)
  BY <1>0, <1>1 DEF Call, Get, Put, Remove, locals, Control
<1>2. CASE ReadSnapshot(t) \/ SearchVal(t) \/ RemoveVal(t)
  BY <1>2 DEF ReadSnapshot, SearchVal, RemoveVal
<1>3. ASSUME SearchNext(t), pc[t] \in Search PROVE KeepsSlot(t)
  <2>1. CASE idx[t] = Entries
    BY <1>3, <2>1, SearchDoneKeeps DEF SearchNext
  <2>2. CASE idx[t] # Entries
    BY <1>3, <2>2 DEF SearchNext, Search
  <2> QED BY <2>1, <2>2
<1>4. CASE SearchMap(t) \/ SearchKey(t)
  <2>1. CASE SearchNext(t)
    BY <1>3, <1>4, <2>1 DEF SearchMap, SearchKey, Search
  <2>2. CASE ~SearchNext(t)
    BY <1>4, <2>2 DEF SearchMap, SearchKey, Continue, locals
  <2> QED BY <2>1, <2>2
<1>5. CASE SearchAgain(t)
  BY <1>5, SearchDoneKeeps DEF SearchAgain, Search
<1>6. CASE Claim(t) /\ word # snap[t]
  BY <1>6 DEF Claim, Retry
<1>7. CASE Commit(t) /\ word # SetMap(snap[t], slot[t], INSRT)
  BY <1>7 DEF Commit, Retry
<1>8. CASE RemoveCas(t) /\ word # snap[t]
  BY <1>0, <1>8 DEF RemoveCas, Retry, Control, Removing
<1>9. CASE RemoveKey(t)
  BY <1>0, <1>9 DEF RemoveKey, RemoveNext, Return, Continue, locals, Control,
                    Removing
<1> QED
  BY <1>1, <1>2, <1>4, <1>5, <1>6, <1>7, <1>8, <1>9 DEF Quiet

(* The steps that change it.                                               *)
Claims(t)  == Claim(t) /\ word = snap[t]
Commits(t) == Commit(t) /\ word = SetMap(snap[t], slot[t], INSRT)
Removes(t) == RemoveCas(t) /\ word = snap[t]

LEMMA StepKinds ==
  ASSUME NEW t \in Threads, Step(t)
  PROVE  \/ Quiet(t) \/ Claims(t) \/ WriteVal(t) \/ WriteKey(t)
         \/ Commits(t) \/ Release(t) \/ Removes(t)
BY DEF Step, Work, Quiet, Claims, Commits, Removes

(* What they make of the bucket: only the slot of the step changes.        *)
LEMMA WordStep ==
  ASSUME TypeOK, ControlInv, HoldInv, SnapshotInv, NEW t \in Threads
  PROVE  /\ Claims(t) =>
              /\ slot[t] \in Slots /\ word.map[slot[t]] = INVLD
              /\ word'.version = word.version
              /\ word'.map = [word.map EXCEPT ![slot[t]] = INSRT]
         /\ Commits(t) =>
              /\ Holds(t, slot[t]) /\ slot[t] \in Slots
              /\ word.version = snap[t].version
              /\ word.map = [snap[t].map EXCEPT ![slot[t]] = INSRT]
              /\ word'.version = (word.version + 1) % VersionMod
              /\ word'.map = [word.map EXCEPT ![slot[t]] = VALID]
         /\ Release(t) =>
              /\ Holds(t, slot[t]) /\ slot[t] \in Slots
              /\ word'.version = word.version
              /\ word'.map = [word.map EXCEPT ![slot[t]] = INVLD]
         /\ Removes(t) =>
              /\ word'.version = word.version
              /\ word.map[idx[t]] = VALID
              /\ word'.map = [word.map EXCEPT ![idx[t]] = INVLD]
<1>0. Control(t) /\ (Working(t) => SnapshotOk(t))
  BY DEF ControlInv, SnapshotInv
<1> USE <1>0 DEF Control, At, Claimed, Removing, Working, TypeOK
<1>1. ASSUME Claims(t) PROVE slot[t] \in Slots /\ word.map[slot[t]] = INVLD
  BY <1>1 DEF Claims, Claim, SnapshotOk
<1>2. ASSUME Commits(t) \/ Release(t)
      PROVE  Holds(t, slot[t]) /\ slot[t] \in Slots
  BY <1>2 DEF Commits, Commit, Release, Holds
<1>3. ASSUME Removes(t) PROVE word.map[idx[t]] = VALID
  BY <1>3 DEF Removes, RemoveCas, SnapshotOk
<1>4. ASSUME Claims(t)
      PROVE  /\ word'.version = word.version
             /\ word'.map = [word.map EXCEPT ![slot[t]] = INSRT]
  <2>1. word' = SetMap(word, slot[t], INSRT)
    BY <1>4 DEF Claims, Claim
  <2> QED BY <2>1, SetMapType DEF MapState
<1>5. ASSUME Release(t)
      PROVE  /\ word'.version = word.version
             /\ word'.map = [word.map EXCEPT ![slot[t]] = INVLD]
  <2>1. word' = SetMap(word, slot[t], INVLD)
    BY <1>5 DEF Release
  <2> QED BY <2>1, SetMapType DEF MapState
<1>6. ASSUME Removes(t)
      PROVE  /\ word'.version = word.version
             /\ word'.map = [word.map EXCEPT ![idx[t]] = INVLD]
  <2>1. word' = SetMap(word, idx[t], INVLD)
    BY <1>6 DEF Removes, RemoveCas
  <2> QED BY <2>1, SetMapType DEF MapState
<1>7. ASSUME Commits(t)
      PROVE  /\ word.version = snap[t].version
             /\ word.map = [snap[t].map EXCEPT ![slot[t]] = INSRT]
             /\ word'.version = (word.version + 1) % VersionMod
             /\ word'.map = [word.map EXCEPT ![slot[t]] = VALID]
  <2>1. word = SetMap(snap[t], slot[t], INSRT)
    BY <1>7 DEF Commits
  <2>2. word' = SetMapAndIncVersion(word, slot[t], VALID)
    BY <1>7 DEF Commits, Commit
  <2> QED BY <2>1, <2>2, SetMapType DEF SetMapAndIncVersion, MapState
<1> QED BY <1>1, <1>2, <1>3, <1>4, <1>5, <1>6, <1>7

LEMMA HoldStep ==
  ASSUME TypeOK, ControlInv, HoldInv, SnapshotInv, NEW t \in Threads, Step(t)
  PROVE  HoldInv'
<1> DEFINE writes == {"write_val", "write_key"}
           Kept(u, i) == /\ word'.map[i] = INSRT
                         /\ ~At(u, "write_val") => val'[i] = call[u].val
                         /\ pc[u] \notin writes => key'[i] = call[u].key
<1>0. Control(t) /\ (Working(t) => SnapshotOk(t))
  BY DEF ControlInv, SnapshotInv
<1>1. ASSUME NEW u \in Threads, u # t, NEW i \in Slots
      PROVE  /\ Holds(u, i)' <=> Holds(u, i)
             /\ Filled(u, i)' <=> Kept(u, i)
  BY <1>1, StepOthers DEF OthersUnchanged, Holds, Filled, At
<1>2. TypeOK'
  BY NextType DEF Next
<1>3. word.map \in [Slots -> MapState]
  BY DEF TypeOK, Snapshots
(* A step that changes slot j at most: the others keep what they had.      *)
<1>4. ASSUME NEW j \in Slots,
             \A i \in Slots \ {j} :
               /\ word'.map[i] = word.map[i]
               /\ val'[i] = val[i] /\ key'[i] = key[i],
             \A u \in Threads \ {t} : ~Holds(u, j),
             \A i \in Slots : i # j => ~Holds(t, i)',
             \A i \in Slots : i # j => ~Holds(t, i),
             word'.map[j] = INSRT => Holds(t, j)',
             Holds(t, j)' => Filled(t, j)',
             word'.map[j] = VALID => val'[j] # NoVal
      PROVE  HoldInv'
  <2>1. ASSUME NEW u \in Threads, NEW i \in Slots, Holds(u, i)'
        PROVE  Filled(u, i)' /\ (i = j => u = t)
    <3>1. CASE u = t
      BY <1>4, <2>1, <3>1
    <3>2. CASE u # t
      <4>1. Holds(u, i) /\ i # j
        BY <1>1, <1>4, <2>1, <3>2
      <4>2. Filled(u, i)
        BY <4>1 DEF HoldInv
      <4> QED BY <1>1, <1>4, <3>2, <4>1, <4>2 DEF Filled
    <3> QED BY <3>1, <3>2
  <2>2. ASSUME NEW u \in Threads, NEW v \in Threads, NEW i \in Slots,
               Holds(u, i)', Holds(v, i)'
        PROVE  u = v
    <3>1. CASE i = j
      BY <2>1, <2>2, <3>1
    <3>2. CASE i # j
      BY <1>1, <1>4, <2>2, <3>2 DEF HoldInv
    <3> QED BY <3>1, <3>2
  <2>3. ASSUME NEW i \in Slots, word'.map[i] = INSRT
        PROVE  \E u \in Threads : Holds(u, i)'
    BY <1>1, <1>4, <2>3 DEF HoldInv
  <2>4. ASSUME NEW i \in Slots, word'.map[i] = VALID
        PROVE  val'[i] # NoVal
    BY <1>4, <2>4 DEF HoldInv
  <2> QED BY <2>1, <2>2, <2>3, <2>4 DEF HoldInv
<1>5. ASSUME NEW i \in Slots, Holds(t, i)
      PROVE  /\ \A u \in Threads \ {t} : ~Holds(u, i)
             /\ \A j \in Slots : j # i => ~Holds(t, j)
             /\ Filled(t, i)
  BY <1>5 DEF HoldInv, Holds
<1>6. CASE Quiet(t)
  <2>1. ASSUME NEW u \in Threads, NEW i \in Slots
        PROVE  /\ Holds(u, i)' <=> Holds(u, i)
               /\ Holds(u, i) => (Filled(u, i)' <=> Filled(u, i))
    <3>1. CASE u = t
      BY <1>6, <3>1, QuietBucket, QuietKeeps DEF KeepsSlot, Filled, At, bucket
    <3>2. CASE u # t
      BY <1>1, <1>6, <3>2, QuietBucket DEF Filled, bucket
    <3> QED BY <3>1, <3>2
  <2>2. UNCHANGED <<word, val>>
    BY <1>6, QuietBucket DEF bucket
  <2> QED BY <2>1, <2>2 DEF HoldInv
<1>7. CASE Claims(t)
  <2>1. /\ slot[t] \in Slots /\ word.map[slot[t]] = INVLD
        /\ word'.map = [word.map EXCEPT ![slot[t]] = INSRT]
    BY <1>7, WordStep
  <2>2. /\ \A i \in Slots : Holds(t, i)' <=> i = slot[t]
        /\ \A i \in Slots : ~Holds(t, i)
        /\ UNCHANGED <<key, val, slot>> /\ pc'[t] = "write_val"
    BY <1>7 DEF Claims, Claim, Continue, Goto, Holds, At, locals, TypeOK
  <2>3. ~ \E u \in Threads : Holds(u, slot[t])
    BY <2>1 DEF HoldInv, Filled, INVLD, INSRT
  <2>4. Filled(t, slot[t])'
    BY <1>3, <2>1, <2>2 DEF Filled, At
  <2> QED
    BY <1>3, <1>4, <2>1, <2>2, <2>3, <2>4 DEF INSRT, VALID
<1>8. CASE WriteVal(t) \/ WriteKey(t)
  <2>1. slot[t] \in Slots /\ Holds(t, slot[t]) /\ call[t].op = "put"
    BY <1>0, <1>8
    DEF WriteVal, WriteKey, Holds, At, Control, Claimed, TypeOK
  <2>2. /\ \A i \in Slots : Holds(t, i)' <=> i = slot[t]
        /\ UNCHANGED <<word, call, slot>>
    BY <1>8 DEF WriteVal, WriteKey, Continue, Goto, Holds, At, locals, TypeOK
  <2>3. Filled(t, slot[t])'
    BY <1>5, <1>8, <2>1, <2>2
    DEF WriteVal, WriteKey, Continue, Goto, At, Filled, TypeOK
  <2>4. \A i \in Slots \ {slot[t]} : val'[i] = val[i] /\ key'[i] = key[i]
    BY <1>8, <2>1 DEF WriteVal, WriteKey, TypeOK
  <2> QED
    BY <1>4, <1>5, <2>1, <2>2, <2>3, <2>4 DEF Filled, INSRT, VALID
<1>9. CASE Commits(t) \/ Release(t)
  <2> DEFINE m == IF Commits(t) THEN VALID ELSE INVLD
  <2>1. /\ Holds(t, slot[t]) /\ slot[t] \in Slots
        /\ word'.map = [word.map EXCEPT ![slot[t]] = m]
    BY <1>9, WordStep DEF Commits, Commit, Release, At
  <2>2. /\ \A i \in Slots : ~Holds(t, i)'
        /\ UNCHANGED <<key, val>>
    BY <1>9
    DEF Commits, Commit, Release, Return, Goto, Holds, At, TypeOK, Slots
  <2>3. val[slot[t]] # NoVal
    BY <1>0, <1>5, <1>9, <2>1, CallTypes
    DEF Filled, Commits, Commit, Release, At, Control, Claimed, TypeOK, Vals,
        NoVal
  <2> HIDE DEF m
  <2>4. m # INSRT
    BY DEF m, INSRT, VALID, INVLD
  <2> QED
    BY <1>3, <1>4, <1>5, <2>1, <2>2, <2>3, <2>4
<1>10. CASE Removes(t)
  <2>1. /\ word.map[idx[t]] = VALID /\ idx[t] \in Slots
        /\ word'.map = [word.map EXCEPT ![idx[t]] = INVLD]
    BY <1>10, WordStep DEF TypeOK
  <2>2. /\ \A i \in Slots : ~Holds(t, i)' /\ ~Holds(t, i)
        /\ UNCHANGED <<key, val>>
    BY <1>0, <1>10 DEF Removes, RemoveCas, Return, Goto, Holds, At, TypeOK,
                       Slots, Control, Removing
  <2>3. \A u \in Threads : ~Holds(u, idx[t])
    BY <2>1 DEF HoldInv, Filled, INSRT, VALID
  <2> QED
    BY <1>3, <1>4, <2>1, <2>2, <2>3 DEF INSRT, VALID, INVLD
<1> QED BY <1>6, <1>7, <1>8, <1>9, <1>10, StepKinds

-----------------------------------------------------------------------------
(* The version counts commits, and every commit ends a put.                *)

LEMMA PendingFinite == Pending \in SUBSET Threads /\ IsFiniteSet(Pending)
BY BucketAssumption, FS_Subset DEF Pending

LEMMA VersionStep ==
  ASSUME TypeOK, ControlInv, HoldInv, SnapshotInv, VersionInv,
         NEW t \in Threads, Step(t)
  PROVE  /\ VersionInv'
         /\ Commits(t) => word'.version = word.version + 1
<1>1. /\ word.version \in Nat /\ puts \in Nat /\ puts <= MaxPuts
      /\ MaxPuts \in Nat /\ VersionMod \in Nat
  BY BucketAssumption DEF TypeOK, Snapshots
<1>2. Cardinality(Pending) \in Nat
  BY PendingFinite, FS_CardinalityType
<1>3. TypeOK' /\ word'.version \in Nat /\ puts' \in Nat
  BY NextType DEF Next, TypeOK, Snapshots
<1>4. \A u \in Threads : u # t => call'[u] = call[u]
  BY StepOthers DEF OthersUnchanged
<1>5. CASE Put(t)
  <2>1. word' = word /\ puts' = puts + 1
    BY <1>5 DEF Put, bucket
  <2>2. t \notin Pending /\ Pending' = Pending \cup {t}
    BY <1>4, <1>5 DEF Put, Pending, TypeOK, ControlInv, Control
  <2>3. Cardinality(Pending') = Cardinality(Pending) + 1
    BY <2>2, PendingFinite, FS_AddElement
  <2>4. ~Commits(t)
    BY <1>5 DEF Put, Commits, Commit, At
  <2> QED BY <1>1, <1>2, <2>1, <2>3, <2>4 DEF VersionInv
<1>6. CASE Commits(t)
  <2>1. t \in Pending
    BY <1>6 DEF Commits, Commit, At, Pending, ControlInv, Control, Claimed
  <2>2. Pending' = Pending \ {t}
    BY <1>4, <1>6, CallTypes DEF Commits, Commit, Return, Pending, TypeOK
  <2>3. Cardinality(Pending') = Cardinality(Pending) - 1
    BY <2>1, <2>2, PendingFinite, FS_RemoveElement
  <2>4. Cardinality(Pending) # 0
    BY <2>1, PendingFinite, FS_EmptySet
  <2>5. puts' = puts
    BY <1>6 DEF Commits, Commit
  <2>6. word.version + 1 < VersionMod
    BY <1>1, <1>2, <2>4, NoWrap DEF VersionInv
  <2>7. word'.version = word.version + 1
    <3>1. word'.version = (word.version + 1) % VersionMod
      BY <1>6, WordStep
    <3>2. word.version + 1 \in Nat
      BY <1>1
    <3> QED BY <1>1, <2>6, <3>1, <3>2, ModSmall
  <2> QED BY <1>1, <1>2, <2>3, <2>5, <2>7 DEF VersionInv
<1>7. CASE ~Put(t) /\ ~Commits(t)
  <2>1. word'.version = word.version
    <3>1. CASE Quiet(t)
      BY <3>1, QuietBucket DEF bucket
    <3>2. CASE WriteVal(t) \/ WriteKey(t)
      BY <3>2 DEF WriteVal, WriteKey
    <3> QED BY <1>7, <3>1, <3>2, WordStep, StepKinds
  <2>2. puts' = puts
    BY <1>7
    DEF Step, Call, Work, Get, Remove, ReadSnapshot, SearchVal, SearchMap,
        SearchKey, SearchAgain, Claim, WriteVal, WriteKey, Commit, Release,
        RemoveKey, RemoveVal, RemoveCas
  <2>3. call'[t] = call[t] \/ call'[t] = Idle
                           \/ Get(t) \/ Remove(t)
    <3>1. ASSUME NEW r, SearchDone(t, r) PROVE call'[t] \in {call[t], Idle}
      BY <3>1 DEF SearchDone, TakeSlot, Return, Retry, Continue, TypeOK
    <3>2. SearchNext(t) \/ RemoveNext(t) => call'[t] \in {call[t], Idle}
      BY <3>1 DEF SearchNext, RemoveNext, Return, TypeOK
    <3> QED
      BY <1>7, <3>1, <3>2
      DEF Step, Call, Work, ReadSnapshot, SearchVal, SearchMap, SearchKey,
          SearchAgain, Claim, WriteVal, WriteKey, Commit, Release, RemoveKey,
          RemoveVal, RemoveCas, Return, Retry, Continue, TypeOK
  <2>4. call'[t].op = "put" => call[t].op = "put"
    BY <2>3, CallTypes DEF Get, Remove, TypeOK
  <2>5. Pending' \subseteq Pending
    BY <1>4, <2>4 DEF Pending
  <2>6. Cardinality(Pending') <= Cardinality(Pending)
    BY <2>5, PendingFinite, FS_Subset
  <2>7. Cardinality(Pending') \in Nat
    BY <2>5, PendingFinite, FS_Subset, FS_CardinalityType
  <2> QED BY <1>1, <1>2, <1>7, <2>1, <2>2, <2>6, <2>7 DEF VersionInv
<1> QED BY <1>5, <1>6, <1>7

-----------------------------------------------------------------------------
(* Snapshots.                                                              *)

(* A step that does not commit adds no valid slot.                         *)
LEMMA ValidStep ==
  ASSUME TypeOK, ControlInv, HoldInv, SnapshotInv, VersionInv,
         NEW t \in Threads, Step(t)
  PROVE  /\ word'.version >= word.version
         /\ Commits(t) \/ word'.version = word.version
         /\ ~Commits(t) =>
              \A i \in Slots : word'.map[i] = VALID => word.map[i] = VALID
         /\ ~Commits(t) /\ ~Removes(t) =>
              \A i \in Slots : word'.map[i] = VALID <=> word.map[i] = VALID
<1>1. word.map \in [Slots -> MapState] /\ word.version \in Nat
  BY DEF TypeOK, Snapshots
<1> USE DEF INSRT, VALID, INVLD
<1>2. CASE Quiet(t) \/ WriteVal(t) \/ WriteKey(t)
  BY <1>1, <1>2, QuietBucket DEF bucket, WriteVal, WriteKey
(* One slot that was not valid changes, or one that is valid no more.      *)
<1>3. ASSUME NEW j \in Slots, NEW m \in {INSRT, INVLD},
             word'.version = word.version,
             word'.map = [word.map EXCEPT ![j] = m]
      PROVE  \A i \in Slots :
               /\ word'.map[i] = VALID => word.map[i] = VALID
               /\ word.map[j] # VALID =>
                    (word'.map[i] = VALID <=> word.map[i] = VALID)
  BY <1>1, <1>3
<1>4. CASE Claims(t) \/ Release(t)
  <2> DEFINE m == IF Claims(t) THEN INSRT ELSE INVLD
  <2>1. /\ slot[t] \in Slots /\ word.map[slot[t]] # VALID
        /\ word'.version = word.version
        /\ word'.map = [word.map EXCEPT ![slot[t]] = m]
    BY <1>4, WordStep DEF HoldInv, Filled
  <2>2. m \in {INSRT, INVLD}
    OBVIOUS
  <2> HIDE DEF m
  <2> QED BY <1>1, <1>3, <2>1, <2>2
<1>5. CASE Removes(t)
  <2>1. /\ idx[t] \in Slots /\ word'.version = word.version
        /\ word'.map = [word.map EXCEPT ![idx[t]] = INVLD]
    BY <1>5, WordStep DEF TypeOK
  <2> QED BY <1>1, <1>3, <1>5, <2>1
<1>6. CASE Commits(t)
  BY <1>1, <1>6, VersionStep
<1> QED BY <1>2, <1>3, <1>4, <1>5, <1>6, StepKinds

LEMMA SnapshotStep ==
  ASSUME TypeOK, ControlInv, HoldInv, SnapshotInv, VersionInv,
         NEW t \in Threads, Step(t)
  PROVE  SnapshotInv'
<1>1. /\ word.version \in Nat /\ word'.version \in Nat
      /\ \A u \in Threads : snap[u].version \in Nat
  BY NextType DEF Next, TypeOK, Snapshots
(* A snapshot that is kept stays good whatever happens to the word.        *)
<1>2. ASSUME NEW u \in Threads, SnapshotOk(u), snap'[u] = snap[u]
      PROVE  /\ snap'[u].version <= word'.version
             /\ snap'[u].version = word'.version =>
                  \A i \in Slots :
                    word'.map[i] = VALID => snap'[u].map[i] = VALID
  BY <1>1, <1>2, ValidStep, VersionStep DEF SnapshotOk
<1>3. ASSUME NEW u \in Threads, u # t, Working(u)'
      PROVE  SnapshotOk(u)'
  <2>1. /\ pc'[u] = pc[u] /\ call'[u] = call[u] /\ snap'[u] = snap[u]
        /\ slot'[u] = slot[u] /\ idx'[u] = idx[u]
    BY <1>3, StepOthers DEF OthersUnchanged
  <2>2. SnapshotOk(u)
    BY <1>3, <2>1 DEF Working, SnapshotInv
  <2> QED BY <1>2, <2>1, <2>2 DEF SnapshotOk, At
<1>4. ASSUME Working(t)' PROVE SnapshotOk(t)'
  <2>0. Control(t) /\ (Working(t) => SnapshotOk(t))
    BY DEF ControlInv, SnapshotInv
  <2> USE DEF At, Goto, TypeOK
  <2>1. CASE ReadSnapshot(t)
    <3>1. /\ UNCHANGED <<word, slot>> /\ snap'[t] = word
          /\ pc'[t] \in {"search_val", "rem_key"}
      BY <2>1 DEF ReadSnapshot, bucket
    <3>2. slot[t] # 0 => word.map[slot[t]] = INSRT
      BY <2>1 DEF ReadSnapshot, HoldInv, Holds, Filled
    <3> QED BY <1>1, <3>1, <3>2 DEF SnapshotOk, INSRT, VALID
  (* The rest works on from the snapshot it has.                           *)
  <2>2. ASSUME Working(t), snap'[t] = snap[t],
               slot'[t] = slot[t] \/ slot'[t] = 0,
               pc'[t] = "claim" => FALSE,
               pc'[t] \in {"rem_val", "rem_cas"} =>
                 snap[t].map[idx'[t]] = VALID
        PROVE  SnapshotOk(t)'
    <3>1. SnapshotOk(t)
      BY <2>0, <2>2
    <3> QED BY <1>2, <2>2, <3>1 DEF SnapshotOk
  <2>3. ASSUME NEW r, SearchDone(t, r), pc[t] \in Search
        PROVE  SnapshotOk(t)'
    <3>1. ~Return(t, r) /\ ~Return(t, 0) /\ ~Retry(t, 0)
      BY <1>4 DEF Working, Return, Retry
    <3>2. CASE Continue(t, "release") \/ Continue(t, "commit")
      <4>1. Working(t)
        BY <1>4, <2>3, <3>2 DEF Working, Continue, Search
      <4> QED BY <2>2, <3>2, <4>1 DEF Continue, locals
    <3>3. CASE call[t].op = "put" /\ TakeSlot(t)
      <4>1. EmptySlots(snap[t]) # {}
        BY <3>1, <3>3 DEF TakeSlot
      <4>2. PICK i \in Slots : /\ slot' = [slot EXCEPT ![t] = i]
                               /\ snap[t].map[i] = INVLD
        BY <3>3, <4>1 DEF TakeSlot, EmptySlots
      <4>3. snap'[t] = snap[t] /\ pc'[t] = "claim" /\ slot'[t] = i
        BY <3>3, <4>1, <4>2 DEF TakeSlot
      <4>4. SnapshotOk(t)
        BY <2>0, <2>3, <3>3 DEF Working, Search
      <4> QED BY <1>2, <4>2, <4>3, <4>4 DEF SnapshotOk, INVLD, VALID
    <3> QED BY <2>3, <3>1, <3>2, <3>3 DEF SearchDone
  <2>4. ASSUME SearchNext(t), pc[t] \in Search PROVE SnapshotOk(t)'
    <3>1. CASE idx[t] = Entries
      BY <2>3, <2>4, <3>1 DEF SearchNext
    <3>2. CASE idx[t] # Entries
      BY <1>4, <2>2, <2>4, <3>2 DEF SearchNext, Working, Search
    <3> QED BY <3>1, <3>2
  <2>5. CASE SearchVal(t)
    BY <1>4, <2>2, <2>5 DEF SearchVal, Working
  <2>6. CASE SearchMap(t) \/ SearchKey(t)
    <3>1. CASE SearchNext(t)
      BY <2>4, <2>6, <3>1 DEF SearchMap, SearchKey, Search
    <3>2. CASE ~SearchNext(t)
      BY <1>4, <2>2, <2>6, <3>2
      DEF SearchMap, SearchKey, Continue, locals, Working
    <3> QED BY <3>1, <3>2
  <2>7. CASE SearchAgain(t)
    BY <2>3, <2>7 DEF SearchAgain, Search
  <2>8. CASE Claims(t) \/ WriteVal(t) \/ WriteKey(t)
    BY <1>4, <2>2, <2>8
    DEF Claims, Claim, WriteVal, WriteKey, Continue, locals, Working
  <2>9. CASE RemoveVal(t)
    BY <1>4, <2>0, <2>2, <2>9 DEF RemoveVal, Working, SnapshotOk
  <2>10. CASE RemoveKey(t)
    <3>1. CASE Continue(t, "rem_val")
      <4>1. key[idx[t]] = call[t].key /\ snap[t].map[idx[t]] = VALID
        BY <2>10, <3>1 DEF RemoveKey, RemoveNext, Return, Continue
      <4> QED BY <1>4, <2>2, <2>10, <3>1, <4>1
              DEF RemoveKey, Continue, locals, Working
    <3>2. CASE RemoveNext(t)
      BY <1>4, <2>2, <2>10, <3>2 DEF RemoveKey, RemoveNext, Return, Working
    <3> QED BY <2>10, <3>1, <3>2 DEF RemoveKey
  <2>11. ~Call(t)
    BY <1>4 DEF Call, Get, Put, Remove, Working
  <2>12. ~Release(t) /\ ~Commit(t) /\ (RemoveCas(t) => FALSE)
         /\ (Claim(t) => Claims(t))
    BY <1>4
    DEF Working, Release, Commit, RemoveCas, Claim, Claims, Return, Retry
  <2> QED
    BY <2>1, <2>5, <2>6, <2>7, <2>8, <2>9, <2>10, <2>11, <2>12
    DEF Step, Work
<1> QED BY <1>3, <1>4 DEF SnapshotInv

-----------------------------------------------------------------------------
(* Valid slots.                                                            *)

LEMMA StableStep ==
  ASSUME TypeOK, ControlInv, HoldInv, NEW t \in Threads, Step(t),
         NEW i \in Slots, word.map[i] = VALID
  PROVE  key'[i] = key[i] /\ val'[i] = val[i]
<1>1. CASE WriteVal(t) \/ WriteKey(t)
  <2>1. Holds(t, slot[t]) /\ slot[t] \in Slots
    BY <1>1 DEF WriteVal, WriteKey, Holds, At, ControlInv, Control, Claimed,
                TypeOK
  <2>2. slot[t] # i
    BY <2>1 DEF HoldInv, Filled, INSRT, VALID
  <2> QED BY <1>1, <2>1, <2>2 DEF WriteVal, WriteKey, TypeOK
<1>2. CASE Quiet(t)
  BY <1>2, QuietBucket DEF bucket
<1>3. CASE Claims(t) \/ Commits(t) \/ Release(t) \/ Removes(t)
  BY <1>3
  DEF Claims, Claim, Commits, Commit, Release, Removes, RemoveCas
<1> QED BY <1>1, <1>2, <1>3, StepKinds

(* Unless the map is changed, what a put has found stays true.             *)
LEMMA FreshStep ==
  ASSUME IInv, NEW t \in Threads, Step(t), NEW u \in Threads,
         Working(u), snap'[u] = snap[u], Fresh(u)'
  PROVE  /\ ~Commits(t) /\ ~Removes(t) /\ Fresh(u)
         /\ \A i \in Slots : /\ word'.map[i] = VALID <=> word.map[i] = VALID
                             /\ word.map[i] = VALID =>
                                  key'[i] = key[i] /\ val'[i] = val[i]
<1> USE DEF IInv
<1>1. /\ SnapshotOk(u) /\ word.version \in Nat
      /\ snap[u].version \in Nat /\ snap[u].version = word'.version
  BY DEF SnapshotInv, Fresh, TypeOK, Snapshots
<1>2. snap[u].version <= word.version
  BY <1>1 DEF SnapshotOk
<1>3. ~Commits(t) /\ word'.version = word.version
  BY <1>1, <1>2, ValidStep, VersionStep
<1>4. ~Removes(t)
  <2> SUFFICES ASSUME Removes(t) PROVE FALSE
    OBVIOUS
  <2>1. /\ idx[t] \in Slots /\ word.map[idx[t]] = VALID
        /\ word'.map = [word.map EXCEPT ![idx[t]] = INVLD]
    BY WordStep DEF TypeOK
  <2>2. snap[u].map[idx[t]] = VALID
    BY <1>1, <1>3, <2>1 DEF SnapshotOk
  <2> QED
    BY <2>1, <2>2 DEF Fresh, INVLD, VALID, TypeOK, Snapshots
<1>5. \A i \in Slots : word'.map[i] = VALID <=> word.map[i] = VALID
  BY <1>3, <1>4, ValidStep
<1> QED
  BY <1>1, <1>3, <1>4, <1>5, StableStep DEF Fresh

LEMMA SearchStep ==
  ASSUME IInv, NEW t \in Threads, Step(t)
  PROVE  SearchInv'
<1>1. ASSUME NEW u \in Threads, u # t, u \in Pending', Fresh(u)'
      PROVE  SearchOk(u)'
  <2>1. /\ pc'[u] = pc[u] /\ call'[u] = call[u] /\ snap'[u] = snap[u]
        /\ idx'[u] = idx[u] /\ cur'[u] = cur[u]
    BY <1>1, StepOthers DEF OthersUnchanged, IInv
  <2>2. Working(u) /\ u \in Pending
    BY <1>1, <2>1 DEF Fresh, Working, Pending
  <2>3. SearchOk(u)
    BY <1>1, <2>1, <2>2, FreshStep DEF IInv, SearchInv
  <2>4. idx[u] \in Slots
    BY DEF IInv, TypeOK
  <2> QED BY <1>1, <2>1, <2>2, <2>3, <2>4, FreshStep DEF SearchOk, Searched, At
<1>2. ASSUME t \in Pending', Fresh(t)' PROVE SearchOk(t)'
  <2>0. Control(t) /\ TypeOK /\ HoldInv
    BY DEF IInv, ControlInv
  <2> USE <1>2, <2>0 DEF At, Goto, TypeOK
  <2>1. Working(t)' /\ pc'[t] \notin {"idle", "snapshot"}
    BY DEF Fresh, Working
  <2>2. ASSUME NEW r PROVE ~Return(t, r) /\ ~Retry(t, r)
    BY <2>1 DEF Return, Retry
  <2>3. CASE ReadSnapshot(t)
    <3>1. pc'[t] = "search_val" /\ idx'[t] = 1
      BY <2>3 DEF ReadSnapshot, Control, Pending
    <3> QED BY <3>1 DEF SearchOk, Searched, Search, Slots
  (* From here on the snapshot is kept, and the put has searched in vain.  *)
  <2>4. ASSUME Working(t), snap'[t] = snap[t], t \in Pending
        PROVE  /\ SearchOk(t) /\ Fresh(t) /\ ~Commits(t) /\ ~Removes(t)
               /\ \A i \in Slots :
                    /\ word'.map[i] = VALID <=> word.map[i] = VALID
                    /\ word.map[i] = VALID =>
                         key'[i] = key[i] /\ val'[i] = val[i]
    BY <2>4, FreshStep DEF IInv, SearchInv
  <2>5. ASSUME SearchDone(t, NoVal), pc[t] \in Search, UNCHANGED bucket,
               word.map[idx[t]] = VALID => key[idx[t]] # call[t].key,
               idx[t] = Entries
        PROVE  SearchOk(t)'
    <3>1. /\ snap'[t] = snap[t] /\ call'[t] = call[t]
          /\ pc'[t] \in {"claim", "commit", "release"}
      BY <2>2, <2>5 DEF SearchDone, TakeSlot, Continue, locals
    <3>2. SearchOk(t)
      BY <2>4, <2>5, <3>1 DEF Pending, Working, Search
    <3>3. \A i \in Slots : i # idx[t] => i < idx[t]
      BY <2>5, BucketAssumption DEF Slots
    <3> QED
      BY <2>5, <3>1, <3>2, <3>3 DEF SearchOk, Searched, bucket, Search
  <2>6. ASSUME SearchNext(t), pc[t] \in Search, UNCHANGED bucket,
               word.map[idx[t]] = VALID => key[idx[t]] # call[t].key
        PROVE  SearchOk(t)'
    <3>1. CASE idx[t] = Entries
      BY <2>5, <2>6, <3>1 DEF SearchNext
    <3>2. CASE idx[t] # Entries
      <4>1. /\ snap'[t] = snap[t] /\ call'[t] = call[t]
            /\ pc'[t] = "search_val" /\ idx'[t] = idx[t] + 1
        BY <2>6, <3>2 DEF SearchNext
      <4>2. SearchOk(t)
        BY <2>4, <2>6, <4>1 DEF Pending, Working, Search
      <4>3. \A i \in Slots : i < idx[t] + 1 => i = idx[t] \/ i < idx[t]
        BY DEF Slots
      <4> QED
        BY <2>6, <4>1, <4>2, <4>3 DEF SearchOk, Searched, bucket, Search
    <3> QED BY <3>1, <3>2
  <2>7. CASE SearchVal(t)
    <3>1. SearchOk(t)
      BY <2>4, <2>7 DEF SearchVal, Pending, Working
    <3> QED
      BY <2>7, <3>1 DEF SearchVal, SearchOk, Searched, Search, bucket
  <2>8. CASE SearchMap(t) /\ word.map[idx[t]] # VALID
    BY <2>6, <2>8 DEF SearchMap, Search
  <2>9. CASE SearchMap(t) /\ word.map[idx[t]] = VALID
    <3>1. SearchOk(t)
      BY <2>4, <2>9 DEF SearchMap, Continue, locals, Pending, Working
    <3> QED BY <2>9, <3>1
            DEF SearchMap, Continue, locals, SearchOk, Searched, Search, bucket
  <2>10. CASE SearchKey(t) /\ key[idx[t]] # call[t].key
    BY <2>6, <2>10 DEF SearchKey, Search
  <2>11. CASE SearchKey(t) /\ key[idx[t]] = call[t].key
    <3>1. SearchOk(t)
      BY <2>4, <2>11 DEF SearchKey, Continue, locals, Pending, Working
    <3> QED BY <2>11, <3>1
            DEF SearchKey, Continue, locals, SearchOk, Searched, Search, bucket
  <2>12. CASE SearchAgain(t)
    <3>1. PICK r : SearchDone(t, r) /\
                   r = (IF val[idx[t]] = cur[t] THEN cur[t] ELSE NoVal)
      BY <2>12 DEF SearchAgain
    <3>2. /\ snap'[t] = snap[t] /\ call'[t] = call[t]
          /\ pc'[t] \in {"claim", "commit", "release"}
      BY <2>2, <3>1 DEF SearchDone, TakeSlot, Continue, locals
    <3>3. SearchOk(t)
      BY <2>4, <2>12, <3>2 DEF SearchAgain, Pending, Working
    <3>4. r # NoVal
      BY <2>12, <3>1, <3>3 DEF SearchOk, SearchAgain, HoldInv
    <3>5. pc'[t] = "release"
      BY <2>2, <3>1, <3>4 DEF SearchDone, Continue
    <3> QED BY <3>5 DEF SearchOk, Searched, Search
  <2>13. CASE Claims(t) \/ WriteVal(t) \/ WriteKey(t)
    <3>1. /\ snap'[t] = snap[t] /\ call'[t] = call[t]
          /\ pc'[t] \in {"write_val", "write_key", "commit"}
          /\ pc[t] \in {"claim", "write_val", "write_key"}
      BY <2>13
      DEF Claims, Claim, WriteVal, WriteKey, Continue, locals
    <3>2. Working(t) /\ t \in Pending
      BY <3>1 DEF Working, Pending, Control, Claimed
    <3> QED BY <2>4, <3>1, <3>2 DEF SearchOk, Searched, Search
  <2>14. ~Call(t) /\ ~Release(t) /\ ~Commit(t) /\ ~RemoveCas(t)
         /\ (Claim(t) => Claims(t))
    BY <2>1, <2>2 DEF Call, Get, Put, Remove, Release, Commit, RemoveCas,
                      Claim, Claims, Working, Pending
  <2>15. ~RemoveKey(t) /\ ~RemoveVal(t)
    BY <2>2 DEF RemoveKey, RemoveVal, RemoveNext, Continue, Control, Removing,
                Pending
  <2> QED
    BY <2>3, <2>7, <2>8, <2>9, <2>10, <2>11, <2>12, <2>13, <2>14, <2>15
    DEF Step, Work
<1> QED BY <1>1, <1>2 DEF SearchInv, Pending

-----------------------------------------------------------------------------
(* The theorems.                                                           *)

LEMMA NoDuplicateStep ==
  ASSUME IInv, NEW t \in Threads, Step(t)
  PROVE  NoDuplicateKeys'
<1> USE DEF IInv
<1>1. CASE ~Commits(t)
  BY <1>1, ValidStep, StableStep DEF NoDuplicateKeys
<1>2. CASE Commits(t)
  <2> DEFINE j == slot[t]
  <2>1. /\ Holds(t, j) /\ j \in Slots /\ snap[t].version = word.version
        /\ word.map = [snap[t].map EXCEPT ![j] = INSRT]
        /\ word'.map = [word.map EXCEPT ![j] = VALID]
        /\ key' = key
    BY <1>2, WordStep DEF Commits, Commit
  <2>2. t \in Pending /\ Working(t) /\ SnapshotOk(t)
    BY <1>2 DEF Commits, Commit, At, Pending, Working, ControlInv, Control,
                Claimed, SnapshotInv
  <2>3. snap[t].map[j] # VALID
    BY <2>1, <2>2 DEF SnapshotOk, Slots
  <2>4. snap[t].map \in [Slots -> MapState]
    BY DEF TypeOK, Snapshots
  <2>5. Fresh(t)
    BY <2>1, <2>2, <2>3, <2>4 DEF Fresh
  <2>6. \A i \in Slots : word.map[i] = VALID => key[i] # call[t].key
    BY <1>2, <2>2, <2>5
    DEF SearchInv, SearchOk, Searched, Commits, Commit, At
  <2>7. key[j] = call[t].key
    BY <1>2, <2>1 DEF HoldInv, Filled, Commits, Commit, At
  <2>8. \A i \in Slots : i # j => (word'.map[i] = VALID <=> word.map[i] = VALID)
    BY <2>1, <2>4
  <2> HIDE DEF j
  <2> QED
    BY <2>1, <2>6, <2>7, <2>8 DEF NoDuplicateKeys
<1> QED BY <1>1, <1>2

LEMMA InitInv == Init => IInv
<1> SUFFICES ASSUME Init PROVE IInv
  OBVIOUS
<1>1. TypeOK
  BY InitType
<1>2. Pending = {}
  BY CallTypes DEF Init, Pending
<1>3. Cardinality(Pending) = 0
  BY <1>2, FS_EmptySet
<1> QED
  BY <1>1, <1>2, <1>3, CallTypes
  DEF Init, IInv, ControlInv, Control, At, Search, Claimed, Removing, HoldInv,
      Holds, VersionInv, SnapshotInv, Working, SearchInv, NoDuplicateKeys,
      Free, INVLD, INSRT, VALID, Slots

LEMMA NextInv == IInv /\ [Next]_vars => IInv'
<1>1. ASSUME IInv, NEW t \in Threads, Step(t)
      PROVE  IInv'
  <2>1. TypeOK'
    BY <1>1, NextType DEF IInv, Next
  <2> QED
    BY <1>1, <2>1, ControlStep, HoldStep, VersionStep, SnapshotStep,
       SearchStep, NoDuplicateStep DEF IInv
<1>2. ASSUME IInv, UNCHANGED vars
      PROVE  IInv'
  BY <1>2
  DEF vars, bucket, locals, IInv, TypeOK, ControlInv, Control, At, HoldInv,
      Holds, Filled, VersionInv, Pending, SnapshotInv, SnapshotOk, Working,
      SearchInv, SearchOk, Searched, Fresh, NoDuplicateKeys
<1> QED BY <1>1, <1>2 DEF Next

(* The strengthened invariant: what each thread of clht_put, clht_get and  *)
(* clht_remove knows of the bucket at each of its steps.                   *)
THEOREM Invariance == Spec => []IInv
BY InitInv, NextInv, PTL DEF Spec

(* However many threads race to put and remove keys of one bucket, a key   *)
(* is never valid in two slots (clht_put's version check at the commit).   *)
THEOREM UniqueKeys == Spec => []NoDuplicateKeys
<1>1. IInv => NoDuplicateKeys
  BY DEF IInv
<1> QED BY <1>1, Invariance, PTL

(* A slot marked MAP_INSRT is held by exactly one put, and a put that      *)
(* holds a slot finds it marked: neither a failed compare-and-swap nor the *)
(* byte store of the release path loses or shares a slot.                  *)
THEOREM SlotsHeld == Spec => []InsertSlotsHeld
<1>1. IInv => InsertSlotsHeld
  BY DEF IInv, HoldInv, InsertSlotsHeld, Filled
<1> QED BY <1>1, Invariance, PTL

(* A reader that sees a slot valid before and after it reads the key and   *)
(* the value reads those of one put, unless a remove freed the slot.       *)
THEOREM StableSlots == Spec => ValidSlotsStable
<1> DEFINE Stable == \A i \in Slots :
                       word.map[i] = VALID /\ word'.map[i] = VALID
                         => key'[i] = key[i] /\ val'[i] = val[i]
<1>1. IInv /\ [Next]_vars => [Stable]_vars
  <2>1. ASSUME IInv, NEW t \in Threads, Step(t) PROVE Stable
    BY <2>1, StableStep DEF IInv
  <2> QED BY <2>1 DEF Next
<1> QED BY <1>1, Invariance, PTL DEF Spec, ValidSlotsStable

-----------------------------------------------------------------------------
(***************************************************************************)
(* The bucket of clht_lf.c implements the map of ClhtMap: the proof, for   *)
(* values that are all different, step by step.                            *)
(***************************************************************************)

(* What the calls have seen of the map.                                    *)

Present(i, k) == word.map[i] = VALID /\ key[i] = k
SeenAbsent(t) == NoVal \in seen[t]

ObservedOk(t) ==
  IF call[t] = Idle THEN seen[t] = {} ELSE Store[call[t].key] \in seen[t]

(* A put whose value no other thread can have met yet.                     *)
Unwritten(t) ==
  call[t].op = "put" /\ (slot[t] = 0 \/ pc[t] \in {"claim", "write_val"})

FreshValue(t) ==
  Unwritten(t) =>
    /\ \A i \in Slots : val[i] # call[t].val
    /\ \A u \in Threads : cur[u] # call[t].val
    /\ \A u \in Threads \ {t} : call[u].op = "put" => call[u].val # call[t].val

ValuesBound ==
  /\ \A i \in Slots : val[i] <= puts
  /\ \A t \in Threads : cur[t] <= puts /\ call[t].val <= puts

(* A search has not passed the key, or has seen it absent.                 *)
Ahead(t) ==
  SeenAbsent(t) \/ \E j \in Slots : j >= idx[t] /\ Present(j, call[t].key)

(* The value is read; the slot is filled with the key meanwhile.           *)
ValReadOk(t) ==
  val[idx[t]] # cur[t] /\ Present(idx[t], call[t].key) => SeenAbsent(t)

(* Then the slot was valid; it may be freed, claimed and filled again.     *)
MapReadOk(t) ==
  LET i == idx[t]
      same == val[i] = cur[t]
      match == key[i] = call[t].key
  IN  /\ same /\ match => cur[t] \in seen[t]
      /\ same /\ match /\ word.map[i] # VALID => SeenAbsent(t)
      /\ ~same /\ (match \/ At(t, "search_again")) => SeenAbsent(t)
      /\ same /\ At(t, "search_again") => match
      /\ \A u \in Threads : Holds(u, i) =>
           /\ call[u].key = call[t].key => SeenAbsent(t)
           /\ same => At(u, "write_val")

(* The snapshot of a remove that nothing has been committed since.         *)
Unchanged(t) ==
  snap[t].version = word.version /\ word.map[idx[t]] = VALID
RemoveAhead(t) ==
  SeenAbsent(t) \/ \E j \in Slots :
    j >= idx[t] /\ snap[t].map[j] = VALID /\ Present(j, call[t].key)
RemoveOk(t) ==
  /\ pc[t] \in {"rem_val", "rem_cas"} /\ Unchanged(t) => key[idx[t]] = call[t].key
  /\ At(t, "rem_cas") /\ Unchanged(t) => val[idx[t]] = cur[t]

CallOk(t) ==
  /\ ObservedOk(t)
  /\ pc[t] \in Search => Ahead(t)
  /\ At(t, "search_map") => ValReadOk(t)
  /\ pc[t] \in {"search_key", "search_again"} => MapReadOk(t)
  /\ At(t, "release") => \E v \in seen[t] : v # NoVal
  /\ pc[t] \in Removing => RemoveAhead(t) /\ RemoveOk(t)

ValuesInv == ValuesBound /\ \A t \in Threads : FreshValue(t)
CallsInv == \A t \in Threads : CallOk(t)
RInv == IInv /\ ValuesInv /\ CallsInv

-----------------------------------------------------------------------------
(* The map that a bucket stands for.                                       *)

StoreFacts ==
  \A k \in Keys :
    /\ \A i \in Slots : Present(i, k) => Store[k] = val[i] /\ Store[k] # NoVal
    /\ (\A i \in Slots : ~Present(i, k)) => Store[k] = NoVal

LEMMA StoreIs == IInv => StoreFacts
<1> SUFFICES ASSUME IInv, NEW k \in Keys
             PROVE  /\ \A i \in Slots : Present(i, k) =>
                         Store[k] = val[i] /\ Store[k] # NoVal
                    /\ (\A i \in Slots : ~Present(i, k)) => Store[k] = NoVal
  BY DEF StoreFacts
<1>1. Entry(k) = {i \in Slots : Present(i, k)}
  BY DEF Entry, Present
<1>2. ASSUME NEW i \in Slots, Present(i, k)
      PROVE  Store[k] = val[i] /\ Store[k] # NoVal
  <2> DEFINE j == CHOOSE n \in Entry(k) : TRUE
  <2>1. j \in Entry(k)
    BY <1>1, <1>2
  <2>2. j = i
    BY <1>1, <1>2, <2>1 DEF IInv, NoDuplicateKeys, Present
  <2>3. Store[k] = val[j]
    BY <2>1 DEF Store
  <2>4. val[i] # NoVal
    BY <1>2 DEF IInv, HoldInv, Present
  <2> QED BY <2>2, <2>3, <2>4
<1>3. (\A i \in Slots : ~Present(i, k)) => Store[k] = NoVal
  BY <1>1 DEF Store
<1> QED BY <1>2, <1>3

(* A put that may still commit has found its key absent.                   *)
LEMMA FoundAbsent ==
  ASSUME IInv, NEW t \in Threads, Claims(t) \/ Commits(t)
  PROVE  /\ call[t].key \in Keys /\ call[t].op = "put"
         /\ \A i \in Slots : ~Present(i, call[t].key)
<1>1. t \in Pending /\ Working(t) /\ SnapshotOk(t)
  BY DEF Claims, Claim, Commits, Commit, At, Pending, Working, IInv, ControlInv,
         Control, Claimed, SnapshotInv
<1>2. Fresh(t)
  <2>1. CASE Claims(t)
    BY <1>1, <2>1 DEF Claims, Fresh
  <2>2. CASE Commits(t)
    <3>1. /\ slot[t] \in Slots /\ snap[t].version = word.version
          /\ word.map = [snap[t].map EXCEPT ![slot[t]] = INSRT]
      BY <2>2, WordStep DEF IInv
    <3>2. snap[t].map[slot[t]] # VALID
      BY <1>1, <3>1 DEF SnapshotOk, Slots
    <3>3. snap[t].map \in [Slots -> MapState]
      BY DEF IInv, TypeOK, Snapshots
    <3> QED BY <1>1, <3>1, <3>2, <3>3 DEF Fresh
  <2> QED BY <2>1, <2>2
<1>3. \A i \in Slots : word.map[i] = VALID => key[i] # call[t].key
  BY <1>1, <1>2
  DEF IInv, SearchInv, SearchOk, Searched, Claims, Claim, Commits, Commit, At
<1>4. call[t].key \in Keys /\ call[t].op = "put"
  BY <1>1, CallTypes DEF Pending, IInv, TypeOK
<1> QED BY <1>3, <1>4 DEF Present

(* A remove that frees its slot has the key and the value of the slot.     *)
LEMMA FoundPresent ==
  ASSUME IInv, NEW t \in Threads, RemoveOk(t), Removes(t)
  PROVE  /\ call[t].key \in Keys /\ call[t].op = "remove"
         /\ idx[t] \in Slots /\ Present(idx[t], call[t].key)
         /\ val[idx[t]] = cur[t]
<1>1. word.map[idx[t]] = VALID /\ idx[t] \in Slots
  BY WordStep DEF IInv, TypeOK
<1>2. Unchanged(t)
  BY <1>1 DEF Removes, RemoveCas, Unchanged
<1>3. key[idx[t]] = call[t].key /\ val[idx[t]] = cur[t]
  BY <1>2 DEF Removes, RemoveCas, RemoveOk, At
<1>4. call[t].op = "remove"
  BY DEF Removes, RemoveCas, IInv, ControlInv, Control, Removing, At
<1>5. call[t].key \in Keys
  BY <1>4, CallTypes DEF IInv, TypeOK
<1> QED BY <1>1, <1>3, <1>4, <1>5 DEF Present

-----------------------------------------------------------------------------
(* What a step makes of one slot.                                          *)

SlotKept(i) ==
  /\ word'.map[i] = word.map[i] /\ val'[i] = val[i] /\ key'[i] = key[i]
  /\ \A u \in Threads :
       /\ Holds(u, i)' <=> Holds(u, i)
       /\ Holds(u, i) => /\ call'[u].key = call[u].key
                         /\ At(u, "write_val")' <=> At(u, "write_val")

FillsSlot(t, i) ==
  /\ slot[t] = i
  /\ Claims(t) \/ WriteVal(t) \/ WriteKey(t) \/ Commits(t) \/ Release(t)

LEMMA SlotStep ==
  ASSUME IInv, NEW t \in Threads, Step(t), NEW i \in Slots
  PROVE  SlotKept(i) \/ FillsSlot(t, i) \/ (Removes(t) /\ idx[t] = i)
<1>1. ASSUME NEW u \in Threads, u # t
      PROVE  /\ Holds(u, i)' <=> Holds(u, i)
             /\ call'[u].key = call[u].key
             /\ At(u, "write_val")' <=> At(u, "write_val")
  BY <1>1, StepOthers DEF OthersUnchanged, Holds, At, IInv
<1>2. word.map \in [Slots -> MapState]
  BY DEF IInv, TypeOK, Snapshots
<1>3. CASE Quiet(t)
  <2>1. UNCHANGED <<word, key, val>>
    BY <1>3, QuietBucket DEF bucket
  <2>2. KeepsSlot(t)
    BY <1>3, QuietKeeps DEF IInv
  <2> QED BY <1>1, <2>1, <2>2 DEF SlotKept, KeepsSlot, At
<1>4. CASE /\ slot[t] # i
           /\ Claims(t) \/ WriteVal(t) \/ WriteKey(t) \/ Commits(t) \/ Release(t)
  <2>1. slot[t] \in Slots /\ slot[t] # i
    BY <1>4, WordStep
    DEF IInv, ControlInv, Control, Claimed, WriteVal, WriteKey, At, TypeOK
  <2>2. word'.map[i] = word.map[i]
    BY <1>2, <1>4, <2>1, WordStep DEF IInv, WriteVal, WriteKey
  <2>3. val'[i] = val[i] /\ key'[i] = key[i]
    BY <1>4, <2>1
    DEF Claims, Claim, WriteVal, WriteKey, Commits, Commit, Release, IInv, TypeOK
  <2>4. ~Holds(t, i)
    BY <2>1 DEF Holds
  <2>5. ~Holds(t, i)'
    BY <1>4, <2>1
    DEF Claims, Claim, WriteVal, WriteKey, Commits, Commit, Release, IInv, TypeOK,
        Continue, Return, locals, Holds, Slots
  <2> QED BY <1>1, <2>2, <2>3, <2>4, <2>5 DEF SlotKept
<1>5. CASE Removes(t) /\ idx[t] # i
  <2>1. word'.map[i] = word.map[i]
    BY <1>2, <1>5, WordStep DEF IInv
  <2>2. UNCHANGED <<key, val>>
    BY <1>5 DEF Removes, RemoveCas
  <2>3. slot[t] = 0
    BY <1>5
    DEF Removes, RemoveCas, IInv, ControlInv, Control, Removing, At
  <2>4. ~Holds(t, i) /\ ~Holds(t, i)'
    BY <1>5, <2>3 DEF Removes, RemoveCas, Return, Holds, IInv, TypeOK, Slots
  <2> QED BY <1>1, <2>1, <2>2, <2>4 DEF SlotKept
<1> QED BY <1>3, <1>4, <1>5, StepKinds DEF FillsSlot

-----------------------------------------------------------------------------
(* What a step makes of the map: only a commit and a remove change it.     *)

StoreTyped == Store \in [Keys -> Vals \cup {NoVal}]

LEMMA StoreTypes == IInv => StoreTyped /\ StoreFacts
BY StoreType, StoreIs DEF IInv, StoreTyped

LEMMA InvStep ==
  ASSUME IInv, NEW t \in Threads, Step(t)
  PROVE  IInv' /\ StoreTyped' /\ StoreFacts'
<1>1. IInv'
  BY NextInv DEF Next
<1>2. (IInv => StoreTyped /\ StoreFacts)'
  BY StoreTypes, PTL
<1> QED BY <1>1, <1>2

LEMMA StoreKept ==
  ASSUME StoreFacts, StoreFacts', NEW k \in Keys,
         \A i \in Slots : Present(i, k)' <=> Present(i, k),
         \A i \in Slots : Present(i, k) => val'[i] = val[i]
  PROVE  Store'[k] = Store[k]
<1>1. CASE \E i \in Slots : Present(i, k)
  <2>1. PICK i \in Slots : Present(i, k)
    BY <1>1
  <2>2. Store[k] = val[i] /\ Store'[k] = val'[i]
    BY <2>1 DEF StoreFacts
  <2> QED BY <2>1, <2>2
<1>2. CASE \A i \in Slots : ~Present(i, k)
  BY <1>2 DEF StoreFacts
<1> QED BY <1>1, <1>2

(* The key of t is mapped to v, and no other key is mapped anew.           *)
StoreSet(t, v) ==
  /\ Store'[call[t].key] = v
  /\ \A k \in Keys \ {call[t].key} : Store'[k] = Store[k]

LEMMA StoreStep ==
  ASSUME IInv, NEW t \in Threads, RemoveOk(t), Step(t)
  PROVE  /\ ~Commits(t) /\ ~Removes(t) => Store' = Store
         /\ Commits(t) => /\ Store[call[t].key] = NoVal
                          /\ StoreSet(t, call[t].val)
         /\ Removes(t) => /\ Store[call[t].key] = cur[t] /\ cur[t] # NoVal
                          /\ StoreSet(t, NoVal)
<1>1. /\ StoreTyped /\ StoreFacts /\ StoreTyped' /\ StoreFacts'
  BY StoreTypes, InvStep
<1>2. word.map \in [Slots -> MapState]
  BY DEF IInv, TypeOK, Snapshots
<1>3. ASSUME ~Commits(t), ~Removes(t) PROVE Store' = Store
  <2>1. ASSUME NEW k \in Keys PROVE Store'[k] = Store[k]
    <3>1. \A i \in Slots : word'.map[i] = VALID <=> word.map[i] = VALID
      BY <1>3, ValidStep DEF IInv
    <3>2. \A i \in Slots : word.map[i] = VALID =>
            key'[i] = key[i] /\ val'[i] = val[i]
      BY StableStep DEF IInv
    <3> QED BY <1>1, <3>1, <3>2, StoreKept DEF Present
  <2> QED BY <1>1, <2>1 DEF StoreTyped
<1>4. ASSUME Commits(t)
      PROVE  Store[call[t].key] = NoVal /\ StoreSet(t, call[t].val)
  <2> DEFINE j == slot[t]
             k0 == call[t].key
  <2>1. /\ k0 \in Keys /\ \A i \in Slots : ~Present(i, k0)
    BY <1>4, FoundAbsent
  <2>2. /\ Holds(t, j) /\ j \in Slots /\ UNCHANGED <<key, val>>
        /\ word'.map = [word.map EXCEPT ![j] = VALID]
    BY <1>4, WordStep DEF IInv, Commits, Commit
  <2>3. key[j] = k0 /\ val[j] = call[t].val /\ word.map[j] = INSRT
    BY <1>4, <2>2 DEF IInv, HoldInv, Filled, Commits, Commit, At
  <2> HIDE DEF j, k0
  <2>4. \A i \in Slots \ {j} : word'.map[i] = word.map[i]
    BY <1>2, <2>2
  <2>5. Store[k0] = NoVal
    BY <1>1, <2>1 DEF StoreFacts
  <2>6. Store'[k0] = call[t].val
    <3>1. word'.map[j] = VALID /\ key'[j] = k0 /\ val'[j] = val[j]
      BY <1>2, <2>2, <2>3
    <3> QED BY <1>1, <2>1, <2>2, <2>3, <3>1 DEF StoreFacts, Present
  <2>7. ASSUME NEW k \in Keys \ {k0} PROVE Store'[k] = Store[k]
    <3>1. \A i \in Slots : Present(i, k)' <=> Present(i, k)
      BY <2>2, <2>3, <2>4 DEF Present, INSRT, VALID
    <3> QED BY <1>1, <2>2, <3>1, StoreKept
  <2> QED BY <2>5, <2>6, <2>7 DEF StoreSet, k0
<1>5. ASSUME Removes(t)
      PROVE  /\ Store[call[t].key] = cur[t] /\ cur[t] # NoVal
             /\ StoreSet(t, NoVal)
  <2> DEFINE j == idx[t]
             k0 == call[t].key
  <2>1. k0 \in Keys /\ j \in Slots /\ Present(j, k0) /\ val[j] = cur[t]
    BY <1>5, FoundPresent
  <2>2. /\ UNCHANGED <<key, val>>
        /\ word'.map = [word.map EXCEPT ![j] = INVLD]
    BY <1>5, WordStep DEF IInv, Removes, RemoveCas
  <2>3. \A i \in Slots : Present(i, k0) => i = j
    BY <2>1 DEF Present, IInv, NoDuplicateKeys
  <2> HIDE DEF j, k0
  <2>4. /\ \A i \in Slots \ {j} : word'.map[i] = word.map[i]
        /\ word'.map[j] # VALID
    BY <1>2, <2>1, <2>2 DEF INVLD, VALID
  <2>5. Store[k0] = cur[t] /\ cur[t] # NoVal
    BY <1>1, <2>1 DEF StoreFacts
  <2>6. Store'[k0] = NoVal
    <3>1. \A i \in Slots : ~(word'.map[i] = VALID /\ key'[i] = k0)
      BY <2>2, <2>3, <2>4 DEF Present
    <3> QED BY <1>1, <2>1, <3>1 DEF StoreFacts, Present
  <2>7. ASSUME NEW k \in Keys \ {k0} PROVE Store'[k] = Store[k]
    <3>1. \A i \in Slots : Present(i, k)' <=> Present(i, k)
      BY <2>1, <2>2, <2>4 DEF Present
    <3> QED BY <1>1, <2>2, <3>1, StoreKept
  <2> QED BY <2>5, <2>6, <2>7 DEF StoreSet, k0
<1> QED BY <1>3, <1>4, <1>5

-----------------------------------------------------------------------------
(* The values of the puts are all different.                               *)

(* A step of a call goes on with it or ends it.                            *)
Proceeds(t) ==
  /\ \/ call'[t] = call[t]
     \/ call'[t] = Idle
  /\ cur'[t] \in {cur[t], NoVal, val[idx[t]]}

LEMMA SearchProceeds ==
  ASSUME TypeOK, NEW t \in Threads, NEW r, SearchDone(t, r) \/ SearchNext(t)
  PROVE  Proceeds(t)
<1> USE DEF Proceeds, Return, Retry, Continue, locals, TypeOK
<1>1. ASSUME NEW x, SearchDone(t, x) PROVE Proceeds(t)
  <2>1. CASE TakeSlot(t)
    BY <2>1 DEF TakeSlot
  <2>2. CASE ~TakeSlot(t)
    BY <1>1, <2>2 DEF SearchDone
  <2> QED BY <2>1, <2>2
<1>2. CASE SearchNext(t) /\ idx[t] # Entries
  BY <1>2 DEF SearchNext
<1> QED BY <1>1, <1>2 DEF SearchNext

LEMMA CallEffect ==
  ASSUME TypeOK, NEW t \in Threads, Step(t)
  PROVE  \/ Proceeds(t) /\ puts' = puts
         \/ /\ puts' = puts /\ cur'[t] = cur[t]
            /\ call'[t].op # "put" /\ call'[t].val = NoVal
         \/ /\ puts' = puts + 1 /\ cur'[t] = cur[t]
            /\ call'[t].op = "put" /\ call'[t].val = NewVal
<1> USE DEF TypeOK
<1>1. CASE Call(t)
  BY <1>1 DEF Call, Get, Put, Remove, locals
<1>2. CASE ReadSnapshot(t) \/ SearchVal(t) \/ RemoveVal(t)
  BY <1>2 DEF ReadSnapshot, SearchVal, RemoveVal, Proceeds
<1>3. CASE SearchMap(t) \/ SearchKey(t) \/ SearchAgain(t)
  <2>1. puts' = puts
    BY <1>3 DEF SearchMap, SearchKey, SearchAgain
  <2>2. CASE \E l : Continue(t, l)
    BY <2>1, <2>2 DEF Continue, locals, Proceeds
  <2>3. CASE \E r : SearchDone(t, r) \/ SearchNext(t)
    BY <2>1, <2>3, SearchProceeds
  <2> QED BY <1>3, <2>2, <2>3 DEF SearchMap, SearchKey, SearchAgain
<1>4. CASE Claim(t) \/ WriteVal(t) \/ WriteKey(t) \/ Commit(t) \/ Release(t)
  BY <1>4
  DEF Claim, WriteVal, WriteKey, Commit, Release, Return, Retry, Continue,
      locals, Proceeds
<1>5. CASE RemoveKey(t) \/ RemoveCas(t)
  BY <1>5
  DEF RemoveKey, RemoveNext, RemoveCas, Return, Retry, Continue, locals, Proceeds
<1> QED
  BY <1>1, <1>2, <1>3, <1>4, <1>5 DEF Step, Work

(* Once its value is written, a put does not write it again.               *)
LEMMA WrittenOnce ==
  ASSUME IInv, NEW t \in Threads, Step(t), Unwritten(t)', puts' = puts
  PROVE  Unwritten(t) /\ call'[t] = call[t] /\ val' = val
<1>1. call'[t] = call[t] /\ call[t].op = "put"
  <2>1. Idle.op # "put"
    BY DEF Idle
  <2> QED BY <2>1, CallEffect DEF Proceeds, Unwritten, IInv, TypeOK
<1>2. ~WriteVal(t)
  <2> SUFFICES ASSUME WriteVal(t) PROVE FALSE
    OBVIOUS
  <2>1. slot[t] # 0
    BY DEF WriteVal, IInv, ControlInv, Control, Claimed, At
  <2>2. pc'[t] = "write_key" /\ slot'[t] = slot[t]
    BY DEF WriteVal, Continue, Goto, locals, IInv, TypeOK
  <2> QED BY <2>1, <2>2 DEF Unwritten
<1>3. ASSUME slot[t] # 0, pc[t] \notin {"claim", "write_val"} PROVE FALSE
  <2>1. slot[t] \in Slots /\ Holds(t, slot[t])
    BY <1>3 DEF IInv, TypeOK, Holds, At
  <2>2. CASE Quiet(t)
    <3>1. KeepsSlot(t)
      BY <2>2, QuietKeeps DEF IInv
    <3> DEFINE i == slot[t]
    <3>2. Holds(t, i) /\ i \in Slots
      BY <2>1
    <3> HIDE DEF i
    <3>3. slot'[t] = i /\ pc'[t] \notin {"claim", "write_val"}
      BY <3>1, <3>2 DEF KeepsSlot, Holds, At
    <3> QED BY <3>2, <3>3 DEF Unwritten, Slots
  <2>3. CASE WriteKey(t)
    BY <1>3, <2>3 DEF WriteKey, Continue, Goto, locals, IInv, TypeOK, Unwritten
  <2>4. CASE Commits(t) \/ Release(t) \/ Removes(t)
    <3>1. call'[t] = Idle
      BY <2>4 DEF Commits, Commit, Release, Removes, RemoveCas, Return, IInv, TypeOK
    <3> QED BY <1>1, <3>1 DEF Idle
  <2>5. ~Claims(t)
    BY <1>3 DEF Claims, Claim, At
  <2> QED BY <1>2, <2>2, <2>3, <2>4, <2>5, StepKinds
<1>4. val' = val
  BY <1>2, StepKinds, QuietBucket
  DEF bucket, Claims, Claim, WriteKey, Commits, Commit, Release, Removes, RemoveCas
<1> QED BY <1>1, <1>3, <1>4 DEF Unwritten

LEMMA ValuesStep ==
  ASSUME IInv, ValuesInv, DistinctVals, NEW t \in Threads, Step(t)
  PROVE  ValuesInv'
<1>0. /\ TypeOK /\ TypeOK' /\ puts \in Nat /\ puts' \in Nat
      /\ \A u \in Threads : call[u].val \in Nat /\ cur[u] \in Nat /\ idx[u] \in Slots
      /\ \A i \in Slots : val[i] \in Nat
  <2>1. TypeOK'
    BY InvStep DEF IInv
  <2>2. \A c \in Calls : c.val \in Nat
    BY DEF Calls, Idle, Vals, NoVal
  <2> QED BY <2>1, <2>2 DEF IInv, TypeOK, Vals, NoVal
<1>1. OthersUnchanged(t)
  BY <1>0, StepOthers
<1>2. NewVal = puts + 1
  BY DEF NewVal
<1>3. \/ val' = val
      \/ WriteVal(t) /\ call[t].op = "put"
         /\ \A i \in Slots : val'[i] \in {val[i], call[t].val}
  <2>1. WriteVal(t) => call[t].op = "put"
    BY DEF WriteVal, IInv, ControlInv, Control, Claimed, At
  <2> QED
    BY <1>0, <2>1, StepKinds, QuietBucket
    DEF bucket, Claims, Claim, WriteVal, WriteKey, Commits, Commit, Release,
        Removes, RemoveCas, TypeOK
<1>4. \/ /\ puts' = puts
         /\ \/ call'[t] = call[t]
            \/ call'[t].op # "put" /\ call'[t].val = NoVal
         /\ cur'[t] \in {cur[t], NoVal, val[idx[t]]}
      \/ /\ puts' = puts + 1 /\ cur'[t] = cur[t] /\ val' = val
         /\ call'[t].op = "put" /\ call'[t].val = puts + 1
  <2>1. ~WriteVal(t) => val' = val
    BY <1>3
  <2>2. WriteVal(t) => puts' = puts
    BY DEF WriteVal
  <2>3. Idle.op # "put" /\ Idle.val = NoVal
    BY DEF Idle
  <2>4. puts' # puts \/ puts' # puts + 1
    BY <1>0
  <2> QED BY <1>0, <1>2, <2>1, <2>2, <2>3, <2>4, CallEffect DEF Proceeds
<1>5. ValuesBound'
  <2>1. ValuesBound
    BY DEF ValuesInv
  <2>2. \A i \in Slots : val'[i] <= puts'
    BY <1>0, <1>3, <1>4, <2>1 DEF ValuesBound
  <2>3. \A u \in Threads : cur'[u] <= puts' /\ call'[u].val <= puts'
    <3>1. ASSUME NEW u \in Threads \ {t}
          PROVE  cur'[u] <= puts' /\ call'[u].val <= puts'
      BY <1>0, <1>1, <1>4, <2>1 DEF ValuesBound, OthersUnchanged
    <3>2. cur'[t] <= puts' /\ call'[t].val <= puts'
      BY <1>0, <1>4, <2>1 DEF ValuesBound, NoVal
    <3> QED BY <3>1, <3>2
  <2> QED BY <2>2, <2>3 DEF ValuesBound
<1>6. ASSUME NEW u \in Threads \ {t}, Unwritten(u)'
      PROVE  FreshValue(u)'
  <2>1. call'[u] = call[u] /\ slot'[u] = slot[u] /\ pc'[u] = pc[u]
        /\ cur'[u] = cur[u]
    BY <1>1 DEF OthersUnchanged
  <2>2. Unwritten(u) /\ FreshValue(u) /\ ValuesBound
    BY <1>6, <2>1 DEF Unwritten, ValuesInv
  <2>3. call[u].val \in Vals
    BY <1>0, <2>2, CallTypes DEF Unwritten, TypeOK
  <2>4. \A i \in Slots : val'[i] # call[u].val
    BY <1>3, <2>2 DEF FreshValue
  <2>5. \A w \in Threads : cur'[w] # call[u].val
    <3>1. cur'[t] # call[u].val
      BY <1>0, <1>4, <2>2, <2>3 DEF FreshValue, NoVal, Vals
    <3> QED BY <1>1, <2>2, <3>1 DEF FreshValue, OthersUnchanged
  <2>6. \A w \in Threads \ {u} : call'[w].op = "put" => call'[w].val # call[u].val
    <3>1. call'[t].op = "put" => call'[t].val # call[u].val
      BY <1>0, <1>4, <2>2 DEF FreshValue, ValuesBound
    <3> QED BY <1>1, <2>2, <3>1 DEF FreshValue, OthersUnchanged
  <2> QED BY <2>1, <2>4, <2>5, <2>6 DEF FreshValue
<1>7. ASSUME Unwritten(t)' PROVE FreshValue(t)'
  <2>1. CASE puts' = puts
    <3>1. Unwritten(t) /\ call'[t] = call[t] /\ val' = val
      BY <1>7, <2>1, WrittenOnce
    <3>2. FreshValue(t)
      BY DEF ValuesInv
    <3>3. call[t].val \in Vals
      BY <1>0, <3>1, CallTypes DEF Unwritten, TypeOK
    <3>4. cur'[t] # call[t].val
      BY <1>0, <1>4, <2>1, <3>1, <3>2, <3>3 DEF FreshValue, NoVal, Vals
    <3> QED BY <1>1, <3>1, <3>2, <3>4 DEF FreshValue, OthersUnchanged
  <2>2. CASE puts' # puts
    <3>1. call'[t].val = puts + 1 /\ val' = val /\ cur'[t] = cur[t]
      BY <1>4, <2>2
    <3>2. /\ \A i \in Slots : val'[i] <= puts
          /\ \A u \in Threads : cur'[u] <= puts
          /\ \A u \in Threads \ {t} : call'[u].val <= puts
      BY <1>1, <3>1 DEF ValuesInv, ValuesBound, OthersUnchanged
    <3> DEFINE v == call'[t].val
    <3>3. \A n : n <= puts => n # v
      BY <1>0, <3>1
    <3> QED BY <3>2, <3>3 DEF FreshValue
  <2> QED BY <2>1, <2>2
<1>8. \A u \in Threads : FreshValue(u)'
  BY <1>6, <1>7 DEF FreshValue
<1> QED BY <1>5, <1>8 DEF ValuesInv

-----------------------------------------------------------------------------
(* The step of one thread seen from the call of another.                   *)

LEMMA SeenStep ==
  ASSUME NEW t \in Threads, Step(t), NEW u \in Threads
  PROVE  /\ ObservedOk(u)'
         /\ call'[u] = call[u] /\ call[u] # Idle =>
              /\ \A v \in seen[u] : v \in seen'[u]
              /\ Store'[call[u].key] \in seen'[u]
              /\ SeenAbsent(u) => SeenAbsent(u)'
<1>1. seen' = [w \in Threads |-> IF call'[w] = Idle THEN {}
                                 ELSE seen[w] \cup {Store'[call'[w].key]}]
  BY DEF Step, Observe
<1>2. call'[u] = Idle => seen'[u] = {}
  BY <1>1
<1>3. call'[u] # Idle => seen'[u] = seen[u] \cup {Store'[call'[u].key]}
  BY <1>1
<1> QED BY <1>2, <1>3 DEF ObservedOk, SeenAbsent

(* A key that goes is seen absent then.                                    *)
LEMMA LostSeen ==
  ASSUME IInv, NEW t \in Threads, RemoveOk(t), Step(t),
         NEW u \in Threads, call[u] # Idle, call'[u] = call[u],
         NEW j \in Slots, Present(j, call[u].key)
  PROVE  \/ word'.map[j] = VALID /\ key'[j] = call[u].key
         \/ SeenAbsent(u)'
<1> SUFFICES ASSUME ~(word'.map[j] = VALID /\ key'[j] = call[u].key)
             PROVE  SeenAbsent(u)'
  OBVIOUS
<1>1. word.map[j] = VALID /\ key'[j] = key[j] /\ key[j] = call[u].key
  BY StableStep DEF Present, IInv
<1>2. word'.map[j] # VALID
  BY <1>1
<1>3. word.map \in [Slots -> MapState]
  BY DEF IInv, TypeOK, Snapshots
<1>4. Removes(t) /\ j = idx[t]
  <2>1. CASE ~Commits(t) /\ ~Removes(t)
    BY <1>1, <1>2, <2>1, ValidStep DEF IInv
  <2>2. CASE Commits(t)
    <3>1. slot[t] \in Slots /\ word'.map = [word.map EXCEPT ![slot[t]] = VALID]
      BY <2>2, WordStep DEF IInv
    <3> QED BY <1>1, <1>2, <1>3, <3>1
  <2>3. CASE Removes(t)
    <3>1. word'.map = [word.map EXCEPT ![idx[t]] = INVLD]
      BY <2>3, WordStep DEF IInv
    <3> QED BY <1>1, <1>2, <1>3, <2>3, <3>1
  <2> QED BY <2>1, <2>2, <2>3
<1>5. call[t].key = call[u].key
  BY <1>1, <1>4, FoundPresent DEF Present
<1>6. Store'[call[u].key] = NoVal
  BY <1>4, <1>5, StoreStep DEF StoreSet
<1> QED BY <1>6, SeenStep DEF SeenAbsent

(* A key that comes was absent before.                                     *)
LEMMA GainedSeen ==
  ASSUME IInv, NEW t \in Threads, RemoveOk(t), Step(t),
         NEW u \in Threads, call[u] # Idle, ObservedOk(u),
         NEW j \in Slots, ~Present(j, call[u].key),
         word'.map[j] = VALID, key'[j] = call[u].key
  PROVE  SeenAbsent(u)
<1>1. word.map[j] # VALID
  BY StableStep DEF Present, IInv
<1>2. Commits(t)
  BY <1>1, ValidStep DEF IInv
<1>3. word.map \in [Slots -> MapState]
  BY DEF IInv, TypeOK, Snapshots
<1>4. /\ slot[t] \in Slots /\ word'.map = [word.map EXCEPT ![slot[t]] = VALID]
      /\ Holds(t, slot[t])
  BY <1>2, WordStep DEF IInv
<1>5. slot[t] = j
  BY <1>1, <1>3, <1>4
<1>6. key[j] = call[t].key /\ key' = key
  BY <1>2, <1>4, <1>5 DEF IInv, HoldInv, Filled, Commits, Commit, At
<1>7. Store[call[u].key] = NoVal
  BY <1>2, <1>6, StoreStep
<1> QED BY <1>7 DEF ObservedOk, SeenAbsent

(* What a search has established of a slot stays true.                     *)
LEMMA MapReadStep ==
  ASSUME IInv, ValuesInv, NEW t \in Threads, RemoveOk(t), Step(t),
         NEW u \in Threads \ {t}, call[u] # Idle, ObservedOk(u), MapReadOk(u)
  PROVE  MapReadOk(u)'
<1>1. /\ pc'[u] = pc[u] /\ call'[u] = call[u] /\ idx'[u] = idx[u]
      /\ cur'[u] = cur[u]
  BY StepOthers DEF OthersUnchanged, IInv
<1> DEFINE i == idx[u]
           k == call[u].key
           grows == /\ \A v \in seen[u] : v \in seen'[u]
                    /\ SeenAbsent(u) => SeenAbsent(u)'
<1>2. grows
  BY <1>1, SeenStep
<1>3. i \in Slots /\ word.map \in [Slots -> MapState]
      /\ val \in [Slots -> Vals \cup {NoVal}] /\ key \in [Slots -> Keys \cup {NoKey}]
  BY DEF IInv, TypeOK, Snapshots
<1>4. CASE SlotKept(i)
  BY <1>1, <1>2, <1>4 DEF MapReadOk, SlotKept, At
<1>5. ASSUME NEW w \in Threads \ {t}
      PROVE  (Holds(w, i)' <=> Holds(w, i)) /\ call'[w] = call[w]
             /\ (At(w, "write_val")' <=> At(w, "write_val"))
  BY StepOthers DEF OthersUnchanged, Holds, At, IInv
<1>6. Holds(t, i) => /\ \A w \in Threads \ {t} : ~Holds(w, i)
                     /\ word.map[i] = INSRT
  BY <1>3 DEF IInv, HoldInv, Filled
<1>7. CASE slot[t] = i /\ Claims(t)
  <2>1. word.map[i] = INVLD /\ word'.map[i] = INSRT
    <3>1. word.map[i] = INVLD /\ word'.map = [word.map EXCEPT ![i] = INSRT]
      BY <1>7, WordStep DEF IInv
    <3> QED BY <1>3, <3>1
  <2>5. /\ UNCHANGED <<key, val>>
        /\ call'[t] = call[t] /\ pc'[t] = "write_val"
    BY <1>7 DEF IInv, TypeOK, Claims, Claim, Continue, Goto, locals
  <2>2. call[t].key = k => SeenAbsent(u)
    <3>1. call[t].key \in Keys /\ \A j \in Slots : ~Present(j, call[t].key)
      BY <1>7, FoundAbsent
    <3>2. Store[call[t].key] = NoVal
      BY <3>1, StoreTypes DEF StoreFacts
    <3> QED BY <3>2 DEF ObservedOk, SeenAbsent
  <2>3. \A w \in Threads : Holds(w, i)' =>
          /\ call'[w].key = k => SeenAbsent(u)'
          /\ val[i] = cur[u] => At(w, "write_val")'
    <3>1. ASSUME NEW w \in Threads \ {t}, Holds(w, i)'
          PROVE  /\ call'[w].key = k => SeenAbsent(u)'
                 /\ val[i] = cur[u] => At(w, "write_val")'
      BY <1>2, <1>5, <3>1 DEF MapReadOk
    <3>2. /\ call'[t].key = k => SeenAbsent(u)'
          /\ At(t, "write_val")'
      BY <1>2, <2>5, <2>2 DEF At
    <3> QED BY <3>1, <3>2
  <2>4. word.map[i] # VALID
    BY <2>1 DEF INVLD, VALID
  <2> QED BY <1>1, <1>2, <2>1, <2>3, <2>4, <2>5 DEF MapReadOk, At
<1>8. CASE slot[t] = i /\ WriteVal(t)
  <2>1. Holds(t, i) /\ call[t].op = "put" /\ Unwritten(t)
    BY <1>3, <1>8
    DEF WriteVal, Holds, At, IInv, ControlInv, Control, Claimed, Unwritten
  <2>2. /\ val'[i] = call[t].val /\ UNCHANGED <<word, key>>
        /\ call'[t] = call[t]
    BY <1>3, <1>8 DEF WriteVal, Continue, IInv, TypeOK
  <2>3. val'[i] # cur[u]
    BY <2>1, <2>2 DEF ValuesInv, FreshValue
  <2>4. key[i] = k \/ At(u, "search_again") => SeenAbsent(u)
    <3>1. word.map[i] # VALID
      BY <1>6, <2>1 DEF INSRT, VALID
    <3> QED BY <3>1 DEF MapReadOk
  <2>5. \A w \in Threads : Holds(w, i)' => (call'[w].key = k => SeenAbsent(u)')
    BY <1>2, <1>5, <2>1, <2>2 DEF MapReadOk
  <2> QED BY <1>1, <1>2, <2>2, <2>3, <2>4, <2>5 DEF MapReadOk, At
<1>9. CASE slot[t] = i /\ WriteKey(t)
  <2>1. Holds(t, i) /\ ~At(t, "write_val")
    BY <1>3, <1>9 DEF WriteKey, Holds, At
  <2>2. /\ key'[i] = call[t].key /\ UNCHANGED <<word, val>>
        /\ call'[t] = call[t]
    BY <1>3, <1>9 DEF WriteKey, Continue, IInv, TypeOK
  <2>3. val[i] # cur[u] /\ (call[t].key = k => SeenAbsent(u))
    BY <2>1 DEF MapReadOk
  <2>4. \A w \in Threads : Holds(w, i)' => (call'[w].key = k => SeenAbsent(u)')
    BY <1>2, <1>5, <2>1, <2>2 DEF MapReadOk
  <2>5. At(u, "search_again") => SeenAbsent(u)
    BY <2>3 DEF MapReadOk
  <2> QED BY <1>1, <1>2, <2>2, <2>3, <2>4, <2>5 DEF MapReadOk, At
<1>10. CASE slot[t] = i /\ (Commits(t) \/ Release(t))
  <2>1. /\ Holds(t, i) /\ ~At(t, "write_val") /\ UNCHANGED <<key, val>>
    BY <1>3, <1>10 DEF Commits, Commit, Release, Holds, At
  <2>2. val[i] # cur[u]
    BY <2>1 DEF MapReadOk
  <2>3. ~Holds(t, i)'
    BY <1>3, <1>10
    DEF Commits, Commit, Release, Return, Holds, IInv, TypeOK, Slots
  <2>4. \A w \in Threads : ~Holds(w, i)'
    BY <1>5, <1>6, <2>1, <2>3
  <2> QED BY <1>1, <1>2, <2>1, <2>2, <2>4 DEF MapReadOk, At
<1>11. CASE Removes(t) /\ idx[t] = i
  <2>1. /\ word.map[i] = VALID /\ UNCHANGED <<key, val>>
    BY <1>11, WordStep DEF Removes, RemoveCas, IInv
  <2>2. word'.map[i] # VALID
    <3>1. word'.map = [word.map EXCEPT ![i] = INVLD]
      BY <1>11, WordStep DEF IInv
    <3> QED BY <1>3, <3>1 DEF INVLD, VALID
  <2>3. \A w \in Threads : ~Holds(w, i)
    BY <1>3, <2>1 DEF IInv, HoldInv, Filled, INSRT, VALID
  <2>4. ~Holds(t, i)'
    <3>1. slot'[t] = 0
      BY <1>11 DEF Removes, RemoveCas, Return, IInv, TypeOK
    <3>2. idx'[u] \in Slots
      BY <1>1, <1>3
    <3> QED BY <3>1, <3>2 DEF Holds, Slots
  <2>5. key[i] = k => SeenAbsent(u)'
    <3> SUFFICES ASSUME key[i] = k PROVE SeenAbsent(u)'
      OBVIOUS
    <3>1. i \in Slots /\ Present(i, call[u].key)
      BY <1>3, <2>1 DEF Present
    <3>2. \/ word'.map[i] = VALID /\ key'[i] = call[u].key
          \/ SeenAbsent(u)'
      <4> HIDE DEF i
      <4> QED BY <1>1, <3>1, LostSeen
    <3> QED BY <2>2, <3>2
  <2> QED BY <1>1, <1>2, <1>5, <2>1, <2>3, <2>4, <2>5 DEF MapReadOk, At
<1>12. SlotKept(i) \/ FillsSlot(t, i) \/ (Removes(t) /\ idx[t] = i)
  BY <1>3, SlotStep
<1> QED
  BY <1>4, <1>7, <1>8, <1>9, <1>10, <1>11, <1>12 DEF FillsSlot

(* The key that a search or a remove has still to reach, or has missed.    *)
LEMMA AheadStep ==
  ASSUME IInv, NEW t \in Threads, RemoveOk(t), Step(t),
         NEW u \in Threads \ {t}, call[u] # Idle
  PROVE  /\ Ahead(u) => Ahead(u)'
         /\ RemoveAhead(u) => RemoveAhead(u)'
<1>1. /\ call'[u] = call[u] /\ idx'[u] = idx[u] /\ snap'[u] = snap[u]
  BY StepOthers DEF OthersUnchanged, IInv
<1>2. SeenAbsent(u) => SeenAbsent(u)'
  BY <1>1, SeenStep
<1>3. ASSUME NEW j \in Slots, Present(j, call[u].key)
      PROVE  \/ word'.map[j] = VALID /\ key'[j] = call[u].key
             \/ SeenAbsent(u)'
  BY <1>1, <1>3, LostSeen
<1> QED BY <1>1, <1>2, <1>3 DEF Ahead, RemoveAhead, Present

(* What a remove has read of its slot holds while nothing is committed.    *)
LEMMA UnchangedStep ==
  ASSUME IInv, NEW t \in Threads, Step(t),
         NEW u \in Threads \ {t}, pc[u] \in Removing, RemoveOk(u)
  PROVE  RemoveOk(u)'
<1> USE DEF IInv
<1>1. /\ pc'[u] = pc[u] /\ call'[u] = call[u] /\ idx'[u] = idx[u]
      /\ snap'[u] = snap[u] /\ cur'[u] = cur[u] /\ idx[u] \in Slots
  BY StepOthers DEF OthersUnchanged, TypeOK
<1>2. ASSUME Unchanged(u)'
      PROVE  /\ Unchanged(u)
             /\ key'[idx[u]] = key[idx[u]] /\ val'[idx[u]] = val[idx[u]]
  <2>1. snap[u].version <= word.version
    BY DEF SnapshotInv, SnapshotOk, Working, ControlInv, Control, Removing
  <2>2. snap[u].version = word'.version /\ word'.map[idx[u]] = VALID
    BY <1>1, <1>2 DEF Unchanged
  <2>3. word.version \in Nat /\ snap[u].version \in Nat
    BY DEF TypeOK, Snapshots
  <2>4. ~Commits(t) /\ word'.version = word.version
    BY <2>1, <2>2, <2>3, ValidStep, VersionStep
  <2>5. word.map[idx[u]] = VALID
    BY <1>1, <2>2, <2>4, ValidStep
  <2> QED BY <1>1, <2>2, <2>4, <2>5, StableStep DEF Unchanged
<1> QED BY <1>1, <1>2 DEF RemoveOk, At

LEMMA OtherStep ==
  ASSUME RInv, NEW t \in Threads, Step(t), NEW u \in Threads \ {t}
  PROVE  CallOk(u)'
<1> USE DEF RInv
<1>0. CallOk(u) /\ RemoveOk(t)
  <2>1. pc[t] \notin {"rem_val", "rem_cas"} => RemoveOk(t)
    BY DEF RemoveOk, At
  <2> QED BY <2>1 DEF CallsInv, CallOk, Removing
<1>1. /\ pc'[u] = pc[u] /\ call'[u] = call[u] /\ idx'[u] = idx[u]
      /\ cur'[u] = cur[u] /\ idx[u] \in Slots
  BY StepOthers DEF OthersUnchanged, IInv, TypeOK
<1>2. ObservedOk(u)'
  BY SeenStep
<1>3. pc[u] # "idle" => call[u] # Idle
  BY CallTypes DEF IInv, ControlInv, Control, At
<1>4. pc'[u] \in Search => Ahead(u)'
  BY <1>0, <1>1, <1>3, AheadStep DEF CallOk, Search
<1>5. At(u, "search_map")' => ValReadOk(u)'
  <2> SUFFICES ASSUME pc[u] = "search_map", val'[idx[u]] # cur[u],
                      word'.map[idx[u]] = VALID, key'[idx[u]] = call[u].key
               PROVE  SeenAbsent(u)'
    BY <1>1 DEF At, ValReadOk, Present
  <2>1. SeenAbsent(u) => SeenAbsent(u)'
    BY <1>1, <1>3, SeenStep
  <2>2. CASE Present(idx[u], call[u].key)
    <3>1. val'[idx[u]] = val[idx[u]]
      BY <1>1, <2>2, StableStep DEF Present, IInv
    <3> QED BY <1>0, <2>1, <2>2, <3>1 DEF CallOk, ValReadOk, At
  <2>3. CASE ~Present(idx[u], call[u].key)
    <3>1. ObservedOk(u)
      BY <1>0 DEF CallOk
    <3> QED BY <1>0, <1>1, <1>3, <2>1, <2>3, <3>1, GainedSeen
  <2> QED BY <2>2, <2>3
<1>6. pc'[u] \in {"search_key", "search_again"} => MapReadOk(u)'
  BY <1>0, <1>1, <1>3, MapReadStep DEF CallOk
<1>7. At(u, "release")' => \E v \in seen'[u] : v # NoVal
  BY <1>0, <1>1, <1>3, SeenStep DEF CallOk, At
<1>8. pc'[u] \in Removing => RemoveAhead(u)' /\ RemoveOk(u)'
  BY <1>0, <1>1, <1>3, AheadStep, UnchangedStep DEF CallOk, Removing
<1> QED BY <1>2, <1>4, <1>5, <1>6, <1>7, <1>8 DEF CallOk, Search, Removing, At

-----------------------------------------------------------------------------
(* The step of a thread and its own call.                                  *)

(* t returns an answer that held at some moment of its call.               *)
Answers(t) ==
  \E v \in seen[t] :
    \/ call[t].op = "get" /\ Return(t, v)
    \/ call[t].op = "put" /\ v # NoVal /\ Return(t, 0)
    \/ call[t].op = "remove" /\ v = NoVal /\ Return(t, 0)

(* The call of t goes on, or returns an answer that can be explained.      *)
Explained(t) == UNCHANGED <<call, ret>> \/ Answers(t)

(* A search that begins has the key ahead, or has seen it absent.          *)
Begins(t) ==
  TypeOK /\ StoreFacts /\ ObservedOk(t) /\ call[t] # Idle /\ idx[t] = 1

BeginsAhead == \A t \in Threads : Begins(t) => Ahead(t)

LEMMA AheadStart == BeginsAhead
<1> SUFFICES ASSUME NEW t \in Threads, Begins(t), ~SeenAbsent(t)
             PROVE  \E j \in Slots : j >= idx[t] /\ Present(j, call[t].key)
  BY DEF BeginsAhead, Ahead
<1>1. call[t].key \in Keys /\ Store[call[t].key] # NoVal
  BY CallTypes DEF Begins, TypeOK, ObservedOk, SeenAbsent
<1>2. PICK j \in Slots : Present(j, call[t].key)
  BY <1>1 DEF Begins, StoreFacts
<1> QED BY <1>2 DEF Begins, Slots

LEMMA SearchEnds ==
  ASSUME TypeOK, NEW t \in Threads, NEW r \in seen[t], SearchDone(t, r)
  PROVE  /\ Explained(t)
         /\ \/ pc'[t] \in {"idle", "snapshot", "claim", "commit"}
            \/ pc'[t] = "release" /\ r # NoVal
<1> USE DEF Explained, Answers, TypeOK, Goto
<1>1. CASE TakeSlot(t)
  BY <1>1 DEF TakeSlot, Retry
<1>2. CASE ~TakeSlot(t) /\ Return(t, r) /\ call[t].op = "get"
  BY <1>2 DEF Return
<1>3. CASE ~TakeSlot(t) /\ Return(t, 0) /\ call[t].op = "put" /\ r # NoVal
  BY <1>3 DEF Return
<1>4. CASE \/ Continue(t, "commit")
           \/ r # NoVal /\ Continue(t, "release")
  BY <1>4 DEF Continue
<1> QED BY <1>1, <1>2, <1>3, <1>4 DEF SearchDone

(* A search leaves a slot behind that does not have its key.               *)
LEMMA SearchPasses ==
  ASSUME IInv, NEW t \in Threads, Step(t), SearchNext(t), UNCHANGED bucket,
         Ahead(t), call[t] # Idle, ~Present(idx[t], call[t].key)
  PROVE  Explained(t) /\ CallOk(t)'
<1>0. ObservedOk(t)' /\ TypeOK
  BY SeenStep DEF IInv
<1> USE DEF CallOk, Search, Removing, At
<1>1. CASE idx[t] = Entries
  <2>1. NoVal \in seen[t]
    <3>1. \A j \in Slots : j >= idx[t] => j = idx[t]
      BY <1>1, BucketAssumption DEF Slots
    <3> QED BY <3>1 DEF Ahead, SeenAbsent
  <2>2. SearchDone(t, NoVal)
    BY <1>1 DEF SearchNext
  <2> QED BY <1>0, <2>1, <2>2, SearchEnds
<1>2. CASE idx[t] # Entries
  <2>1. /\ UNCHANGED <<call, ret>> /\ pc'[t] = "search_val"
        /\ idx'[t] = idx[t] + 1
    BY <1>0, <1>2 DEF SearchNext, Goto, TypeOK
  <2>2. SeenAbsent(t) => SeenAbsent(t)'
    BY <2>1, SeenStep
  <2>3. \A j \in Slots : j >= idx[t] /\ j # idx[t] => j >= idx[t] + 1
    BY <1>0 DEF TypeOK, Slots
  <2>4. Ahead(t)'
    BY <2>1, <2>2, <2>3 DEF Ahead, Present, bucket
  <2> QED BY <1>0, <2>1, <2>4 DEF Explained
<1> QED BY <1>1, <1>2

(* A slot that is valid and stays so holds what the call observes.         *)
LEMMA ReadsMap ==
  ASSUME IInv, NEW t \in Threads, Step(t), SearchMap(t),
         word.map[idx[t]] = VALID, call[t] # Idle, ObservedOk(t), ValReadOk(t)
  PROVE  MapReadOk(t)'
<1> DEFINE i == idx[t]
<1>0. i \in Slots /\ TypeOK /\ call[t].key \in Keys
  BY CallTypes DEF IInv, TypeOK
<1>1. /\ UNCHANGED <<word, key, val, call, idx, cur>> /\ pc'[t] = "search_key"
  BY <1>0 DEF SearchMap, Continue, locals, Goto, bucket, TypeOK
<1>2. \A v \in seen[t] : v \in seen'[t]
  BY <1>1, SeenStep
<1>3. val[i] = cur[t] /\ key[i] = call[t].key => cur[t] \in seen'[t]
  <2> SUFFICES ASSUME val[i] = cur[t], key[i] = call[t].key
               PROVE  cur[t] \in seen[t]
    BY <1>2
  <2>1. Store[call[t].key] = val[i]
    BY <1>0, StoreTypes DEF StoreFacts, Present
  <2> QED BY <2>1 DEF ObservedOk
<1>4. val[i] # cur[t] /\ key[i] = call[t].key => SeenAbsent(t)'
  BY <1>2 DEF ValReadOk, Present, SeenAbsent
<1>5. \A u \in Threads : ~(slot'[u] = i /\ ~At(u, "claim")')
  <2>1. \A u \in Threads : slot'[u] = i /\ ~At(u, "claim")' => word'.map[i] = INSRT
    <3>1. HoldInv'
      BY InvStep DEF IInv
    <3> HIDE DEF i
    <3> QED BY <1>0, <3>1 DEF HoldInv, Holds, Filled
  <2> QED BY <1>1, <2>1 DEF INSRT, VALID
<1> QED BY <1>1, <1>3, <1>4, <1>5 DEF MapReadOk, Holds, At

LEMMA ReadsKey ==
  ASSUME IInv, NEW t \in Threads, Step(t), SearchKey(t),
         key[idx[t]] = call[t].key, call[t] # Idle, MapReadOk(t)
  PROVE  MapReadOk(t)'
<1>1. /\ UNCHANGED <<word, key, val, call, slot, idx, cur>>
      /\ pc'[t] = "search_again" /\ pc[t] = "search_key"
  BY DEF SearchKey, Continue, locals, Goto, bucket, IInv, TypeOK, At
<1>2. (\A v \in seen[t] : v \in seen'[t]) /\ (SeenAbsent(t) => SeenAbsent(t)')
  BY <1>1, SeenStep
<1>3. \A u \in Threads : /\ At(u, "write_val")' <=> At(u, "write_val")
                         /\ At(u, "claim")' <=> At(u, "claim")
  BY <1>1, StepOthers DEF OthersUnchanged, IInv, At
<1> QED BY <1>1, <1>2, <1>3 DEF MapReadOk, Holds, At

(* The steps of a remove up to its compare-and-swap.                       *)
LEMMA RemovePasses ==
  ASSUME IInv, NEW t \in Threads, Step(t), RemoveKey(t) \/ RemoveVal(t),
         RemoveAhead(t), RemoveOk(t)
  PROVE  Explained(t) /\ CallOk(t)'
<1>0. /\ ObservedOk(t)' /\ TypeOK
      /\ call[t].op = "remove" /\ call[t] # Idle
  <2>1. call[t].op = "remove"
    BY DEF RemoveKey, RemoveVal, At, IInv, ControlInv, Control, Removing
  <2> QED BY <2>1, SeenStep DEF IInv, Idle
<1> USE DEF CallOk, Search, Removing, At
<1>1. ASSUME UNCHANGED <<bucket, call, snap>>, idx'[t] >= idx[t],
             \A j \in Slots : j >= idx[t] => \/ j >= idx'[t]
                                             \/ snap[t].map[j] # VALID
                                             \/ ~Present(j, call[t].key)
      PROVE  RemoveAhead(t)'
  <2>1. SeenAbsent(t) => SeenAbsent(t)'
    BY <1>0, <1>1, SeenStep
  <2> QED BY <1>1, <2>1 DEF RemoveAhead, Present, bucket
<1>2. CASE RemoveVal(t)
  <2>1. /\ UNCHANGED <<bucket, call, ret, snap, idx>>
        /\ cur'[t] = val[idx[t]] /\ pc'[t] = "rem_cas" /\ pc[t] = "rem_val"
    BY <1>0, <1>2 DEF RemoveVal, Goto, TypeOK
  <2>2. RemoveAhead(t)'
    <3>1. idx'[t] >= idx[t]
      BY <1>0, <2>1 DEF TypeOK, Slots
    <3> QED BY <1>1, <2>1, <3>1
  <2>3. RemoveOk(t)'
    BY <2>1 DEF RemoveOk, Unchanged, bucket
  <2> QED BY <1>0, <2>1, <2>2, <2>3 DEF Explained
<1>3. CASE RemoveKey(t) /\ key[idx[t]] = call[t].key /\ snap[t].map[idx[t]] = VALID
  <2>1. /\ UNCHANGED <<bucket, call, ret, snap, idx>> /\ pc'[t] = "rem_val"
    BY <1>0, <1>3 DEF RemoveKey, Continue, locals, Goto, TypeOK
  <2>2. RemoveAhead(t)'
    <3>1. idx'[t] >= idx[t]
      BY <1>0, <2>1 DEF TypeOK, Slots
    <3> QED BY <1>1, <2>1, <3>1
  <2>3. RemoveOk(t)'
    BY <1>3, <2>1 DEF RemoveOk, Unchanged, bucket
  <2> QED BY <1>0, <2>1, <2>2, <2>3 DEF Explained
<1>4. CASE /\ RemoveKey(t)
           /\ ~(key[idx[t]] = call[t].key /\ snap[t].map[idx[t]] = VALID)
  <2>1. RemoveNext(t) /\ UNCHANGED bucket
    BY <1>4 DEF RemoveKey
  <2>2. CASE idx[t] = Entries
    <3>1. \A j \in Slots : j >= idx[t] => j = idx[t]
      BY <2>2, BucketAssumption DEF Slots
    <3>2. NoVal \in seen[t]
      BY <1>4, <3>1 DEF RemoveAhead, SeenAbsent, Present
    <3>3. Return(t, 0)
      BY <2>1, <2>2 DEF RemoveNext
    <3>4. pc'[t] = "idle"
      BY <1>0, <3>3 DEF Return, Goto, TypeOK
    <3> QED BY <1>0, <3>2, <3>3, <3>4 DEF Explained, Answers
  <2>3. CASE idx[t] # Entries
    <3>1. /\ UNCHANGED <<call, ret, snap>> /\ pc'[t] = "rem_key"
          /\ idx'[t] = idx[t] + 1
      BY <1>0, <2>1, <2>3 DEF RemoveNext, Goto, TypeOK
    <3>2. RemoveAhead(t)'
      <4>1. /\ idx[t] + 1 >= idx[t]
            /\ \A j \in Slots : j >= idx[t] /\ j # idx[t] => j >= idx[t] + 1
        BY <1>0 DEF TypeOK, Slots
      <4> QED BY <1>1, <1>4, <2>1, <3>1, <4>1 DEF Present
    <3>3. RemoveOk(t)'
      BY <3>1 DEF RemoveOk
    <3> QED BY <1>0, <3>1, <3>2, <3>3 DEF Explained
  <2> QED BY <2>2, <2>3
<1> QED BY <1>2, <1>3, <1>4

LEMMA OwnStep ==
  ASSUME RInv, NEW t \in Threads, Step(t)
  PROVE  /\ CallOk(t)'
         /\ Call(t) \/ Commits(t) \/ Removes(t) \/ Explained(t)
<1> USE DEF RInv
<1>0. /\ TypeOK /\ Control(t) /\ CallOk(t)
      /\ TypeOK' /\ StoreFacts' /\ ObservedOk(t)'
      /\ Begins(t)' => Ahead(t)'
  <2>1. BeginsAhead'
    BY AheadStart, PTL
  <2>2. TypeOK' /\ StoreFacts'
    BY InvStep DEF IInv
  <2> QED BY <2>1, <2>2, SeenStep DEF BeginsAhead, IInv, ControlInv, CallsInv
<1> USE DEF At, Search, Removing
<1>1. pc[t] # "idle" => call[t] # Idle
  BY <1>0, CallTypes DEF Control
(* Outside the loops a call has nothing to remember.                       *)
<1>2. pc'[t] \in {"idle", "snapshot", "claim", "write_val", "write_key", "commit"}
        => CallOk(t)'
  BY <1>0 DEF CallOk
<1>3. ASSUME pc'[t] = "search_val", call'[t] # Idle, idx'[t] = 1
      PROVE  CallOk(t)'
  BY <1>0, <1>3 DEF CallOk, Begins
<1>4. CASE Call(t)
  <2>1. CASE Get(t)
    <3>1. pc'[t] = "search_val" /\ idx'[t] = 1 /\ call'[t] # Idle
      BY <1>0, <2>1 DEF Get, Control, Goto, TypeOK, locals, Idle
    <3> QED BY <1>3, <1>4, <3>1
  <2>2. CASE Put(t) \/ Remove(t)
    <3>1. pc'[t] = "snapshot"
      BY <1>0, <2>2 DEF Put, Remove, Goto, TypeOK
    <3> QED BY <1>2, <1>4, <3>1
  <2> QED BY <1>4, <2>1, <2>2 DEF Call
<1>5. CASE ReadSnapshot(t)
  <2>1. /\ UNCHANGED <<bucket, call, ret>> /\ pc[t] = "snapshot"
        /\ idx'[t] = 1 /\ snap'[t] = word' /\ call[t] # Idle
    BY <1>0, <1>1, <1>5 DEF ReadSnapshot, Control, bucket, TypeOK
  <2>2. CASE call[t].op = "put"
    <3>1. pc'[t] = "search_val"
      BY <1>0, <1>5, <2>2 DEF ReadSnapshot, Goto, TypeOK
    <3> QED BY <1>3, <2>1, <3>1 DEF Explained
  <2>3. CASE call[t].op # "put"
    <3>1. pc'[t] = "rem_key"
      BY <1>0, <1>5, <2>3 DEF ReadSnapshot, Goto, TypeOK
    <3>2. Begins(t)'
      BY <1>0, <2>1 DEF Begins
    <3>3. RemoveAhead(t)'
      BY <1>0, <2>1, <3>2 DEF Ahead, RemoveAhead, Present
    <3>4. RemoveOk(t)'
      BY <3>1 DEF RemoveOk
    <3> QED BY <1>0, <2>1, <3>1, <3>3, <3>4 DEF CallOk, Explained
  <2> QED BY <2>2, <2>3
<1>6. ASSUME UNCHANGED <<bucket, call, idx>>, pc[t] \in Search
      PROVE  Ahead(t)'
  <2>1. SeenAbsent(t) => SeenAbsent(t)'
    BY <1>1, <1>6, SeenStep
  <2> QED BY <1>0, <1>6, <2>1 DEF CallOk, Ahead, Present, bucket
<1>7. CASE SearchVal(t)
  <2>1. /\ UNCHANGED <<bucket, call, ret, idx>> /\ pc[t] = "search_val"
        /\ pc'[t] = "search_map" /\ cur'[t] = val[idx[t]]
    BY <1>0, <1>7 DEF SearchVal, Goto, TypeOK
  <2>2. ValReadOk(t)'
    BY <2>1 DEF ValReadOk, bucket
  <2> QED BY <1>0, <1>6, <2>1, <2>2 DEF CallOk, Explained
<1>8. CASE SearchMap(t)
  <2>1. pc[t] = "search_map" /\ UNCHANGED bucket
    BY <1>8 DEF SearchMap
  <2>2. CASE word.map[idx[t]] = VALID
    <3>1. /\ UNCHANGED <<bucket, call, ret, idx>> /\ pc'[t] = "search_key"
      BY <1>0, <1>8, <2>2 DEF SearchMap, Continue, locals, Goto, TypeOK
    <3>2. MapReadOk(t)'
      BY <1>0, <1>1, <1>8, <2>1, <2>2, ReadsMap DEF CallOk
    <3> QED BY <1>0, <1>6, <2>1, <3>1, <3>2 DEF CallOk, Explained
  <2>3. CASE word.map[idx[t]] # VALID
    BY <1>0, <1>1, <1>8, <2>1, <2>3, SearchPasses DEF SearchMap, CallOk, Present
  <2> QED BY <2>2, <2>3
<1>9. CASE SearchKey(t)
  <2>1. pc[t] = "search_key" /\ UNCHANGED bucket
    BY <1>9 DEF SearchKey
  <2>2. CASE key[idx[t]] = call[t].key
    <3>1. /\ UNCHANGED <<bucket, call, ret, idx>> /\ pc'[t] = "search_again"
      BY <1>0, <1>9, <2>2 DEF SearchKey, Continue, locals, Goto, TypeOK
    <3>2. MapReadOk(t)'
      BY <1>0, <1>1, <1>9, <2>1, <2>2, ReadsKey DEF CallOk
    <3> QED BY <1>0, <1>6, <2>1, <3>1, <3>2 DEF CallOk, Explained
  <2>3. CASE key[idx[t]] # call[t].key
    BY <1>0, <1>1, <1>9, <2>1, <2>3, SearchPasses DEF SearchKey, CallOk, Present
  <2> QED BY <2>2, <2>3
<1>10. CASE SearchAgain(t)
  <2> DEFINE r == IF val[idx[t]] = cur[t] THEN cur[t] ELSE NoVal
  <2>1. pc[t] = "search_again" /\ SearchDone(t, r)
    BY <1>10 DEF SearchAgain
  <2>2. r \in seen[t]
    BY <1>0, <2>1 DEF CallOk, MapReadOk, SeenAbsent
  <2> HIDE DEF r
  <2>3. \A v \in seen[t] : pc'[t] = "release" => v \in seen'[t]
    <3> SUFFICES ASSUME pc'[t] = "release" PROVE call'[t] = call[t]
      BY <1>1, <2>1, SeenStep
    <3> QED BY <1>0, <2>1, <2>2, SearchEnds DEF Explained, Answers, Return, Goto, TypeOK
  <2>4. CASE pc'[t] = "release"
    BY <1>0, <2>1, <2>2, <2>3, <2>4, SearchEnds DEF CallOk
  <2> QED BY <1>0, <1>2, <2>1, <2>2, <2>4, SearchEnds
<1>11. CASE Claim(t) \/ WriteVal(t) \/ WriteKey(t) \/ Commit(t) \/ RemoveCas(t)
  <2>1. pc'[t] \in {"idle", "snapshot", "write_val", "write_key", "commit"}
    BY <1>0, <1>11
    DEF Claim, WriteVal, WriteKey, Commit, RemoveCas, Continue, Retry, Return,
        Goto, TypeOK
  <2>2. Commits(t) \/ Removes(t) \/ UNCHANGED <<call, ret>>
    BY <1>11
    DEF Claim, WriteVal, WriteKey, Commit, RemoveCas, Continue, Retry, Commits,
        Removes
  <2> QED BY <1>2, <2>1, <2>2 DEF Explained
<1>12. CASE Release(t)
  <2>1. pc[t] = "release" /\ Return(t, 0) /\ call[t].op = "put"
    BY <1>0, <1>12 DEF Release, Control, Claimed
  <2>2. pc'[t] = "idle"
    BY <1>0, <2>1 DEF Return, Goto, TypeOK
  <2> QED BY <1>0, <1>2, <2>1, <2>2 DEF CallOk, Explained, Answers
<1>13. CASE RemoveKey(t) \/ RemoveVal(t)
  BY <1>0, <1>13, RemovePasses DEF CallOk, RemoveKey, RemoveVal
<1> QED
  BY <1>4, <1>5, <1>7, <1>8, <1>9, <1>10, <1>11, <1>12, <1>13 DEF Step, Work

-----------------------------------------------------------------------------
(* The invariant of the refinement.                                        *)

LEMMA InitRefines == Init => RInv
<1> SUFFICES ASSUME Init PROVE RInv
  OBVIOUS
<1>1. IInv
  BY InitInv
<1>2. ValuesInv
  BY CallTypes, BucketAssumption
  DEF Init, ValuesInv, ValuesBound, FreshValue, Unwritten, Idle, NoVal
<1>3. CallsInv
  BY DEF Init, CallsInv, CallOk, ObservedOk, Search, Removing, At
<1> QED BY <1>1, <1>2, <1>3 DEF RInv

LEMMA NextRefines == DistinctVals /\ RInv /\ [Next]_vars => RInv'
<1>1. ASSUME DistinctVals, RInv, NEW t \in Threads, Step(t)
      PROVE  RInv'
  <2>1. IInv' /\ ValuesInv'
    BY <1>1, InvStep, ValuesStep DEF RInv
  <2>2. \A u \in Threads : CallOk(u)'
    BY <1>1, OwnStep, OtherStep
  <2> QED BY <2>1, <2>2 DEF RInv, CallsInv
<1>2. ASSUME RInv, UNCHANGED vars
      PROVE  RInv'
  <2>1. IInv'
    BY <1>2, NextInv DEF RInv
  <2>2. ValuesInv'
    BY <1>2
    DEF RInv, vars, bucket, locals, ValuesInv, ValuesBound, FreshValue, Unwritten
  <2>3. CallsInv'
    BY <1>2
    DEF RInv, vars, bucket, locals, CallsInv, CallOk, ObservedOk, Store, Entry,
        Ahead, RemoveAhead, SeenAbsent, Present, ValReadOk, MapReadOk, RemoveOk,
        Unchanged, Holds, At
  <2> QED BY <2>1, <2>2, <2>3 DEF RInv
<1> QED BY <1>1, <1>2 DEF Next

-----------------------------------------------------------------------------
(* The bucket and the map, step by step.                                   *)

LEMMA MapInit == Init => Map!Init
<1> SUFFICES ASSUME Init PROVE Map!Init
  OBVIOUS
<1>1. Store = [k \in Keys |-> NoVal]
  <2>1. \A k \in Keys : Entry(k) = {}
    BY DEF Init, Free, Entry, INVLD, VALID
  <2> QED BY <2>1 DEF Store
<1> QED BY <1>1 DEF Init, Map!Init, Map!Idle, Idle, Map!NoVal, NoVal

LEMMA MapStep ==
  ASSUME RInv, NEW t \in Threads, Step(t)
  PROVE  [Map!Next]_(Map!vars)
<1> USE DEF RInv, Map!Idle, Idle, Map!NoVal, NoVal
<1>0. /\ TypeOK /\ CallOk(t) /\ RemoveOk(t) /\ StoreTyped /\ StoreTyped'
      /\ TypeOK'
  <2>1. pc[t] \notin {"rem_val", "rem_cas"} => RemoveOk(t)
    BY DEF RemoveOk, At
  <2> QED BY <2>1, StoreTypes, InvStep DEF IInv, CallsInv, CallOk, Removing
<1>1. Map!Observe
  BY DEF Step, Observe, Map!Observe
<1>2. CASE Call(t)
  <2>1. Store' = Store
    <3>1. ~Commits(t) /\ ~Removes(t)
      BY <1>2
      DEF Call, Get, Put, Remove, Commits, Commit, Removes, RemoveCas, At
    <3> QED BY <1>0, <3>1, StoreStep
  <2>2. PICK c \in Calls \ {Idle} : call' = [call EXCEPT ![t] = c]
    <3>1. /\ call' = [call EXCEPT ![t] = call'[t]]
          /\ call'[t].op \in {"get", "put", "remove"}
      BY <1>0, <1>2 DEF Call, Get, Put, Remove, TypeOK
    <3>2. call'[t] \in Calls \ {Idle}
      BY <1>0, <3>1 DEF TypeOK
    <3> QED BY <3>1, <3>2
  <2>3. call[t] = Idle /\ ret' = [ret EXCEPT ![t] = 0]
    <3>1. pc[t] = "idle" /\ ret' = [ret EXCEPT ![t] = 0]
      BY <1>2 DEF Call, Get, Put, Remove, At
    <3>2. call[t].op = "none" /\ call[t] \in Calls
      BY <1>0, <3>1 DEF IInv, ControlInv, Control, At, TypeOK
    <3> QED BY <3>1, <3>2, CallTypes
  <2>4. Map!Calls = Calls
    BY DEF Map!Calls, Calls
  <2>5. Map!Invoke(t)
    BY <2>1, <2>2, <2>3, <2>4 DEF Map!Invoke
  <2> QED BY <1>1, <2>5 DEF Map!Next
<1>3. CASE Commits(t)
  <2>1. /\ call[t].key \in Keys /\ call[t].op = "put"
        /\ Store[call[t].key] = 0 /\ StoreSet(t, call[t].val)
    BY <1>0, <1>3, FoundAbsent, StoreStep
  <2>2. Store' = [Store EXCEPT ![call[t].key] = call[t].val]
    BY <1>0, <2>1 DEF StoreSet, StoreTyped
  <2>3. Map!Return(t, 1)
    BY <1>3 DEF Commits, Commit, Return, Map!Return
  <2>4. Map!Insert(t)
    BY <2>1, <2>2, <2>3 DEF Map!Insert
  <2> QED BY <1>1, <2>4 DEF Map!Next
<1>4. CASE Removes(t)
  <2>1. /\ call[t].key \in Keys /\ call[t].op = "remove"
        /\ Store[call[t].key] = cur[t] /\ cur[t] # 0 /\ StoreSet(t, 0)
    BY <1>0, <1>4, FoundPresent, StoreStep
  <2>2. Store' = [Store EXCEPT ![call[t].key] = 0]
    BY <1>0, <2>1 DEF StoreSet, StoreTyped
  <2>3. Map!Return(t, cur[t])
    BY <1>4 DEF Removes, RemoveCas, Return, Map!Return
  <2>4. Map!Delete(t)
    BY <2>1, <2>2, <2>3 DEF Map!Delete
  <2> QED BY <1>1, <2>4 DEF Map!Next
<1>5. CASE ~Commits(t) /\ ~Removes(t) /\ Explained(t)
  <2>1. Store' = Store
    BY <1>0, <1>5, StoreStep
  <2>2. CASE Answers(t)
    <3>1. Map!Answer(t)
      BY <2>1, <2>2 DEF Answers, Return, Map!Answer, Map!Return
    <3> QED BY <1>1, <3>1 DEF Map!Next
  <2>3. CASE UNCHANGED <<call, ret>>
    <3>1. \A u \in Threads : seen'[u] = seen[u]
      BY <2>1, <2>3 DEF Step, Observe, CallsInv, CallOk, ObservedOk
    <3>2. seen' = seen
      BY <1>0, <3>1 DEF TypeOK
    <3> QED BY <2>1, <2>3, <3>2 DEF Map!vars
  <2> QED BY <1>5, <2>2, <2>3 DEF Explained
<1> QED BY <1>2, <1>3, <1>4, <1>5, OwnStep

(* Each call of the bucket takes effect at once between its start and its  *)
(* return: a put at its commit, a remove at its compare-and-swap, and a    *)
(* get, a failed put and a failed remove answer what held at some moment   *)
(* meanwhile, if no two puts store the same value.                         *)
THEOREM Implements == ASSUME DistinctVals PROVE Spec => ImplementsMap
<1>1. Spec => []RInv
  <2>1. RInv /\ [Next]_vars => RInv'
    BY NextRefines
  <2> QED BY <2>1, InitRefines, PTL DEF Spec
<1>2. RInv /\ [Next]_vars => [Map!Next]_(Map!vars)
  <2>1. ASSUME RInv, NEW t \in Threads, Step(t)
        PROVE  [Map!Next]_(Map!vars)
    BY <2>1, MapStep
  <2>2. ASSUME UNCHANGED vars
        PROVE  UNCHANGED Map!vars
    BY <2>2 DEF vars, bucket, Map!vars, Store, Entry
  <2> QED BY <2>1, <2>2 DEF Next
<1> QED BY <1>1, <1>2, MapInit, PTL DEF Spec, ImplementsMap, Map!Spec
=============================================================================
