--------------------------- MODULE FixedLockProofs --------------------------
(***************************************************************************)
(* Proofs about the tables of a fixed size with a lock, for any number of  *)
(* threads, keys, entries and calls: the table that locks only to insert,  *)
(* and the one that locks for puts and removes, implement the atomic map.  *)
(* At the end what holds of all the tables of a fixed size.                *)
(***************************************************************************)
EXTENDS FixedProofs

-----------------------------------------------------------------------------
(* A thread that has the lock, and a remove that has blocked an entry.     *)
InsLocking == {"scan", "link_val", "write_key"}
InsBlocking(t) == pc[t] \in {"rem_val", "rem_free"}

(* What a thread can be doing in which call.                               *)
InsControl(t) ==
  /\ Ins!At(t, "idle") <=> call[t] = Ins!Idle
  /\ pc[t] \in {"get_val", "get_key", "get_again"} => call[t].op = "get"
  /\ pc[t] \in InsLocking \cup {"exists", "lock"} => call[t].op = "put"
  /\ pc[t] \in {"rem_key", "rem_cas", "rem_val", "rem_free"}
       => call[t].op = "remove"
  /\ idx[t] >= 1
  /\ pc[t] \in {"get_key", "get_again", "link_val", "write_key", "rem_cas",
                "rem_val", "rem_free"} => idx[t] \in DOMAIN cells
  /\ Ins!At(t, "scan") => idx[t] <= Len(cells) + 1
  /\ slot[t] # 0 => Ins!At(t, "scan") /\ slot[t] \in DOMAIN cells

(* A key has one entry, and an entry with a key has a value.               *)
InsKeysOk ==
  \A i, j \in DOMAIN cells :
    cells[i].key \in Keys =>
      /\ cells[i].val # Ins!NoVal
      /\ cells[j].key = cells[i].key => j = i

(* The entry of a remove is its own until it is freed, that of a put stays *)
(* free, and the put has seen that its key has no entry.                   *)
InsEntryOk(t) ==
  /\ pc[t] \in InsLocking => lock = t
  /\ InsBlocking(t) => cells[idx[t]].key = KeyBlck
  /\ pc[t] \in {"link_val", "write_key"} => cells[idx[t]].key = NoKey
  /\ Ins!At(t, "write_key") => cells[idx[t]].val = call[t].val
  /\ slot[t] # 0 => cells[slot[t]].key = NoKey
  /\ pc[t] \in InsLocking =>
       \A i \in DOMAIN cells :
         (Ins!At(t, "scan") => i < idx[t]) => cells[i].key # call[t].key

InsBlocksApart ==
  \A t, u \in Threads :
    InsBlocking(t) /\ InsBlocking(u) /\ idx[t] = idx[u] => t = u

(* Nobody has met the value of a put that has not stored it.               *)
InsUnstored(t) == pc[t] \in {"exists", "lock", "scan", "link_val"}
InsValuesOk ==
  /\ \A i \in DOMAIN cells : cells[i].val <= puts
  /\ \A t \in Threads : cur[t] <= puts /\ call[t].val <= puts
InsFreshOk(t) ==
  InsUnstored(t) =>
    /\ \A i \in DOMAIN cells : cells[i].val # call[t].val
    /\ \A u \in Threads : cur[u] # call[t].val
    /\ \A u \in Threads \ {t} : call[u].val # call[t].val

(* What a call has seen of its key.                                        *)
InsSeenAbsent(t) == Ins!NoVal \in seen[t]
InsPresent(i, k) == i \in DOMAIN cells /\ cells[i].key = k
InsCallOk(t) ==
  /\ Ins!Call[t] # Ins!Idle => Ins!Store[call[t].key] \in seen[t]
  /\ Ins!Call[t] = Ins!Idle => seen[t] = {}
  /\ pc[t] \in {"get_val", "get_key", "rem_key"} =>
       InsSeenAbsent(t) \/ \E j \in DOMAIN cells :
                          j >= idx[t] /\ cells[j].key = call[t].key
  /\ Ins!At(t, "get_key") =>
       \/ cells[idx[t]].val = cur[t]
       \/ cells[idx[t]].key = call[t].key => InsSeenAbsent(t)
  /\ Ins!At(t, "get_again") =>
       IF cells[idx[t]].val = cur[t]
       THEN cur[t] \in seen[t] ELSE InsSeenAbsent(t)
  /\ pc[t] \in {"get_again", "rem_cas"} =>
       cells[idx[t]].key = call[t].key \/ InsSeenAbsent(t)

InsState ==
  /\ Ins!TypeOK
  /\ InsKeysOk /\ InsBlocksApart /\ InsValuesOk
  /\ \A t \in Threads : InsControl(t) /\ InsEntryOk(t) /\ InsFreshOk(t)
InsCalls == \A t \in Threads : InsCallOk(t)

-----------------------------------------------------------------------------
InsKeys == Keys \cup {NoKey, KeyBlck}
InsVals == Ins!Vals \cup {Ins!NoVal}

InsLocalType ==
  /\ call \in [Threads -> Ins!Calls]
  /\ pc \in [Threads -> Ins!Labels]
  /\ idx \in [Threads -> Nat]
  /\ cur \in [Threads -> InsVals]
  /\ ret \in [Threads -> InsVals \cup {0, 1}]
  /\ slot \in [Threads -> Nat]
InsSharedType ==
  /\ cells \in Seq([key : InsKeys, val : InsVals])
  /\ lock \in Threads \cup {NoThread}
  /\ puts \in 0 .. MaxPuts

LEMMA InsTypeParts ==
  Ins!TypeOK <=> InsLocalType /\ InsSharedType
             /\ seen \in [Threads -> SUBSET (Ins!Vals \cup {Ins!NoVal})]
BY
DEF Ins!TypeOK, Ins!CallsTypeOK, InsLocalType, InsSharedType, InsKeys, InsVals

LEMMA InsCallTypes ==
  /\ Ins!Idle \in Ins!Calls
  /\ \A k \in Keys, op \in {"get", "remove"} :
       [op |-> op, key |-> k, val |-> Ins!NoVal] \in Ins!Calls
  /\ \A k \in Keys, v \in Ins!Vals :
       [op |-> "put", key |-> k, val |-> v] \in Ins!Calls
  /\ \A c \in Ins!Calls : c.val \in InsVals /\ c.key \in Keys \cup {NoKey}
  /\ \A c \in Ins!Calls : c # Ins!Idle => c.key \in Keys /\ c.op # "none"
  /\ \A c \in Ins!Calls : c.op # "none" => c # Ins!Idle
  /\ \A c \in Ins!Calls : c.op = "put" => c.val \in Ins!Vals /\ c.key \in Keys
  /\ \A c \in Ins!Calls : c.op # "put" => c.val = Ins!NoVal
  /\ Ins!Idle.op = "none" /\ Ins!Idle.val = Ins!NoVal
BY DEF Ins!Calls, Ins!Idle, InsVals

(* The entries.                                                            *)
LEMMA InsCellType ==
  ASSUME InsSharedType
  PROVE  /\ Len(cells) \in Nat /\ DOMAIN cells = 1 .. Len(cells)
         /\ \A i \in DOMAIN cells :
              cells[i].key \in InsKeys /\ cells[i].val \in InsVals
<1>1. Len(cells) \in Nat /\ DOMAIN cells = 1 .. Len(cells)
  BY LenProperties DEF InsSharedType
<1>2. cells \in Seq([key : InsKeys, val : InsVals])
  BY DEF InsSharedType
<1>3. \A i \in 1 .. Len(cells) : cells[i] \in [key : InsKeys, val : InsVals]
  BY <1>2, ElementOfSeq
<1> QED
  BY <1>1, <1>3

InsKeyTo(i, k) ==
  /\ cells' \in Seq([key : InsKeys, val : InsVals])
  /\ Len(cells') = Len(cells) /\ DOMAIN cells' = DOMAIN cells
  /\ \A j \in DOMAIN cells :
       /\ cells'[j].key = IF j = i THEN k ELSE cells[j].key
       /\ cells'[j].val = cells[j].val
InsValTo(i, v) ==
  /\ cells' \in Seq([key : InsKeys, val : InsVals])
  /\ Len(cells') = Len(cells) /\ DOMAIN cells' = DOMAIN cells
  /\ \A j \in DOMAIN cells :
       /\ cells'[j].val = IF j = i THEN v ELSE cells[j].val
       /\ cells'[j].key = cells[j].key
InsLonger ==
  /\ cells' \in Seq([key : InsKeys, val : InsVals])
  /\ Len(cells') = Len(cells) + Entries
  /\ DOMAIN cells' = 1 .. Len(cells) + Entries
  /\ \A j \in DOMAIN cells : cells'[j] = cells[j]
  /\ \A j \in DOMAIN cells' \ DOMAIN cells :
       cells'[j].key = NoKey /\ cells'[j].val = Ins!NoVal

LEMMA InsSetKeyTo ==
  ASSUME InsSharedType, NEW i \in DOMAIN cells, NEW k \in InsKeys,
         cells' = Ins!SetKey(i, k)
  PROVE  InsKeyTo(i, k)
<1> DEFINE S == [key : InsKeys, val : InsVals]
           e == [cells[i] EXCEPT !.key = k]
           d == [cells EXCEPT ![i] = e]
<1>1. /\ i \in 1 .. Len(cells) /\ DOMAIN cells = 1 .. Len(cells)
      /\ cells \in Seq(S)
  BY InsCellType DEF InsSharedType
<1>2. cells[i] \in S
  BY <1>1, ElementOfSeq
<1>3. e \in S /\ e.key = k /\ e.val = cells[i].val
  BY <1>2
<1>4. cells' = d
  BY DEF Ins!SetKey
<1> HIDE DEF S, e
<1>5. /\ d \in Seq(S) /\ Len(d) = Len(cells)
      /\ \A j \in 1 .. Len(cells) : d[j] = IF j = i THEN e ELSE cells[j]
  BY <1>1, <1>3, ExceptSeq
<1> HIDE DEF d
<1>6. DOMAIN d = 1 .. Len(d)
  BY <1>5, LenProperties
<1> QED BY <1>1, <1>3, <1>4, <1>5, <1>6 DEF InsKeyTo, S

LEMMA InsSetValTo ==
  ASSUME InsSharedType, NEW i \in DOMAIN cells, NEW v \in InsVals,
         cells' = Ins!SetVal(i, v)
  PROVE  InsValTo(i, v)
<1> DEFINE S == [key : InsKeys, val : InsVals]
           e == [cells[i] EXCEPT !.val = v]
           d == [cells EXCEPT ![i] = e]
<1>1. /\ i \in 1 .. Len(cells) /\ DOMAIN cells = 1 .. Len(cells)
      /\ cells \in Seq(S)
  BY InsCellType DEF InsSharedType
<1>2. cells[i] \in S
  BY <1>1, ElementOfSeq
<1>3. e \in S /\ e.val = v /\ e.key = cells[i].key
  BY <1>2
<1>4. cells' = d
  BY DEF Ins!SetVal
<1> HIDE DEF S, e
<1>5. /\ d \in Seq(S) /\ Len(d) = Len(cells)
      /\ \A j \in 1 .. Len(cells) : d[j] = IF j = i THEN e ELSE cells[j]
  BY <1>1, <1>3, ExceptSeq
<1> HIDE DEF d
<1>6. DOMAIN d = 1 .. Len(d)
  BY <1>5, LenProperties
<1> QED BY <1>1, <1>3, <1>4, <1>5, <1>6 DEF InsValTo, S

LEMMA InsLinkedLonger ==
  ASSUME InsSharedType, cells' = Ins!Linked(Ins!NoVal)
  PROVE  InsLonger
<1> DEFINE S == [key : InsKeys, val : InsVals]
           e == [key |-> NoKey, val |-> Ins!NoVal]
           d == cells \o [i \in 1 .. Entries |-> e]
<1>1. DOMAIN cells = 1 .. Len(cells) /\ Len(cells) \in Nat /\ Entries \in Nat
  BY InsCellType, CallsAssumption
<1>2. e \in S /\ cells \in Seq(S)
  BY DEF InsKeys, InsVals, InsSharedType
<1> HIDE DEF e, S
<1>3. /\ d \in Seq(S) /\ Len(d) = Len(cells) + Entries
      /\ \A j \in 1 .. Len(cells) + Entries :
           d[j] = IF j <= Len(cells) THEN cells[j] ELSE e
  BY <1>1, <1>2, BucketLinked
<1>4. cells' = d
  BY DEF Ins!Linked, e
<1> HIDE DEF d
<1>5. DOMAIN d = 1 .. Len(d)
  BY <1>3, LenProperties
<1>6. e.key = NoKey /\ e.val = Ins!NoVal
  BY DEF e
<1> QED BY <1>1, <1>3, <1>4, <1>5, <1>6 DEF InsLonger, S

-----------------------------------------------------------------------------
(* The step of one thread leaves the others alone.                         *)
InsStepOf(t) == Ins!Get(t) \/ Ins!Put(t) \/ Ins!Remove(t) \/ Ins!Work(t)

InsOthersSame(t) ==
  \A u \in Threads \ {t} :
    /\ pc'[u] = pc[u] /\ call'[u] = call[u] /\ idx'[u] = idx[u]
    /\ cur'[u] = cur[u] /\ slot'[u] = slot[u] /\ ret'[u] = ret[u]

LEMMA InsStepOthers ==
  ASSUME InsLocalType, NEW t \in Threads, InsStepOf(t)
  PROVE  InsOthersSame(t)
<1> USE DEF InsLocalType, InsOthersSame, Ins!Goto, Ins!SetIdx, Ins!Read,
            Ins!Decide, Ins!Return, Ins!Hold, Ins!Finish
<1>1. CASE Ins!Get(t) \/ Ins!Put(t) \/ Ins!Remove(t)
  BY <1>1 DEF Ins!Get, Ins!Put, Ins!Remove, Ins!Begin
<1>2. CASE Ins!GetVal(t) \/ Ins!GetKey(t) \/ Ins!GetAgain(t)
  BY <1>2
  DEF Ins!GetVal, Ins!ScanVal, Ins!GetKey, Ins!ScanKey, Ins!GetAgain,
      Ins!ScanAgain
<1>3. CASE Ins!Exists(t)
  BY <1>3 DEF Ins!Exists, Ins!ScanExists, Ins!ExistsDone
<1>4. CASE Ins!PutLock(t) \/ Ins!PutScan(t)
  BY <1>4 DEF Ins!PutLock, Ins!PutScan
<1>5. CASE Ins!PutFree(t) \/ Ins!LinkVal(t) \/ Ins!WriteKey(t)
  BY <1>5 DEF Ins!PutFree, Ins!LinkVal, Ins!WriteKey
<1>6. CASE Ins!RemoveKey(t) \/ Ins!RemoveCas(t)
  BY <1>6 DEF Ins!RemoveKey, Ins!RemoveCas
<1>7. CASE Ins!RemoveVal(t) \/ Ins!RemoveFree(t)
  BY <1>7 DEF Ins!RemoveVal, Ins!RemoveFree
<1> QED
  BY <1>1, <1>2, <1>3, <1>4, <1>5, <1>6, <1>7 DEF InsStepOf, Ins!Work

(* What the steps do to the entries.                                       *)
InsEffectOf(t) ==
  \/ UNCHANGED cells
  \/ /\ Ins!At(t, "scan") /\ slot[t] # 0 /\ InsValTo(slot[t], call[t].val)
     /\ pc'[t] = "write_key"
  \/ /\ Ins!At(t, "scan") /\ slot[t] = 0 /\ InsLonger
  \/ /\ Ins!At(t, "link_val") /\ InsValTo(idx[t], call[t].val)
     /\ pc'[t] = "write_key"
  \/ /\ Ins!At(t, "write_key") /\ InsKeyTo(idx[t], call[t].key)
  \/ /\ Ins!At(t, "rem_cas") /\ Ins!Mine(t) /\ InsKeyTo(idx[t], KeyBlck)
  \/ /\ Ins!At(t, "rem_free") /\ InsKeyTo(idx[t], NoKey)

LEMMA InsStepEffect ==
  ASSUME InsLocalType, InsSharedType, NEW t \in Threads, InsControl(t),
         InsStepOf(t)
  PROVE  InsEffectOf(t)
<1>1. /\ call[t] \in Ins!Calls
      /\ call[t].val \in InsVals
      /\ call[t].key \in InsKeys
  BY InsCallTypes DEF InsLocalType, InsKeys
<1>2. KeyBlck \in InsKeys /\ NoKey \in InsKeys
  BY DEF InsKeys
<1>3. CASE Ins!PutFree(t)
  <2>1. CASE slot[t] # 0
    <3>1. pc'[t] = "write_key"
      BY <1>3, <2>1 DEF Ins!PutFree, Ins!Hold, Ins!Goto, InsLocalType
    <3> QED BY <1>1, <1>3, <2>1, <3>1, InsSetValTo
    DEF Ins!PutFree, InsEffectOf, InsControl
  <2>2. CASE slot[t] = 0
    BY <1>3, <2>2, InsLinkedLonger DEF Ins!PutFree, InsEffectOf
  <2> QED BY <2>1, <2>2
<1>4. CASE Ins!LinkVal(t)
  <2>1. pc'[t] = "write_key"
    BY <1>4 DEF Ins!LinkVal, Ins!Hold, Ins!Goto, InsLocalType
  <2> QED BY <1>1, <1>4, <2>1, InsSetValTo
  DEF Ins!LinkVal, InsEffectOf, InsControl, Ins!At
<1>5. CASE Ins!WriteKey(t)
  BY <1>1, <1>5, InsSetKeyTo DEF Ins!WriteKey, InsEffectOf, InsControl, Ins!At
<1>6. CASE Ins!RemoveCas(t)
  BY <1>2, <1>6, InsSetKeyTo DEF Ins!RemoveCas, InsEffectOf, InsControl, Ins!At
<1>7. CASE Ins!RemoveFree(t)
  BY <1>2, <1>7, InsSetKeyTo
  DEF Ins!RemoveFree, InsEffectOf, InsControl, Ins!At
<1>8. CASE Ins!Get(t) \/ Ins!Put(t) \/ Ins!Remove(t) \/ Ins!GetVal(t)
             \/ Ins!GetKey(t) \/ Ins!GetAgain(t)
           \/ Ins!Exists(t) \/ Ins!PutLock(t) \/ Ins!PutScan(t)
           \/ Ins!RemoveKey(t) \/ Ins!RemoveVal(t)
  BY <1>8
  DEF InsEffectOf, Ins!Get, Ins!Put, Ins!Remove, Ins!Begin, Ins!GetVal,
      Ins!ScanVal, Ins!GetKey, Ins!ScanKey,
     Ins!GetAgain, Ins!ScanAgain, Ins!Exists, Ins!ScanExists, Ins!PutLock,
     Ins!PutScan, Ins!RemoveKey,
     Ins!RemoveVal
<1> QED
  BY <1>3, <1>4, <1>5, <1>6, <1>7, <1>8 DEF InsStepOf, Ins!Work

LEMMA InsEffectType ==
  ASSUME InsSharedType, NEW t \in Threads, InsEffectOf(t)
  PROVE  cells' \in Seq([key : InsKeys, val : InsVals])
BY DEF InsEffectOf, InsValTo, InsKeyTo, InsLonger, InsSharedType

-----------------------------------------------------------------------------
(* Type correctness.                                                       *)

LEMMA InsStepType ==
  ASSUME InsLocalType, InsSharedType, NEW t \in Threads, InsControl(t),
         InsStepOf(t)
  PROVE  InsLocalType' /\ InsSharedType'
<1> USE DEF InsLocalType
<1>1. call[t] \in Ins!Calls /\ call[t].val \in InsVals /\ idx[t] + 1 \in Nat
  BY InsCallTypes
<1>2. /\ cells' \in Seq([key : InsKeys, val : InsVals])
      /\ Len(cells) \in Nat
  BY InsStepEffect, InsEffectType, InsCellType
<1>3. idx[t] \in DOMAIN cells => cells[idx[t]].val \in InsVals
  BY InsCellType
<1>4. /\ puts + 1 \in Nat
      /\ puts < MaxPuts => /\ puts + 1 \in Ins!Vals
                           /\ puts + 1 \in 0 .. MaxPuts
  BY CallsAssumption DEF InsSharedType, Ins!Vals
<1>5. 0 \in InsVals /\ 0 \in InsVals \cup {0, 1} /\ 1 \in InsVals \cup {0, 1}
      /\ Ins!NoVal = 0 /\ Ins!Idle \in Ins!Calls /\ 1 \in Nat
      /\ NoThread \in Threads \cup {NoThread}
  BY InsCallTypes DEF InsVals, Ins!NoVal
<1> USE <1>5
    DEF Ins!Goto, Ins!SetIdx, Ins!Read, Ins!Decide, Ins!Return, Ins!Hold,
        Ins!Finish, Ins!At, Ins!Labels
<1>6. CASE Ins!Get(t) \/ Ins!Remove(t)
  <2>1. PICK k \in Keys, op \in {"get", "remove"} :
          call' =
            [call EXCEPT ![t] = [op |-> op, key |-> k, val |-> Ins!NoVal]]
    BY <1>6 DEF Ins!Get, Ins!Remove, Ins!Begin
  <2>2. call' \in [Threads -> Ins!Calls]
    BY <2>1, InsCallTypes
  <2> QED BY <1>6, <2>2 DEF Ins!Get, Ins!Remove, Ins!Begin, InsSharedType
<1>7. CASE Ins!Put(t)
  <2>1. PICK k \in Keys :
          call' =
            [call EXCEPT ![t] = [op |-> "put", key |-> k, val |-> puts + 1]]
    BY <1>7 DEF Ins!Put, Ins!Begin
  <2>2. call' \in [Threads -> Ins!Calls]
    BY <1>4, <1>7, <2>1, InsCallTypes DEF Ins!Put, Ins!Begin
  <2> QED BY <1>4, <1>7, <2>2 DEF Ins!Put, Ins!Begin, InsSharedType
<1>8. CASE Ins!GetVal(t)
  <2>1. InsSharedType'
    BY <1>2, <1>8 DEF Ins!GetVal, Ins!ScanVal, InsSharedType
  <2>2. CASE Ins!AtEnd(t)
    BY <1>8, <2>1, <2>2 DEF Ins!GetVal, Ins!ScanVal
  <2>3. CASE ~Ins!AtEnd(t)
    <3>1. cells[idx[t]].val \in InsVals
      BY <1>3, <2>3, InsCellType DEF Ins!AtEnd, InsControl
    <3> QED BY <1>8, <2>1, <2>3, <3>1 DEF Ins!GetVal, Ins!ScanVal
  <2> QED BY <2>2, <2>3
<1>9. CASE Ins!GetKey(t)
  <2>1. InsSharedType'
    BY <1>2, <1>9 DEF Ins!GetKey, Ins!ScanKey, InsSharedType
  <2> QED BY <1>1, <1>9, <2>1 DEF Ins!GetKey, Ins!ScanKey
<1>10. CASE Ins!GetAgain(t)
  BY <1>10, InsCallTypes DEF Ins!GetAgain, Ins!ScanAgain, InsSharedType
<1>11. CASE Ins!Exists(t)
  BY <1>1, <1>11, InsCallTypes
  DEF Ins!Exists, Ins!ScanExists, Ins!ExistsDone, InsSharedType
<1>12. CASE Ins!PutLock(t)
  BY <1>12 DEF Ins!PutLock, InsSharedType
<1>13. CASE Ins!PutScan(t)
  <2>1. InsSharedType'
    BY <1>2, <1>13 DEF Ins!PutScan, InsSharedType
  <2>2. CASE Ins!Mine(t)
    BY <1>13, <2>1, <2>2 DEF Ins!PutScan
  <2>3. CASE ~Ins!Mine(t)
    BY <1>1, <1>13, <2>1, <2>3 DEF Ins!PutScan
  <2> QED BY <2>2, <2>3
<1>14. CASE Ins!PutFree(t)
  BY <1>2, <1>14 DEF Ins!PutFree, InsSharedType
<1>15. CASE Ins!LinkVal(t)
  BY <1>2, <1>15 DEF Ins!LinkVal, InsSharedType
<1>16. CASE Ins!WriteKey(t)
  BY <1>2, <1>16, InsCallTypes DEF Ins!WriteKey, InsSharedType
<1>17. CASE Ins!RemoveKey(t)
  <2>1. InsSharedType'
    BY <1>2, <1>17 DEF Ins!RemoveKey, InsSharedType
  <2> QED BY <1>1, <1>17, <2>1 DEF Ins!RemoveKey
<1>18. CASE Ins!RemoveCas(t)
  <2>1. InsSharedType'
    BY <1>2, <1>18 DEF Ins!RemoveCas, InsSharedType
  <2> QED BY <1>18, <2>1 DEF Ins!RemoveCas
<1>19. CASE Ins!RemoveVal(t)
  BY <1>3, <1>19 DEF Ins!RemoveVal, InsControl, InsSharedType
<1>20. CASE Ins!RemoveFree(t)
  BY <1>2, <1>20, InsCallTypes DEF Ins!RemoveFree, InsSharedType
<1> QED
  BY <1>6, <1>7, <1>8, <1>9, <1>10, <1>11, <1>12, <1>13, <1>14, <1>15, <1>16,
     <1>17, <1>18, <1>19, <1>20 DEF InsStepOf, Ins!Work

-----------------------------------------------------------------------------
(* The entries and who works on them.                                      *)

LEMMA InsStateParts ==
  ASSUME InsState
  PROVE  /\ InsLocalType /\ InsSharedType
         /\ InsKeysOk /\ InsBlocksApart /\ InsValuesOk
         /\ \A t \in Threads : InsControl(t) /\ InsEntryOk(t) /\ InsFreshOk(t)
BY InsTypeParts DEF InsState

(* The call of a thread.                                                   *)
LEMMA InsCallOf ==
  ASSUME InsLocalType, NEW t \in Threads, InsControl(t)
  PROVE  /\ ~Ins!At(t, "idle") => call[t].key \in Keys /\ call[t] # Ins!Idle
         /\ pc[t] \in InsLocking \cup {"exists", "lock"}
              => call[t].val \in Ins!Vals
         /\ call[t].val \in InsVals
BY InsCallTypes DEF InsLocalType, InsControl, Ins!At

LEMMA InsLockStep ==
  ASSUME NEW t \in Threads, InsStepOf(t)
  PROVE  \/ lock' = lock
         \/ Ins!At(t, "lock") /\ lock = NoThread
         \/ pc[t] \in InsLocking
<1> USE DEF Ins!Hold, Ins!Finish, InsLocking, Ins!At
<1>1. CASE Ins!Get(t) \/ Ins!Put(t) \/ Ins!Remove(t) \/ Ins!GetVal(t)
             \/ Ins!GetKey(t) \/ Ins!GetAgain(t)
           \/ Ins!Exists(t) \/ Ins!RemoveKey(t) \/ Ins!RemoveCas(t)
           \/ Ins!RemoveVal(t) \/ Ins!RemoveFree(t)
  BY <1>1
  DEF Ins!Get, Ins!Put, Ins!Remove, Ins!Begin, Ins!GetVal, Ins!ScanVal,
      Ins!GetKey, Ins!ScanKey,
     Ins!GetAgain, Ins!ScanAgain, Ins!Exists, Ins!ScanExists, Ins!RemoveKey,
     Ins!RemoveCas,
     Ins!RemoveVal, Ins!RemoveFree
<1>2. CASE Ins!PutLock(t) \/ Ins!PutScan(t) \/ Ins!PutFree(t)
             \/ Ins!LinkVal(t) \/ Ins!WriteKey(t)
  BY <1>2
  DEF Ins!PutLock, Ins!CanLock, Ins!PutScan, Ins!PutFree, Ins!LinkVal,
      Ins!WriteKey
<1> QED BY <1>1, <1>2 DEF InsStepOf, Ins!Work

LEMMA InsOtherEntries ==
  ASSUME InsState, NEW t \in Threads, NEW u \in Threads \ {t}, InsStepOf(t)
  PROVE  InsControl(u)' /\ InsEntryOk(u)'
<1>1. /\ InsLocalType /\ InsSharedType /\ InsEffectOf(t) /\ InsOthersSame(t)
      /\ InsControl(t) /\ InsEntryOk(t) /\ InsControl(u) /\ InsEntryOk(u)
      /\ InsKeysOk /\ InsBlocksApart
  BY InsStateParts, InsStepEffect, InsStepOthers
<1>2. /\ pc'[u] = pc[u] /\ call'[u] = call[u] /\ idx'[u] = idx[u]
      /\ cur'[u] = cur[u] /\ slot'[u] = slot[u]
  BY <1>1 DEF InsOthersSame
<1>3. /\ Len(cells) \in Nat /\ DOMAIN cells = 1 .. Len(cells)
      /\ \A i \in DOMAIN cells :
           cells[i].key \in InsKeys /\ cells[i].val \in InsVals
      /\ Entries \in Nat /\ idx[u] \in Nat /\ slot[u] \in Nat
  BY <1>1, InsCellType, CallsAssumption DEF InsLocalType
<1>4. DOMAIN cells \subseteq DOMAIN cells' /\ Len(cells') >= Len(cells)
      /\ (pc[t] \notin InsLocking => DOMAIN cells' = DOMAIN cells)
  BY <1>1, <1>3
  DEF InsEffectOf, InsValTo, InsKeyTo, InsLonger, Ins!At, InsLocking
<1>5. pc[u] \in InsLocking => lock' = u /\ pc[t] \notin InsLocking
  BY <1>1, InsLockStep, CallsAssumption DEF InsEntryOk
<1>6. InsControl(u)'
  BY <1>1, <1>2, <1>3, <1>4 DEF InsControl, Ins!At
<1>7. /\ ~Ins!At(t, "idle") => call[t].key \in Keys
      /\ ~Ins!At(u, "idle") => call[u].key \in Keys
      /\ NoKey \notin Keys /\ KeyBlck \notin Keys /\ KeyBlck # NoKey
  BY <1>1, InsCallOf, CallsAssumption, BlckAssumption
<1>8. \A i \in DOMAIN cells :
        /\ cells[i].key = KeyBlck /\ ~(Ins!At(t, "rem_free") /\ i = idx[t])
             => cells'[i].key = KeyBlck
        /\ cells[i].key = NoKey /\ pc[t] \notin InsLocking
             => cells'[i].key = NoKey
        /\ pc[t] \notin InsLocking /\ cells'[i].key \in Keys
             => cells'[i].key = cells[i].key
        /\ pc[t] \notin InsLocking => cells'[i].val = cells[i].val
  BY <1>1, <1>3, <1>7
  DEF InsEffectOf, InsValTo, InsKeyTo, InsLonger, Ins!At, InsLocking,
      InsEntryOk, Ins!Mine, InsControl
<1>9. InsBlocking(u) => cells'[idx[u]].key = KeyBlck
  BY <1>1, <1>8 DEF InsEntryOk, InsControl, InsBlocking, InsBlocksApart, Ins!At
<1>10. pc[u] \in {"link_val", "write_key"} => cells'[idx[u]].key = NoKey
  BY <1>1, <1>5, <1>8 DEF InsEntryOk, InsControl, InsLocking
<1>11. /\ Ins!At(u, "write_key") => cells'[idx[u]].val = call[u].val
       /\ slot[u] # 0 => cells'[slot[u]].key = NoKey
  BY <1>1, <1>5, <1>8 DEF InsEntryOk, InsControl, InsLocking, Ins!At
<1>12. pc[u] \in InsLocking =>
         \A i \in DOMAIN cells' :
           (Ins!At(u, "scan") => i < idx[u]) => cells'[i].key # call[u].key
  BY <1>1, <1>4, <1>5, <1>7, <1>8 DEF InsEntryOk, InsLocking, Ins!At
<1> QED
  BY <1>2, <1>5, <1>6, <1>9, <1>10, <1>11, <1>12
  DEF InsEntryOk, InsBlocking, Ins!At

LEMMA InsActorControl ==
  ASSUME InsState, NEW t \in Threads, InsStepOf(t)
  PROVE  InsControl(t)'
<1>1. /\ InsLocalType /\ InsSharedType /\ InsEffectOf(t)
      /\ InsControl(t) /\ InsEntryOk(t)
  BY InsStateParts, InsStepEffect
<1>2. /\ Len(cells) \in Nat /\ DOMAIN cells = 1 .. Len(cells)
      /\ Entries \in Nat \ {0} /\ idx[t] \in Nat /\ slot[t] \in Nat
      /\ call[t] \in Ins!Calls
  BY <1>1, InsCellType, CallsAssumption DEF InsLocalType
<1>3. DOMAIN cells \subseteq DOMAIN cells' /\ Len(cells') >= Len(cells)
  BY <1>1, <1>2 DEF InsEffectOf, InsValTo, InsKeyTo, InsLonger
<1>4. /\ Ins!Idle.op = "none"
      /\ \A c \in Ins!Calls : c # Ins!Idle => c.op # "none"
  BY InsCallTypes
<1> USE <1>1, <1>2, <1>4
    DEF InsControl, Ins!At, Ins!Goto, Ins!SetIdx, Ins!Read, Ins!Decide,
        Ins!Return, Ins!Hold, Ins!Finish,
        InsLocking, InsLocalType
<1>5. CASE Ins!Get(t) \/ Ins!Remove(t) \/ Ins!Put(t)
  <2>1. PICK op \in {"get", "remove", "put"}, k \in Keys,
             v \in InsVals \cup {puts + 1} :
          /\ call' = [call EXCEPT ![t] = [op |-> op, key |-> k, val |-> v]]
          /\ op = "get" => Ins!Get(t)
          /\ op = "remove" => Ins!Remove(t)
          /\ op = "put" => Ins!Put(t)
    BY <1>5 DEF Ins!Get, Ins!Remove, Ins!Put, Ins!Begin, InsVals, Ins!NoVal
  <2>2. call'[t] # Ins!Idle /\ call'[t].op = op
    BY <2>1
  <2>3. idx'[t] = 1 /\ slot'[t] = 0
    BY <1>5 DEF Ins!Get, Ins!Remove, Ins!Put, Ins!Begin
  <2>4. pc'[t] = CASE op = "get" -> "get_val"
                   [] op = "remove" -> "rem_key"
                   [] op = "put" -> "exists"
    BY <2>1 DEF Ins!Get, Ins!Remove, Ins!Put, Ins!Begin
  <2> QED BY <2>2, <2>3, <2>4
<1>6. CASE Ins!GetVal(t) \/ Ins!GetKey(t) \/ Ins!GetAgain(t)
  BY <1>6
  DEF Ins!GetVal, Ins!ScanVal, Ins!GetKey, Ins!ScanKey, Ins!GetAgain,
      Ins!ScanAgain, Ins!AtEnd
<1>7. CASE Ins!Exists(t)
  BY <1>7 DEF Ins!Exists, Ins!ScanExists, Ins!ExistsDone
<1>8. CASE Ins!PutLock(t) \/ Ins!PutScan(t)
  BY <1>8 DEF Ins!PutLock, Ins!CanLock, Ins!PutScan, Ins!AtEnd
<1>9. CASE Ins!PutFree(t)
  <2>1. CASE slot[t] # 0
    BY <1>3, <1>9, <2>1 DEF Ins!PutFree
  <2>2. CASE slot[t] = 0
    <3>1. InsLonger
      BY <1>9, <2>2, InsLinkedLonger DEF Ins!PutFree
    <3>2. idx[t] = Len(cells) + 1
      BY <1>9 DEF Ins!PutFree, Ins!AtEnd
    <3> QED BY <1>9, <2>2, <3>1, <3>2 DEF Ins!PutFree, InsLonger
  <2> QED BY <2>1, <2>2
<1>10. CASE Ins!LinkVal(t) \/ Ins!WriteKey(t)
  BY <1>3, <1>10 DEF Ins!LinkVal, Ins!WriteKey
<1>11. CASE Ins!RemoveKey(t)
  BY <1>11 DEF Ins!RemoveKey, Ins!AtEnd
<1>12. CASE Ins!RemoveCas(t) \/ Ins!RemoveVal(t)
           \/ Ins!RemoveFree(t)
  BY <1>3, <1>12 DEF Ins!RemoveCas, Ins!RemoveVal, Ins!RemoveFree
<1> QED
  BY <1>5, <1>6, <1>7, <1>8, <1>9, <1>10, <1>11, <1>12 DEF InsStepOf, Ins!Work

LEMMA InsActorEntry ==
  ASSUME InsState, NEW t \in Threads, InsStepOf(t)
  PROVE  InsEntryOk(t)'
<1>1. /\ InsLocalType /\ InsSharedType /\ InsEffectOf(t)
      /\ InsControl(t) /\ InsEntryOk(t)
  BY InsStateParts, InsStepEffect
<1>2. /\ Len(cells) \in Nat /\ DOMAIN cells = 1 .. Len(cells)
      /\ \A i \in DOMAIN cells :
           cells[i].key \in InsKeys /\ cells[i].val \in InsVals
      /\ Entries \in Nat \ {0} /\ idx[t] \in Nat /\ slot[t] \in Nat
  BY <1>1, InsCellType, CallsAssumption DEF InsLocalType
<1>3. /\ ~Ins!At(t, "idle") => call[t].key \in Keys /\ call[t].key # NoKey
      /\ KeyBlck # NoKey
  BY <1>1, InsCallOf, CallsAssumption, BlckAssumption
<1> USE <1>1, <1>2, <1>3
    DEF InsEntryOk, InsControl, Ins!At, Ins!Goto, Ins!SetIdx, Ins!Read,
        Ins!Decide, Ins!Return, Ins!Hold, Ins!Finish,
        InsLocking, InsBlocking, InsLocalType
<1>5. CASE Ins!Get(t) \/ Ins!Remove(t) \/ Ins!Put(t)
  BY <1>5 DEF Ins!Get, Ins!Remove, Ins!Put, Ins!Begin
<1>6. CASE Ins!GetVal(t) \/ Ins!GetKey(t) \/ Ins!GetAgain(t)
  BY <1>6
  DEF Ins!GetVal, Ins!ScanVal, Ins!GetKey, Ins!ScanKey, Ins!GetAgain,
      Ins!ScanAgain
<1>7. CASE Ins!Exists(t)
  BY <1>7 DEF Ins!Exists, Ins!ScanExists, Ins!ExistsDone
<1>8. CASE Ins!PutLock(t)
  BY <1>8 DEF Ins!PutLock, Ins!CanLock
<1>13. CASE Ins!PutScan(t)
  <2>1. CASE Ins!Mine(t)
    BY <1>13, <2>1 DEF Ins!PutScan
  <2>2. CASE ~Ins!Mine(t)
    BY <1>13, <2>2 DEF Ins!PutScan, Ins!Mine, Ins!AtEnd
  <2> QED BY <2>1, <2>2
<1>9. CASE Ins!PutFree(t)
  <2>3. /\ Ins!At(t, "scan")
        /\ \A i \in DOMAIN cells : cells[i].key # call[t].key
    BY <1>9 DEF Ins!PutFree, Ins!AtEnd
  <2>1. CASE slot[t] # 0
    <3>1. InsValTo(slot[t], call[t].val)
      BY <1>9, <2>1, InsCallOf, InsSetValTo DEF Ins!PutFree
    <3>2. /\ pc'[t] = "write_key" /\ idx'[t] = slot[t] /\ slot'[t] = 0
          /\ lock' = t /\ call' = call
      BY <1>9, <2>1 DEF Ins!PutFree
    <3>3. /\ cells'[slot[t]].key = NoKey /\ cells'[slot[t]].val = call[t].val
          /\ \A i \in DOMAIN cells' : cells'[i].key # call[t].key
      BY <2>1, <2>3, <3>1 DEF InsValTo
    <3> QED BY <3>2, <3>3
  <2>2. CASE slot[t] = 0
    <3>1. InsLonger
      BY <1>9, <2>2, InsLinkedLonger DEF Ins!PutFree
    <3>2. idx[t] = Len(cells) + 1
      BY <1>9 DEF Ins!PutFree, Ins!AtEnd
    <3>3. /\ pc'[t] = "link_val" /\ idx'[t] = idx[t] /\ slot'[t] = 0
          /\ lock' = t /\ call' = call
      BY <1>9, <2>2 DEF Ins!PutFree
    <3>4. /\ cells'[idx[t]].key = NoKey
          /\ \A i \in DOMAIN cells' : cells'[i].key # call[t].key
      BY <2>3, <3>1, <3>2 DEF InsLonger
    <3> QED BY <3>3, <3>4
  <2> QED BY <2>1, <2>2
<1>10. CASE Ins!LinkVal(t)
  <2>1. InsValTo(idx[t], call[t].val)
    BY <1>10, InsCallOf, InsSetValTo DEF Ins!LinkVal
  <2>2. /\ pc'[t] = "write_key" /\ idx'[t] = idx[t] /\ slot'[t] = 0
        /\ lock' = t /\ call' = call
    BY <1>10 DEF Ins!LinkVal
  <2>3. /\ cells'[idx[t]].key = NoKey /\ cells'[idx[t]].val = call[t].val
        /\ \A i \in DOMAIN cells' : cells'[i].key # call[t].key
    BY <1>10, <2>1 DEF Ins!LinkVal, InsValTo
  <2> QED BY <2>2, <2>3
<1>14. CASE Ins!WriteKey(t)
  BY <1>14 DEF Ins!WriteKey
<1>11. CASE Ins!RemoveKey(t)
  BY <1>11 DEF Ins!RemoveKey
<1>12. CASE Ins!RemoveCas(t)
  <2>1. CASE Ins!Mine(t)
    <3>1. InsKeyTo(idx[t], KeyBlck)
      BY <1>12, <2>1, InsSetKeyTo DEF Ins!RemoveCas, InsKeys
    <3>2. pc'[t] = "rem_val" /\ idx'[t] = idx[t] /\ slot'[t] = 0
      BY <1>12, <2>1 DEF Ins!RemoveCas
    <3>3. cells'[idx[t]].key = KeyBlck
      BY <1>12, <3>1 DEF InsKeyTo, Ins!RemoveCas
    <3> QED BY <3>2, <3>3
  <2>2. CASE ~Ins!Mine(t)
    BY <1>12, <2>2 DEF Ins!RemoveCas
  <2> QED BY <2>1, <2>2
<1>15. CASE Ins!RemoveVal(t)
  BY <1>15 DEF Ins!RemoveVal
<1>16. CASE Ins!RemoveFree(t)
  BY <1>16 DEF Ins!RemoveFree
<1> QED
  BY <1>5, <1>6, <1>7, <1>8, <1>9, <1>10, <1>11, <1>12, <1>13, <1>14, <1>15,
     <1>16 DEF InsStepOf, Ins!Work

LEMMA InsKeysStep ==
  ASSUME InsState, NEW t \in Threads, InsStepOf(t)
  PROVE  InsKeysOk' /\ InsBlocksApart'
<1>1. /\ InsLocalType /\ InsSharedType /\ InsEffectOf(t) /\ InsOthersSame(t)
      /\ InsKeysOk /\ InsBlocksApart /\ InsControl(t) /\ InsEntryOk(t)
      /\ \A u \in Threads : InsEntryOk(u) /\ InsControl(u)
  BY InsStateParts, InsStepEffect, InsStepOthers
<1>2. /\ Len(cells) \in Nat /\ DOMAIN cells = 1 .. Len(cells)
      /\ \A i \in DOMAIN cells :
           cells[i].key \in InsKeys /\ cells[i].val \in InsVals
      /\ Entries \in Nat /\ idx[t] \in Nat /\ slot[t] \in Nat
  BY <1>1, InsCellType, CallsAssumption DEF InsLocalType
<1>3. /\ ~Ins!At(t, "idle") => call[t].key \in Keys
      /\ pc[t] \in InsLocking => call[t].val # Ins!NoVal
      /\ NoKey \notin Keys /\ KeyBlck \notin Keys /\ KeyBlck # NoKey
  <2>1. \A v \in Ins!Vals : v # Ins!NoVal
    BY DEF Ins!Vals, Ins!NoVal
  <2> QED BY <1>1, <2>1, InsCallOf, CallsAssumption, BlckAssumption
<1>4. InsKeysOk'
  <2>1. ASSUME pc[t] # "write_key" PROVE InsKeysOk'
    <3>1. \A i \in DOMAIN cells' :
            cells'[i].key \in Keys =>
              /\ i \in DOMAIN cells
              /\ cells'[i].key = cells[i].key
              /\ cells'[i].val = cells[i].val
      BY <1>1, <1>2, <1>3, <2>1
      DEF InsEffectOf, InsKeyTo, InsValTo, InsLonger, InsEntryOk, InsControl,
          InsLocking, Ins!At
    <3> QED BY <1>1, <3>1 DEF InsKeysOk
  <2>2. CASE pc[t] = "write_key"
    <3>1. UNCHANGED cells \/ InsKeyTo(idx[t], call[t].key)
      BY <1>1, <2>2 DEF InsEffectOf, Ins!At
    <3>2. /\ cells[idx[t]].val # Ins!NoVal /\ idx[t] \in DOMAIN cells
          /\ \A i \in DOMAIN cells : cells[i].key # call[t].key
      BY <1>1, <1>3, <2>2 DEF InsEntryOk, InsControl, InsLocking, Ins!At
    <3> QED BY <1>1, <3>1, <3>2 DEF InsKeysOk, InsKeyTo
  <2> QED BY <2>1, <2>2
<1>5. InsBlocksApart'
  <2>1. \A u \in Threads \ {t} :
          (InsBlocking(u)' <=> InsBlocking(u)) /\ idx'[u] = idx[u]
    BY <1>1 DEF InsOthersSame, InsBlocking
  <2>2. InsBlocking(t)' /\ ~InsBlocking(t) =>
          idx'[t] = idx[t] /\ cells[idx[t]].key \in Keys
    BY <1>1, <1>3
    DEF InsStepOf, Ins!Work, Ins!Get, Ins!Remove, Ins!Put, Ins!Begin,
        Ins!GetVal, Ins!ScanVal, Ins!GetKey,
        Ins!ScanKey,
        Ins!GetAgain, Ins!ScanAgain, Ins!Exists, Ins!ScanExists,
        Ins!ExistsDone, Ins!PutLock, Ins!PutScan,
        Ins!PutFree, Ins!LinkVal, Ins!WriteKey, Ins!RemoveKey, Ins!RemoveCas,
        Ins!RemoveVal,
        Ins!RemoveFree,
        InsBlocking, Ins!Mine, Ins!At, Ins!Goto, Ins!Decide, Ins!Return,
        Ins!Hold, Ins!Finish, InsLocalType
  <2>3. InsBlocking(t)' /\ InsBlocking(t) => idx'[t] = idx[t]
    BY <1>1
    DEF InsStepOf, Ins!Work, Ins!Get, Ins!Remove, Ins!Put, Ins!Begin,
        Ins!GetVal, Ins!ScanVal, Ins!GetKey,
        Ins!ScanKey,
        Ins!GetAgain, Ins!ScanAgain, Ins!Exists, Ins!ScanExists, Ins!PutLock,
        Ins!CanLock, Ins!PutScan,
        Ins!PutFree, Ins!LinkVal, Ins!WriteKey, Ins!RemoveKey, Ins!RemoveCas,
        Ins!RemoveVal,
        Ins!RemoveFree,
        InsBlocking, Ins!At, Ins!Goto, Ins!Decide, Ins!Return, InsLocalType
  <2> QED
    BY <1>1, <1>3, <2>1, <2>2, <2>3 DEF InsBlocksApart, InsEntryOk
<1> QED BY <1>4, <1>5

(* The values: a put stores a number that has not occurred before.         *)
LEMMA InsValuesStep ==
  ASSUME InsState, NEW t \in Threads, InsStepOf(t)
  PROVE  InsValuesOk' /\ \A u \in Threads : InsFreshOk(u)'
<1>1. /\ InsLocalType /\ InsSharedType /\ InsEffectOf(t) /\ InsOthersSame(t)
      /\ InsValuesOk /\ InsControl(t)
      /\ \A u \in Threads : InsFreshOk(u) /\ InsControl(u)
      /\ InsLocalType' /\ InsSharedType'
  BY InsStateParts, InsStepEffect, InsStepOthers, InsStepType
<1>2. /\ Len(cells) \in Nat /\ DOMAIN cells = 1 .. Len(cells)
      /\ \A i \in DOMAIN cells : cells[i].val \in InsVals
      /\ Entries \in Nat /\ idx[t] \in Nat /\ slot[t] \in Nat
      /\ puts \in Nat /\ puts' \in Nat
  BY <1>1, InsCellType, CallsAssumption DEF InsLocalType, InsSharedType
<1>3. /\ InsVals \subseteq Nat /\ Ins!NoVal = 0 /\ Ins!Vals \subseteq Nat
      /\ \A v \in Ins!Vals : v # Ins!NoVal
  BY CallsAssumption DEF InsVals, Ins!NoVal, Ins!Vals
<1>4. \A u \in Threads :
        /\ cur[u] \in InsVals /\ call[u].val \in InsVals
        /\ cur'[u] \in InsVals /\ call'[u].val \in InsVals
        /\ InsUnstored(u) => call[u].val \in Ins!Vals
  BY <1>1, InsCallTypes, InsCallOf DEF InsLocalType, InsUnstored, InsLocking
<1> DEFINE Old == {Ins!NoVal} \cup {cells[i].val : i \in DOMAIN cells}
<1>5. \/ /\ Ins!Put(t) /\ puts' = puts + 1 /\ call'[t].val = puts + 1
         /\ cur'[t] = cur[t] /\ UNCHANGED cells
      \/ /\ puts' = puts /\ call'[t].val \in {call[t].val, Ins!NoVal}
         /\ cur'[t] \in {cur[t]} \cup Old
         /\ InsUnstored(t)' => InsUnstored(t) /\ call'[t].val = call[t].val
  <2> USE DEF InsLocalType, Ins!Goto, Ins!SetIdx, Ins!Read, Ins!Decide,
              Ins!Return, Ins!Hold, Ins!Finish, Ins!At, InsUnstored
  <2>1. CASE Ins!Put(t)
    <3>1. PICK k \in Keys :
            call' =
              [call EXCEPT ![t] = [op |-> "put", key |-> k, val |-> puts + 1]]
      BY <2>1 DEF Ins!Put, Ins!Begin
    <3>2. call'[t] = [op |-> "put", key |-> k, val |-> puts + 1]
      BY <1>1, <3>1
    <3>3. puts' = puts + 1 /\ cur'[t] = cur[t] /\ UNCHANGED cells
      BY <2>1 DEF Ins!Put, Ins!Begin
    <3> QED BY <2>1, <3>2, <3>3
  <2>2. CASE Ins!Get(t) \/ Ins!Remove(t)
    <3>1. PICK k \in Keys, op \in {"get", "remove"} :
            call' =
              [call EXCEPT ![t] = [op |-> op, key |-> k, val |-> Ins!NoVal]]
      BY <2>2 DEF Ins!Get, Ins!Remove, Ins!Begin
    <3>2. call'[t] = [op |-> op, key |-> k, val |-> Ins!NoVal]
      BY <1>1, <3>1
    <3> QED BY <1>1, <2>2, <3>2 DEF Ins!Get, Ins!Remove, Ins!Begin
  <2>3. Ins!Idle.val = Ins!NoVal /\ Old = Old
    BY InsCallTypes
  <2>4. CASE Ins!GetVal(t)
    BY <1>1, <2>3, <2>4 DEF Ins!GetVal, Ins!ScanVal, Ins!AtEnd, InsControl
  <2>5. CASE Ins!GetKey(t) \/ Ins!GetAgain(t) \/ Ins!Exists(t)
               \/ Ins!PutLock(t) \/ Ins!PutScan(t)
    BY <1>1, <2>3, <2>5
    DEF Ins!GetKey, Ins!ScanKey, Ins!GetAgain, Ins!ScanAgain, Ins!Exists,
        Ins!ScanExists, Ins!ExistsDone,
        Ins!PutLock, Ins!CanLock, Ins!PutScan
  <2>6. CASE Ins!PutFree(t) \/ Ins!LinkVal(t) \/ Ins!WriteKey(t)
               \/ Ins!RemoveKey(t)
             \/ Ins!RemoveCas(t) \/ Ins!RemoveFree(t)
    BY <1>1, <2>3, <2>6
    DEF Ins!PutFree, Ins!LinkVal, Ins!WriteKey, Ins!RemoveKey, Ins!RemoveCas,
        Ins!RemoveFree
  <2>7. CASE Ins!RemoveVal(t)
    BY <1>1, <2>7 DEF Ins!RemoveVal, InsControl
  <2> QED
    BY <2>1, <2>2, <2>4, <2>5, <2>6, <2>7 DEF InsStepOf, Ins!Work
<1>6. \A i \in DOMAIN cells' :
        cells'[i].val \in Old \/ /\ cells'[i].val = call[t].val
                                 /\ InsUnstored(t) /\ ~InsUnstored(t)'
  <2>1. Ins!NoVal \in Old /\ \A i \in DOMAIN cells : cells[i].val \in Old
    OBVIOUS
  <2> HIDE DEF Old
  <2>2. CASE UNCHANGED cells
    BY <2>1, <2>2
  <2>3. CASE InsLonger
    BY <2>1, <2>3 DEF InsLonger
  <2>4. CASE \E i, k : InsKeyTo(i, k)
    BY <2>1, <2>4 DEF InsKeyTo
  <2>5. ASSUME NEW i, InsValTo(i, call[t].val), pc[t] \in {"scan", "link_val"},
               pc'[t] = "write_key"
        PROVE  \A j \in DOMAIN cells' :
                 cells'[j].val \in Old \/ /\ cells'[j].val = call[t].val
                                          /\ InsUnstored(t) /\ ~InsUnstored(t)'
    BY <2>1, <2>5 DEF InsValTo, InsUnstored
  <2> QED BY <1>1, <2>2, <2>3, <2>4, <2>5 DEF InsEffectOf, Ins!At
<1>7. \A v \in Old : v \in Nat /\ v <= puts
  <2>1. \A i \in DOMAIN cells : cells[i].val \in Nat /\ cells[i].val <= puts
    BY <1>1, <1>2, <1>3 DEF InsValuesOk
  <2>2. Ins!NoVal \in Nat /\ Ins!NoVal <= puts
    BY <1>2, <1>3
  <2> QED BY <2>1, <2>2
<1>8. InsValuesOk'
  <2>1. \A i \in DOMAIN cells' : cells'[i].val <= puts'
    <3>1. puts' >= puts /\ call[t].val <= puts
      BY <1>1, <1>2, <1>5 DEF InsValuesOk
    <3>2. call[t].val \in Nat
      BY <1>3, <1>4
    <3> HIDE DEF Old
    <3> QED BY <1>2, <1>6, <1>7, <3>1, <3>2
  <2>2. ASSUME NEW u \in Threads
        PROVE  cur'[u] <= puts' /\ call'[u].val <= puts'
    <3>1. cur[u] \in Nat /\ call[u].val \in Nat
      BY <1>3, <1>4
    <3> QED
      BY <1>1, <1>2, <1>3, <1>5, <1>7, <3>1 DEF InsValuesOk, InsOthersSame
  <2> QED BY <2>1, <2>2 DEF InsValuesOk
<1>9. ASSUME NEW u \in Threads PROVE InsFreshOk(u)'
  <2>1. CASE Ins!Put(t) /\ puts' = puts + 1 /\ call'[t].val = puts + 1
             /\ cur'[t] = cur[t] /\ UNCHANGED cells
    <3>1. CASE u = t
      BY <1>1, <1>2, <1>3, <1>4, <2>1, <3>1
      DEF InsValuesOk, InsFreshOk, InsOthersSame
    <3>2. CASE u # t
      BY <1>1, <1>2, <1>3, <1>4, <2>1, <3>2
      DEF InsValuesOk, InsFreshOk, InsOthersSame, InsUnstored
    <3> QED BY <3>1, <3>2
  <2>2. CASE /\ call'[t].val \in {call[t].val, Ins!NoVal}
             /\ cur'[t] \in {cur[t]} \cup Old
             /\ InsUnstored(t)' => InsUnstored(t) /\ call'[t].val = call[t].val
    <3>1. CASE u = t
      BY <1>1, <1>4, <1>6, <1>3, <2>2, <3>1 DEF InsFreshOk, InsOthersSame
    <3>2. CASE u # t
      BY <1>1, <1>4, <1>6, <1>3, <2>2, <3>2
      DEF InsFreshOk, InsOthersSame, InsUnstored
    <3> QED BY <3>1, <3>2
  <2> QED BY <1>5, <2>1, <2>2
<1> QED BY <1>8, <1>9

-----------------------------------------------------------------------------
(* The map that the entries stand for.                                     *)
InsStoreFacts ==
  \A k \in Keys :
    /\ \A i \in DOMAIN cells : cells[i].key = k => Ins!Store[k] = cells[i].val
    /\ (\A i \in DOMAIN cells : cells[i].key # k) => Ins!Store[k] = Ins!NoVal

LEMMA InsStoreIs == InsSharedType /\ InsKeysOk => InsStoreFacts
<1> SUFFICES ASSUME InsSharedType, InsKeysOk, NEW k \in Keys
             PROVE  /\ \A i \in DOMAIN cells :
                         cells[i].key = k => Ins!Store[k] = cells[i].val
                    /\ (\A i \in DOMAIN cells : cells[i].key # k)
                         => Ins!Store[k] = Ins!NoVal
  BY DEF InsStoreFacts
<1>1. Ins!Store[k] = Ins!Lookup(k)
  BY DEF Ins!Store
<1>2. ASSUME NEW i \in DOMAIN cells, cells[i].key = k
      PROVE  Ins!Lookup(k) = cells[i].val
  <2>1. Ins!Having(k) = {i}
    BY <1>2 DEF Ins!Having, InsKeysOk
  <2>2. i \in Nat
    BY InsCellType
  <2>3. Ins!Min({i}) = i
    BY <2>2 DEF Ins!Min
  <2> QED BY <2>1, <2>3 DEF Ins!Lookup
<1>3. (\A i \in DOMAIN cells : cells[i].key # k) => Ins!Lookup(k) = Ins!NoVal
  BY DEF Ins!Lookup, Ins!Having
<1> QED BY <1>1, <1>2, <1>3

LEMMA InsLabelOf ==
  ASSUME NEW t \in Threads, InsStepOf(t)
  PROVE  /\ Ins!At(t, "write_key") => Ins!WriteKey(t)
         /\ Ins!At(t, "rem_cas") => Ins!RemoveCas(t)
<1>1. Ins!Get(t) \/ Ins!Put(t) \/ Ins!Remove(t) => pc[t] = "idle"
  BY DEF Ins!Get, Ins!Put, Ins!Remove, Ins!Begin, Ins!At
<1>2. Ins!GetVal(t) \/ Ins!GetKey(t) \/ Ins!GetAgain(t)
        => pc[t] \in {"get_val", "get_key", "get_again"}
  BY
  DEF Ins!GetVal, Ins!ScanVal, Ins!GetKey, Ins!ScanKey, Ins!GetAgain,
      Ins!ScanAgain, Ins!At
<1>3. Ins!Exists(t) \/ Ins!PutLock(t) \/ Ins!PutScan(t) \/ Ins!PutFree(t)
        \/ Ins!LinkVal(t)
        => pc[t] \in {"exists", "lock", "scan", "link_val"}
  BY
  DEF Ins!Exists, Ins!ScanExists, Ins!PutLock, Ins!CanLock, Ins!PutScan,
      Ins!PutFree, Ins!LinkVal, Ins!At
<1>4. Ins!RemoveKey(t) \/ Ins!RemoveVal(t)
           \/ Ins!RemoveFree(t)
        => pc[t] \in {"rem_key", "rem_val", "rem_free"}
  BY DEF Ins!RemoveKey, Ins!RemoveVal, Ins!RemoveFree, Ins!At
<1>5. /\ Ins!WriteKey(t) => pc[t] = "write_key"
      /\ Ins!RemoveCas(t) => pc[t] = "rem_cas"
  BY DEF Ins!WriteKey, Ins!RemoveCas, Ins!At
<1> QED
  BY <1>1, <1>2, <1>3, <1>4, <1>5 DEF InsStepOf, Ins!Work, Ins!At

LEMMA InsStoreStep ==
  ASSUME InsState, InsSharedType', InsKeysOk', NEW t \in Threads,
         InsStepOf(t), NEW k \in Keys
  PROVE  Ins!Store'[k] =
           IF k = call[t].key /\ Ins!At(t, "write_key") THEN call[t].val
           ELSE IF k = call[t].key /\ Ins!At(t, "rem_cas") /\ Ins!Mine(t)
           THEN Ins!NoVal ELSE Ins!Store[k]
<1>1. /\ InsLocalType /\ InsSharedType /\ InsEffectOf(t) /\ InsKeysOk
      /\ InsControl(t) /\ InsEntryOk(t)
  BY InsStateParts, InsStepEffect
<1>2. /\ Len(cells) \in Nat /\ DOMAIN cells = 1 .. Len(cells)
      /\ \A i \in DOMAIN cells : cells[i].key \in InsKeys
      /\ Entries \in Nat
  BY <1>1, InsCellType, CallsAssumption
<1>3. /\ ~Ins!At(t, "idle") => call[t].key \in Keys
      /\ NoKey \notin Keys /\ KeyBlck \notin Keys
  BY <1>1, InsCallOf, CallsAssumption, BlckAssumption
<1>4. InsStoreFacts
  BY <1>1, InsStoreIs
<1>5. InsStoreFacts'
  BY InsStoreIs, PTL
<1>6. CASE Ins!At(t, "write_key")
  <2>1. InsKeyTo(idx[t], call[t].key) /\ idx[t] \in DOMAIN cells
    BY <1>1, <1>3, <1>6, InsLabelOf, InsSetKeyTo
    DEF Ins!WriteKey, InsControl, Ins!At, InsKeys
  <2>2. cells[idx[t]].key = NoKey /\ cells[idx[t]].val = call[t].val
    BY <1>1, <1>6 DEF InsEntryOk, Ins!At
  <2>3. CASE k = call[t].key
    BY <1>5, <1>6, <2>1, <2>2, <2>3 DEF InsKeyTo, InsStoreFacts
  <2>4. CASE k # call[t].key
    <3>1. \A i \in DOMAIN cells : (cells'[i].key = k <=> cells[i].key = k)
                                  /\ cells'[i].val = cells[i].val
      BY <1>3, <2>1, <2>2, <2>4 DEF InsKeyTo
    <3>2. Ins!Store'[k] = Ins!Store[k]
      BY <1>4, <1>5, <2>1, <3>1 DEF InsKeyTo, InsStoreFacts
    <3> QED BY <2>4, <3>2
  <2> QED BY <2>3, <2>4
<1>7. CASE Ins!At(t, "rem_cas") /\ Ins!Mine(t)
  <2>1. InsKeyTo(idx[t], KeyBlck) /\ idx[t] \in DOMAIN cells
    BY <1>1, <1>7, InsLabelOf, InsSetKeyTo
    DEF Ins!RemoveCas, InsControl, Ins!At, InsKeys
  <2>2. cells[idx[t]].key = call[t].key
    BY <1>7 DEF Ins!Mine
  <2>5. ~Ins!At(t, "write_key") /\ call[t].key \in Keys
    BY <1>3, <1>7 DEF Ins!At
  <2>3. CASE k = call[t].key
    <3>1. \A i \in DOMAIN cells' : cells'[i].key # k
      BY <1>1, <1>3, <2>1, <2>2, <2>3 DEF InsKeyTo, InsKeysOk
    <3> QED BY <1>5, <1>7, <2>3, <2>5, <3>1 DEF InsStoreFacts
  <2>4. CASE k # call[t].key
    <3>1. \A i \in DOMAIN cells : (cells'[i].key = k <=> cells[i].key = k)
                                  /\ cells'[i].val = cells[i].val
      BY <1>3, <2>1, <2>2, <2>4 DEF InsKeyTo
    <3>2. Ins!Store'[k] = Ins!Store[k]
      BY <1>4, <1>5, <2>1, <3>1 DEF InsKeyTo, InsStoreFacts
    <3> QED BY <2>4, <3>2
  <2> QED BY <2>3, <2>4
<1>8. CASE ~Ins!At(t, "write_key") /\ ~(Ins!At(t, "rem_cas") /\ Ins!Mine(t))
  <2>1. \A i \in DOMAIN cells' :
          cells'[i].key = k => /\ i \in DOMAIN cells /\ cells[i].key = k
                               /\ cells'[i].val = cells[i].val
    BY <1>1, <1>2, <1>3, <1>8
    DEF InsEffectOf, InsValTo, InsKeyTo, InsLonger, InsEntryOk, Ins!At,
        InsLocking
  <2>2. \A i \in DOMAIN cells : cells[i].key = k =>
          i \in DOMAIN cells' /\ cells'[i].key = k
    BY <1>1, <1>2, <1>3, <1>8
    DEF InsEffectOf, InsValTo, InsKeyTo, InsLonger, InsEntryOk, InsBlocking,
        Ins!At
  <2> QED BY <1>4, <1>5, <1>8, <2>1, <2>2 DEF InsStoreFacts
<1> QED BY <1>6, <1>7, <1>8

-----------------------------------------------------------------------------
(* The inductive invariant.                                                *)

InsValuesTyped == \A i \in DOMAIN cells : cells[i].val \in InsVals
LEMMA InsCellVals == InsSharedType => InsValuesTyped
BY InsCellType DEF InsValuesTyped

InsSeenType == seen \in [Threads -> SUBSET InsVals]
LEMMA InsTypeWhole ==
  InsLocalType /\ InsSharedType /\ InsSeenType => Ins!TypeOK
BY InsTypeParts DEF InsVals, InsSeenType

LEMMA InsStateShared == InsState => InsSharedType /\ InsKeysOk
BY InsStateParts

LEMMA InsInitState == Ins!Init => InsState
<1> SUFFICES ASSUME Ins!Init PROVE InsState
  OBVIOUS
<1>1. /\ Entries \in Nat \ {0} /\ MaxPuts \in Nat \ {0}
      /\ NoKey \notin Keys /\ 0 \in InsVals /\ Ins!NoVal = 0
  BY CallsAssumption DEF InsVals, Ins!NoVal
<1>2. cells = [i \in 1 .. Entries |-> Ins!Unused]
  BY DEF Ins!Init, Ins!CallsInit
<1>3. Ins!Unused \in [key : InsKeys, val : InsVals] /\ Ins!Unused.key = NoKey
        /\ Ins!Unused.val = 0
  BY <1>1 DEF Ins!Unused, InsKeys
<1> HIDE DEF Ins!Unused
<1>4. cells \in Seq([key : InsKeys, val : InsVals]) /\ Len(cells) = Entries
      /\ DOMAIN cells = 1 .. Entries
  BY <1>1, <1>2, <1>3
<1>5. \A i \in DOMAIN cells : cells[i].key = NoKey /\ cells[i].val = 0
  BY <1>2, <1>3, <1>4
<1>6. InsLocalType /\ InsSharedType
  BY <1>1, <1>4, InsCallTypes
  DEF Ins!Init, Ins!CallsInit, InsLocalType, InsSharedType, Ins!Labels
<1>7. seen \in [Threads -> SUBSET (Ins!Vals \cup {Ins!NoVal})]
  BY DEF Ins!Init, Ins!CallsInit
<1>8. \A t \in Threads : pc[t] = "idle" /\ call[t] = Ins!Idle /\ idx[t] = 1
                         /\ cur[t] = 0 /\ slot[t] = 0
  BY DEF Ins!Init, Ins!CallsInit, Ins!NoVal
<1>9. puts = 0 /\ Ins!Idle.val = 0
  BY InsCallTypes, <1>1 DEF Ins!Init, Ins!CallsInit
<1>10. InsKeysOk /\ InsBlocksApart /\ InsValuesOk
  BY <1>1, <1>5, <1>8, <1>9
  DEF InsKeysOk, InsBlocksApart, InsBlocking, InsValuesOk
<1>11. \A t \in Threads : InsControl(t) /\ InsEntryOk(t) /\ InsFreshOk(t)
  BY <1>8
  DEF InsControl, InsEntryOk, InsFreshOk, Ins!At, InsLocking, InsBlocking,
      InsUnstored
<1> QED
  BY <1>6, <1>7, <1>10, <1>11, InsTypeParts DEF InsState

LEMMA InsStepState ==
  ASSUME InsState, NEW t \in Threads, InsStepOf(t),
         Ins!Observe(Ins!Store', Ins!Call')
  PROVE  InsState'
<1>1. InsLocalType /\ InsSharedType /\ InsLocalType' /\ InsSharedType'
      /\ seen \in [Threads -> SUBSET InsVals]
      /\ \A u \in Threads : InsControl(u)
  BY InsStateParts, InsStepType, InsTypeParts DEF InsState, InsVals
<1>2. /\ InsKeysOk' /\ InsBlocksApart' /\ InsValuesOk'
      /\ \A u \in Threads : InsFreshOk(u)'
  BY InsKeysStep, InsValuesStep
<1>3. \A u \in Threads : InsControl(u)' /\ InsEntryOk(u)'
  BY InsActorControl, InsActorEntry, InsOtherEntries
<1>4. InsStoreFacts'
  BY <1>1, <1>2, InsStoreIs, PTL
<1>5. \A k \in Keys : Ins!Store'[k] \in InsVals
  <2>1. \A i \in DOMAIN cells' : cells'[i].val \in InsVals
    <3>1. InsSharedType'
      BY <1>1
    <3>2. InsValuesTyped'
      BY <3>1, InsCellVals, PTL
    <3> QED BY <3>2 DEF InsValuesTyped
  <2> QED BY <1>4, <2>1 DEF InsStoreFacts, InsVals
<1>6. seen' \in [Threads -> SUBSET InsVals]
  <2> SUFFICES ASSUME NEW u \in Threads, Ins!Call'[u] # Ins!Idle
               PROVE  seen[u] \cup {Ins!Store'[Ins!Call'[u].key]}
                        \in SUBSET InsVals
    BY DEF Ins!Observe
  <2>1. Ins!Call'[u] \in Ins!Calls
    BY <1>1, InsCallTypes DEF Ins!Call, InsLocalType
  <2> QED BY <1>1, <1>5, <2>1, InsCallTypes
<1>7. Ins!TypeOK'
  <2>1. InsLocalType' /\ InsSharedType' /\ InsSeenType'
    BY <1>1, <1>6 DEF InsSeenType
  <2> QED BY <2>1, InsTypeWhole, PTL
<1> QED BY <1>2, <1>3, <1>7 DEF InsState

-----------------------------------------------------------------------------
(* What the calls of the other threads see of a step.                      *)

LEMMA InsOtherCall ==
  ASSUME InsState, InsCalls, InsState', NEW t \in Threads,
         NEW u \in Threads \ {t},
         InsStepOf(t), Ins!Observe(Ins!Store', Ins!Call')
  PROVE  /\ Ins!Call'[u] = Ins!Call[u] /\ Ins!Ret'[u] = Ins!Ret[u]
         /\ InsCallOk(u)'
<1>1. /\ InsLocalType
      /\ InsSharedType /\ InsEffectOf(t) /\ InsOthersSame(t) /\ InsKeysOk
      /\ InsControl(t)
      /\ InsEntryOk(t) /\ InsControl(u) /\ InsEntryOk(u) /\ InsFreshOk(t)
      /\ InsCallOk(u)
  BY InsStateParts, InsStepEffect, InsStepOthers DEF InsCalls
<1>2. /\ pc'[u] = pc[u] /\ call'[u] = call[u] /\ idx'[u] = idx[u]
      /\ cur'[u] = cur[u] /\ ret'[u] = ret[u]
  BY <1>1 DEF InsOthersSame
<1>3. /\ Len(cells) \in Nat /\ DOMAIN cells = 1 .. Len(cells)
      /\ \A i \in DOMAIN cells : cells[i].key \in InsKeys
      /\ Entries \in Nat
  BY <1>1, InsCellType, CallsAssumption
<1>4. /\ ~Ins!At(t, "idle") => call[t].key \in Keys
      /\ ~Ins!At(u, "idle") => call[u].key \in Keys /\ call[u] # Ins!Idle
      /\ NoKey \notin Keys /\ KeyBlck \notin Keys /\ KeyBlck # NoKey
  BY <1>1, InsCallOf, CallsAssumption, BlckAssumption
<1>5. InsSharedType' /\ InsKeysOk' /\ InsStoreFacts
  <2>2. InsSharedType' /\ InsKeysOk'
    BY InsStateShared, PTL
  <2> QED BY <1>1, <2>2, InsStoreIs
<1>6. DOMAIN cells \subseteq DOMAIN cells'
  BY <1>1, <1>3 DEF InsEffectOf, InsValTo, InsKeyTo, InsLonger
<1>7. Ins!Call'[u] = Ins!Call[u]
  BY <1>2 DEF Ins!Call
<1>8. seen'[u] =
        IF Ins!Call[u] = Ins!Idle THEN {}
        ELSE seen[u] \cup {Ins!Store'[Ins!Call[u].key]}
  BY <1>7 DEF Ins!Observe
<1>9. \A i \in DOMAIN cells :
        cells[i].key # NoKey => cells'[i].val = cells[i].val
  BY <1>1 DEF InsEffectOf, InsValTo, InsKeyTo, InsLonger, InsEntryOk, Ins!At
<1>10. Ins!Ret'[u] = Ins!Ret[u]
  BY <1>1, <1>2, <1>4, <1>9
  DEF Ins!Ret, Ins!At, InsEntryOk, InsControl, InsBlocking
<1>11. CASE Ins!At(u, "idle") \/ InsBlocking(u)
  <2>1. Ins!Call[u] = Ins!Idle
    BY <1>1, <1>11 DEF Ins!Call, InsControl, InsBlocking, Ins!At
  <2> QED
    BY <1>2, <1>7, <1>8, <1>10, <1>11, <2>1 DEF InsCallOk, Ins!At, InsBlocking
<1>12. CASE ~Ins!At(u, "idle") /\ ~InsBlocking(u)
  <2> DEFINE k == call[u].key
  <2>1. Ins!Call[u] = call[u] /\ Ins!Call[u] # Ins!Idle /\ k \in Keys
    BY <1>4, <1>12 DEF Ins!Call, InsBlocking
  <2>2. Ins!Store[k] \in seen[u] /\ seen[u] \subseteq seen'[u]
          /\ Ins!Store'[k] \in seen'[u]
    BY <1>1, <1>8, <2>1 DEF InsCallOk
  <2>3. ASSUME NEW i \in DOMAIN cells, cells[i].key = k, cells'[i].key # k
        PROVE  Ins!NoVal \in seen'[u]
    <3>1. Ins!At(t, "rem_cas") /\ Ins!Mine(t) /\ i = idx[t]
      BY <1>1, <1>3, <1>4, <2>1, <2>3
      DEF InsEffectOf, InsValTo, InsKeyTo, InsLonger, InsEntryOk, Ins!At,
          InsBlocking
    <3>2. call[t].key = k /\ ~Ins!At(t, "write_key")
      BY <2>3, <3>1 DEF Ins!Mine, Ins!At
    <3>3. Ins!Store'[k] = Ins!NoVal
      BY <1>5, <2>1, <3>1, <3>2, InsStoreStep
    <3> QED BY <2>2, <3>3
  <2>4. ASSUME NEW i \in DOMAIN cells, cells[i].key # k, cells'[i].key = k
        PROVE  Ins!NoVal \in seen[u]
    <3>1. Ins!At(t, "write_key") /\ call[t].key = k
      BY <1>1, <1>3, <1>4, <2>1, <2>4
      DEF InsEffectOf, InsValTo, InsKeyTo, InsLonger, InsEntryOk, Ins!At
    <3>2. \A j \in DOMAIN cells : cells[j].key # k
      BY <1>1, <3>1 DEF InsEntryOk, Ins!At, InsLocking
    <3>3. Ins!Store[k] = Ins!NoVal
      BY <1>5, <2>1, <3>2 DEF InsStoreFacts
    <3> QED BY <2>2, <3>3
  <2>5. ASSUME NEW i \in DOMAIN cells, cells'[i].val # cells[i].val
        PROVE  /\ cells[i].key = NoKey /\ cells'[i].key = NoKey
               /\ cells'[i].val # cur[u]
    BY <1>1, <1>3, <2>5
    DEF InsEffectOf, InsValTo, InsKeyTo, InsLonger, InsEntryOk, Ins!At,
        InsFreshOk, InsUnstored
  <2>6. Ins!Call'[u] = call[u] /\ Ins!Call'[u] # Ins!Idle
    BY <1>7, <2>1
  <2>7. pc[u] \in {"get_val", "get_key", "rem_key"} =>
          Ins!NoVal \in seen'[u] \/ \E j \in DOMAIN cells' :
                                  j >= idx[u] /\ cells'[j].key = k
    BY <1>1, <1>6, <2>2, <2>3 DEF InsCallOk, InsSeenAbsent
  <2>8. Ins!At(u, "get_key") =>
          \/ cells'[idx[u]].val = cur[u]
          \/ cells'[idx[u]].key = k => Ins!NoVal \in seen'[u]
    BY <1>1, <1>4, <2>1, <2>2, <2>4, <2>5
    DEF InsCallOk, InsSeenAbsent, InsControl, Ins!At
  <2>9. Ins!At(u, "get_again") =>
          IF cells'[idx[u]].val = cur[u] THEN cur[u] \in seen'[u]
                                         ELSE Ins!NoVal \in seen'[u]
    BY <1>1, <1>4, <2>1, <2>2, <2>5
    DEF InsCallOk, InsSeenAbsent, InsControl, Ins!At
  <2>10. pc[u] \in {"get_again", "rem_cas"} =>
           cells'[idx[u]].key = k \/ Ins!NoVal \in seen'[u]
    BY <1>1, <2>2, <2>3 DEF InsCallOk, InsSeenAbsent, InsControl
  <2> QED
    BY <1>2, <1>7, <1>10, <2>1, <2>2, <2>7, <2>8, <2>9, <2>10
    DEF InsCallOk, InsSeenAbsent, Ins!At
<1> QED BY <1>11, <1>12

-----------------------------------------------------------------------------
(* What a step does to the map and to the call of its thread.              *)

LEMMA InsStoreEffect ==
  ASSUME InsState, InsState', NEW t \in Threads, InsStepOf(t)
  PROVE  /\ Ins!At(t, "write_key") =>
              /\ Ins!Store[call[t].key] = Ins!NoVal
              /\ Ins!Store' = [Ins!Store EXCEPT ![call[t].key] = call[t].val]
         /\ Ins!At(t, "rem_cas") /\ Ins!Mine(t) =>
              /\ Ins!Store[call[t].key] = cells[idx[t]].val
              /\ Ins!Store[call[t].key] # Ins!NoVal
              /\ Ins!Store' = [Ins!Store EXCEPT ![call[t].key] = Ins!NoVal]
         /\ (/\ ~Ins!At(t, "write_key")
             /\ ~(Ins!At(t, "rem_cas") /\ Ins!Mine(t)))
            => Ins!Store' = Ins!Store
<1>1. InsSharedType' /\ InsKeysOk'
  BY InsStateShared, PTL
<1>2. /\ InsSharedType
      /\ InsKeysOk
      /\ InsStoreFacts /\ InsControl(t) /\ InsEntryOk(t) /\ InsLocalType
  BY InsStateParts, InsStoreIs
<1>3. /\ Ins!Store = [k \in Keys |-> Ins!Store[k]]
      /\ Ins!Store' = [k \in Keys |-> Ins!Store'[k]]
  BY DEF Ins!Store
<1>4. ~Ins!At(t, "idle") => call[t].key \in Keys
  BY <1>2, InsCallOf
<1>5. CASE Ins!At(t, "write_key")
  <2>1. call[t].key \in Keys /\ ~Ins!At(t, "rem_cas")
    BY <1>4, <1>5 DEF Ins!At
  <2>2. \A k \in Keys :
          Ins!Store'[k] = IF k = call[t].key THEN call[t].val ELSE Ins!Store[k]
    BY <1>1, <1>5, <2>1, InsStoreStep
  <2>3. Ins!Store' = [Ins!Store EXCEPT ![call[t].key] = call[t].val]
    BY <1>3, <2>1, <2>2
  <2>4. Ins!Store[call[t].key] = Ins!NoVal
    BY <1>2, <1>5, <2>1 DEF InsStoreFacts, InsEntryOk, InsLocking, Ins!At
  <2> QED BY <1>5, <2>1, <2>3, <2>4
<1>6. CASE Ins!At(t, "rem_cas") /\ Ins!Mine(t)
  <2>1. call[t].key \in Keys /\ ~Ins!At(t, "write_key")
    BY <1>4, <1>6 DEF Ins!At
  <2>2. \A k \in Keys :
          Ins!Store'[k] = IF k = call[t].key THEN Ins!NoVal ELSE Ins!Store[k]
    BY <1>1, <1>6, <2>1, InsStoreStep
  <2>3. Ins!Store' = [Ins!Store EXCEPT ![call[t].key] = Ins!NoVal]
    BY <1>3, <2>1, <2>2
  <2>4. idx[t] \in DOMAIN cells /\ cells[idx[t]].key = call[t].key
    BY <1>2, <1>6 DEF InsControl, Ins!At, Ins!Mine
  <2>5. /\ Ins!Store[call[t].key] = cells[idx[t]].val
        /\ Ins!Store[call[t].key] # Ins!NoVal
    BY <1>2, <2>1, <2>4 DEF InsStoreFacts, InsKeysOk
  <2> QED BY <1>6, <2>1, <2>3, <2>5
<1>7. CASE ~Ins!At(t, "write_key") /\ ~(Ins!At(t, "rem_cas") /\ Ins!Mine(t))
  <2>1. \A k \in Keys : Ins!Store'[k] = Ins!Store[k]
    BY <1>1, <1>7, InsStoreStep
  <2> QED BY <1>3, <1>7, <2>1
<1> QED BY <1>5, <1>6, <1>7

(* The steps of the map, seen from the thread that takes them.             *)
InsStays(t) ==
  /\ Ins!Call'[t] = Ins!Call[t] /\ Ins!Ret'[t] = Ins!Ret[t]
  /\ Ins!Store' = Ins!Store
InsInvokes(t) ==
  /\ Ins!Call[t] = Ins!Idle
  /\ Ins!Call'[t] \in Ins!Calls \ {Ins!Idle} /\ Ins!Ret'[t] = 0
  /\ Ins!Store' = Ins!Store
InsInserts(t) ==
  /\ Ins!Call[t].op = "put" /\ Ins!Store[Ins!Call[t].key] = Ins!NoVal
  /\ Ins!Store' = [Ins!Store EXCEPT ![Ins!Call[t].key] = Ins!Call[t].val]
  /\ Ins!Call'[t] = Ins!Idle /\ Ins!Ret'[t] = 1
InsDeletes(t) ==
  /\ Ins!Call[t].op = "remove" /\ Ins!Store[Ins!Call[t].key] # Ins!NoVal
  /\ Ins!Store' = [Ins!Store EXCEPT ![Ins!Call[t].key] = Ins!NoVal]
  /\ Ins!Call'[t] = Ins!Idle /\ Ins!Ret'[t] = Ins!Store[Ins!Call[t].key]
InsAnswers(t) ==
  /\ Ins!Call'[t] = Ins!Idle /\ Ins!Store' = Ins!Store
  /\ \E v \in seen[t] :
       \/ Ins!Call[t].op = "get" /\ Ins!Ret'[t] = v
       \/ Ins!Call[t].op = "put" /\ v # Ins!NoVal /\ Ins!Ret'[t] = 0
       \/ Ins!Call[t].op = "remove" /\ v = Ins!NoVal /\ Ins!Ret'[t] = 0
InsMapStepOf(t) ==
  \/ InsStays(t) \/ InsInvokes(t) \/ InsInserts(t) \/ InsDeletes(t)
  \/ InsAnswers(t)

LEMMA InsMapStepIs ==
  ASSUME InsState, InsCalls, NEW t \in Threads, InsMapStepOf(t),
         Ins!Observe(Ins!Store', Ins!Call'),
         \A u \in Threads \ {t} :
           Ins!Call'[u] = Ins!Call[u] /\ Ins!Ret'[u] = Ins!Ret[u]
  PROVE  [Ins!Map!Next]_(Ins!Map!vars)
<1>1. /\ Ins!Map!Idle = Ins!Idle
      /\ Ins!Map!NoVal = Ins!NoVal /\ Ins!Map!Calls = Ins!Calls
  BY
  DEF Ins!Map!Idle, Ins!Map!NoVal, Ins!Map!Calls, Ins!Idle, Ins!NoVal,
      Ins!Calls
<1>2. /\ Ins!Call' = [Ins!Call EXCEPT ![t] = Ins!Call'[t]]
      /\ Ins!Ret' = [Ins!Ret EXCEPT ![t] = Ins!Ret'[t]]
  <2>1. /\ Ins!Call = [u \in Threads |-> Ins!Call[u]]
        /\ Ins!Ret = [u \in Threads |-> Ins!Ret[u]]
        /\ Ins!Call' = [u \in Threads |-> Ins!Call'[u]]
        /\ Ins!Ret' = [u \in Threads |-> Ins!Ret'[u]]
    BY DEF Ins!Call, Ins!Ret
  <2> QED BY <2>1
<1>3. Ins!Map!Observe
  BY <1>1 DEF Ins!Observe, Ins!Map!Observe
<1>4. CASE InsStays(t)
  <2>1. Ins!Call' = Ins!Call /\ Ins!Ret' = Ins!Ret
    BY <1>2, <1>4 DEF InsStays, Ins!Call, Ins!Ret
  <2>2. seen' = seen
    <3>1. seen = [u \in Threads |-> seen[u]]
            /\ seen' = [u \in Threads |-> seen'[u]]
      <4>1. seen \in [Threads -> SUBSET (Ins!Vals \cup {Ins!NoVal})]
        BY InsTypeParts DEF InsState
      <4> QED BY <4>1 DEF Ins!Observe
    <3>2. \A u \in Threads : seen'[u] = seen[u]
      <4>1. \A u \in Threads : Ins!Call[u] # Ins!Idle => Ins!Call[u] = call[u]
        BY DEF Ins!Call
      <4>2. \A u \in Threads :
              /\ Ins!Call[u] # Ins!Idle => Ins!Store[call[u].key] \in seen[u]
              /\ Ins!Call[u] = Ins!Idle => seen[u] = {}
        BY DEF InsCalls, InsCallOk
      <4>3. \A u \in Threads :
              seen'[u] = IF Ins!Call[u] = Ins!Idle THEN {}
                         ELSE seen[u] \cup {Ins!Store[Ins!Call[u].key]}
        BY <1>4, <2>1 DEF Ins!Observe, InsStays
      <4>4. ASSUME NEW u \in Threads PROVE seen'[u] = seen[u]
        <5>1. CASE Ins!Call[u] = Ins!Idle
          BY <4>2, <4>3, <5>1
        <5>2. CASE Ins!Call[u] # Ins!Idle
          <6>1. Ins!Call[u].key = call[u].key
                  /\ Ins!Store[call[u].key] \in seen[u]
            BY <4>1, <4>2, <5>2
          <6> QED BY <4>3, <5>2, <6>1
        <5> QED BY <5>1, <5>2
      <4> QED BY <4>4
    <3> QED BY <3>1, <3>2
  <2> QED BY <1>4, <2>1, <2>2 DEF InsStays, Ins!Map!vars
<1>5. CASE InsInvokes(t)
  <2>1. Ins!Map!Invoke(t)
    BY <1>1, <1>2, <1>5 DEF InsInvokes, Ins!Map!Invoke
  <2> QED BY <1>3, <2>1 DEF Ins!Map!Next
<1>6. CASE InsInserts(t)
  <2>1. Ins!Map!Insert(t)
    BY <1>1, <1>2, <1>6 DEF InsInserts, Ins!Map!Insert, Ins!Map!Return
  <2> QED BY <1>3, <2>1 DEF Ins!Map!Next
<1>7. CASE InsDeletes(t)
  <2>1. Ins!Map!Delete(t)
    BY <1>1, <1>2, <1>7 DEF InsDeletes, Ins!Map!Delete, Ins!Map!Return
  <2> QED BY <1>3, <2>1 DEF Ins!Map!Next
<1>8. CASE InsAnswers(t)
  <2>1. Ins!Map!Answer(t)
    BY <1>1, <1>2, <1>8 DEF InsAnswers, Ins!Map!Answer, Ins!Map!Return
  <2> QED BY <1>3, <2>1 DEF Ins!Map!Next
<1> QED BY <1>4, <1>5, <1>6, <1>7, <1>8 DEF InsMapStepOf

LEMMA InsReturnedCall ==
  ASSUME InsLocalType, NEW t \in Threads, NEW r,
         Ins!Observe(Ins!Store', Ins!Call'), Ins!Return(t, r)
  PROVE  Ins!Call'[t] = Ins!Idle /\ Ins!Ret'[t] = r /\ InsCallOk(t)'
<1>1. pc'[t] = "idle" /\ call'[t] = Ins!Idle /\ ret'[t] = r
  BY DEF Ins!Return, Ins!Decide, Ins!Goto, InsLocalType
<1>2. Ins!Call'[t] = Ins!Idle /\ Ins!Ret'[t] = r
  BY <1>1 DEF Ins!Call, Ins!Ret, Ins!At
<1>3. seen'[t] = {}
  BY <1>2 DEF Ins!Observe
<1> QED BY <1>1, <1>2, <1>3 DEF InsCallOk, Ins!At

LEMMA InsGoesOn ==
  ASSUME InsState, InsCalls, NEW t \in Threads,
         Ins!Observe(Ins!Store', Ins!Call'),
         call'[t] = call[t], ret'[t] = ret[t],
         ~Ins!At(t, "idle"), ~InsBlocking(t),
         pc'[t] \notin {"idle", "rem_val", "rem_free"}
  PROVE  /\ Ins!Call'[t] = call[t]
         /\ Ins!Call[t] = call[t] /\ Ins!Call[t] # Ins!Idle
         /\ Ins!Ret'[t] = Ins!Ret[t]
         /\ seen[t] \subseteq seen'[t] /\ Ins!Store'[call[t].key] \in seen'[t]
<1>1. Ins!Call'[t] = call[t] /\ Ins!Call[t] = call[t]
        /\ Ins!Ret'[t] = Ins!Ret[t]
  BY DEF Ins!Call, Ins!Ret, InsBlocking, Ins!At
<1>2. call[t] # Ins!Idle
  BY InsStateParts, InsCallOf
<1>3. seen'[t] = seen[t] \cup {Ins!Store'[call[t].key]}
  BY <1>1, <1>2 DEF Ins!Observe
<1> QED BY <1>1, <1>2, <1>3

-----------------------------------------------------------------------------
(* The actions, one by one.                                                *)

LEMMA InsBeginCall ==
  ASSUME InsState, InsCalls, InsState', NEW t \in Threads,
         Ins!Get(t) \/ Ins!Put(t) \/ Ins!Remove(t),
         Ins!Observe(Ins!Store', Ins!Call')
  PROVE  InsMapStepOf(t) /\ InsCallOk(t)'
<1>1. /\ InsStepOf(t) /\ InsLocalType /\ InsSharedType
      /\ InsLocalType' /\ InsSharedType'
      /\ InsControl(t) /\ InsEntryOk(t)
  BY InsStateParts, InsStepType DEF InsStepOf
<1>2. PICK op \in {"get", "put", "remove"}, k \in Keys,
           v \in {Ins!NoVal, puts + 1} :
        /\ call' = [call EXCEPT ![t] = [op |-> op, key |-> k, val |-> v]]
        /\ pc'[t] \in {"get_val", "exists", "rem_key"}
        /\ idx'[t] = 1 /\ ret'[t] = 0
  BY <1>1
  DEF Ins!Get, Ins!Put, Ins!Remove, Ins!Begin, Ins!Goto, Ins!SetIdx,
      InsLocalType
<1>3. call'[t] \in Ins!Calls /\ call'[t].op = op /\ call'[t].key = k
  BY <1>1, <1>2 DEF InsLocalType
<1>4. call'[t] # Ins!Idle
  BY <1>3, InsCallTypes
<1>5. Ins!At(t, "idle") /\ call[t] = Ins!Idle
  BY <1>1 DEF Ins!Get, Ins!Put, Ins!Remove, Ins!Begin, InsControl
<1>6. Ins!Call[t] = Ins!Idle /\ Ins!Call'[t] = call'[t] /\ Ins!Ret'[t] = 0
  BY <1>2, <1>5 DEF Ins!Call, Ins!Ret, Ins!At
<1>7. Ins!Store' = Ins!Store
  BY <1>1, <1>5, InsStoreEffect DEF Ins!At
<1>8. seen'[t] = {Ins!Store'[k]}
  BY <1>3, <1>4, <1>6 DEF Ins!Observe, InsCalls, InsCallOk
<1>9. InsStoreFacts'
  <2>1. InsSharedType' /\ InsKeysOk'
    BY InsStateShared, PTL
  <2> QED BY <2>1, InsStoreIs, PTL
<1>10. Ins!NoVal \in seen'[t] \/ \E j \in DOMAIN cells' :
                                j >= 1 /\ cells'[j].key = k
  <2>1. \A j \in DOMAIN cells' : j >= 1
    BY <1>1, InsCellType DEF Ins!Get, Ins!Put, Ins!Remove, Ins!Begin
  <2> QED BY <1>8, <1>9, <2>1 DEF InsStoreFacts
<1> QED
  BY <1>2, <1>3, <1>4, <1>6, <1>7, <1>8, <1>10
  DEF InsMapStepOf, InsInvokes, InsCallOk, InsSeenAbsent, Ins!At

LEMMA InsSearchCall ==
  ASSUME InsState, InsCalls, InsState', NEW t \in Threads,
         Ins!GetVal(t) \/ Ins!GetKey(t) \/ Ins!GetAgain(t) \/ Ins!Exists(t),
         Ins!Observe(Ins!Store', Ins!Call')
  PROVE  InsMapStepOf(t) /\ InsCallOk(t)'
<1>1. /\ InsStepOf(t) /\ InsLocalType /\ InsSharedType /\ InsCallOk(t)
      /\ InsControl(t) /\ InsEntryOk(t) /\ InsKeysOk /\ InsStoreFacts
  BY InsStateParts, InsStoreIs DEF InsStepOf, Ins!Work, InsCalls
<1>2. /\ Len(cells) \in Nat /\ DOMAIN cells = 1 .. Len(cells)
      /\ idx[t] \in Nat
  BY <1>1, InsCellType DEF InsLocalType
<1>3. Ins!Store' = Ins!Store /\ UNCHANGED cells
  BY <1>1, InsStoreEffect
  DEF Ins!GetVal, Ins!ScanVal, Ins!GetKey, Ins!ScanKey, Ins!GetAgain,
      Ins!ScanAgain, Ins!Exists,
      Ins!ScanExists, Ins!At
<1>4. /\ ~Ins!At(t, "idle") /\ ~InsBlocking(t)
  BY
  DEF Ins!GetVal, Ins!ScanVal, Ins!GetKey, Ins!ScanKey, Ins!GetAgain,
      Ins!ScanAgain, Ins!Exists,
         Ins!ScanExists, Ins!At, InsBlocking
<1>5. /\ Ins!Call[t] = call[t] /\ call[t] # Ins!Idle /\ call[t].key \in Keys
      /\ Ins!Store[call[t].key] \in seen[t]
  BY <1>1, <1>4, InsCallOf DEF Ins!Call, InsBlocking, InsCallOk
<1>6. CASE Ins!GetVal(t)
  <2>1. call[t].op = "get"
    BY <1>1, <1>6 DEF Ins!GetVal, Ins!ScanVal, InsControl, Ins!At
  <2>2. CASE Ins!AtEnd(t)
    <3>1. Ins!Return(t, 0)
      BY <1>6, <2>2 DEF Ins!GetVal, Ins!ScanVal
    <3>2. Ins!NoVal \in seen[t]
      BY <1>1, <1>2, <1>6, <2>2
      DEF Ins!GetVal, Ins!ScanVal, InsCallOk, InsSeenAbsent, Ins!At, Ins!AtEnd
    <3> QED
      BY <1>1, <1>3, <1>5, <2>1, <3>1, <3>2, InsReturnedCall
      DEF InsMapStepOf, InsAnswers, Ins!NoVal
  <2>3. CASE ~Ins!AtEnd(t)
    <3>1. /\ pc'[t] = "get_key" /\ cur'[t] = cells[idx[t]].val
          /\ idx' = idx /\ call' = call /\ ret' = ret
      BY <1>1, <1>6, <2>3
      DEF Ins!GetVal, Ins!ScanVal, InsLocalType, Ins!Read, Ins!Goto
    <3>2. /\ Ins!Call'[t] = call[t]
          /\ Ins!Call[t] = call[t] /\ Ins!Call[t] # Ins!Idle
          /\ Ins!Ret'[t] = Ins!Ret[t]
          /\ seen[t] \subseteq seen'[t] /\ Ins!Store'[call[t].key] \in seen'[t]
      BY <1>4, <3>1, InsGoesOn
    <3>3. Ins!NoVal \in seen[t] \/ \E j \in DOMAIN cells :
                                 j >= idx[t] /\ cells[j].key = call[t].key
      BY <1>1, <1>6
      DEF Ins!GetVal, Ins!ScanVal, InsCallOk, InsSeenAbsent, Ins!At
    <3>4. InsCallOk(t)'
      BY <1>3, <3>1, <3>2, <3>3 DEF InsCallOk, InsSeenAbsent, Ins!At
    <3> QED BY <1>3, <3>2, <3>4 DEF InsMapStepOf, InsStays
  <2> QED BY <2>2, <2>3
<1>7. CASE Ins!GetKey(t)
  <2>1. /\ idx[t] \in DOMAIN cells /\ call' = call /\ ret' = ret
        /\ Ins!At(t, "get_key")
        /\ Ins!NoVal \in seen[t] \/ \E j \in DOMAIN cells :
                                  j >= idx[t] /\ cells[j].key = call[t].key
        /\ \/ cells[idx[t]].val = cur[t]
           \/ cells[idx[t]].key = call[t].key => Ins!NoVal \in seen[t]
    BY <1>1, <1>7
    DEF Ins!GetKey, Ins!ScanKey, InsCallOk, InsSeenAbsent, Ins!At, InsControl
  <2>2. CASE Ins!Mine(t)
    <3>1. pc'[t] = "get_again" /\ idx' = idx /\ cur' = cur
      BY <1>1, <1>7, <2>2 DEF Ins!GetKey, Ins!ScanKey, InsLocalType, Ins!Goto
    <3>2. /\ Ins!Call'[t] = call[t]
          /\ Ins!Call[t] = call[t] /\ Ins!Call[t] # Ins!Idle
          /\ Ins!Ret'[t] = Ins!Ret[t]
          /\ seen[t] \subseteq seen'[t] /\ Ins!Store'[call[t].key] \in seen'[t]
      BY <1>4, <2>1, <3>1, InsGoesOn
    <3>3. Ins!Store[call[t].key] = cells[idx[t]].val
      BY <1>1, <1>5, <2>1, <2>2 DEF InsStoreFacts, Ins!Mine
    <3>4. InsCallOk(t)'
      BY <1>3, <1>5, <2>1, <2>2, <3>1, <3>2, <3>3
      DEF InsCallOk, InsSeenAbsent, Ins!Mine, Ins!At
    <3> QED BY <1>3, <3>2, <3>4 DEF InsMapStepOf, InsStays
  <2>3. CASE ~Ins!Mine(t)
    <3>1. pc'[t] = "get_val" /\ idx'[t] = idx[t] + 1
      BY <1>1, <1>7, <2>3
      DEF Ins!GetKey, Ins!ScanKey, InsLocalType, Ins!Goto, Ins!SetIdx
    <3>2. /\ Ins!Call'[t] = call[t]
          /\ Ins!Call[t] = call[t] /\ Ins!Call[t] # Ins!Idle
          /\ Ins!Ret'[t] = Ins!Ret[t]
          /\ seen[t] \subseteq seen'[t] /\ Ins!Store'[call[t].key] \in seen'[t]
      BY <1>4, <2>1, <3>1, InsGoesOn
    <3>3. \A j \in DOMAIN cells : j >= idx[t] /\ cells[j].key = call[t].key
                                    => j >= idx[t] + 1
      BY <1>2, <2>3 DEF Ins!Mine
    <3>4. InsCallOk(t)'
      BY <1>3, <2>1, <3>1, <3>2, <3>3 DEF InsCallOk, InsSeenAbsent, Ins!At
    <3> QED BY <1>3, <3>2, <3>4 DEF InsMapStepOf, InsStays
  <2> QED BY <2>2, <2>3
<1>8. CASE Ins!GetAgain(t)
  <2>1. call[t].op = "get"
    BY <1>1, <1>8 DEF Ins!GetAgain, Ins!ScanAgain, InsControl, Ins!At
  <2>2. PICK r \in seen[t] : Ins!Return(t, r)
    BY <1>1, <1>8
    DEF Ins!GetAgain, Ins!ScanAgain, InsCallOk, InsSeenAbsent, Ins!At,
        Ins!NoVal
  <2> QED
    BY <1>1, <1>3, <1>5, <2>1, <2>2, InsReturnedCall
    DEF InsMapStepOf, InsAnswers
<1>9. CASE Ins!Exists(t)
  <2>1. call[t].op = "put" /\ Ins!At(t, "exists")
    BY <1>1, <1>9 DEF Ins!Exists, Ins!ScanExists, InsControl, Ins!At
  <2>2. CASE ~Ins!AtEnd(t) /\ Ins!Mine(t)
    <3>1. Ins!Return(t, 0)
      BY <1>9, <2>1, <2>2 DEF Ins!Exists, Ins!ScanExists, Ins!ExistsDone
    <3>2. idx[t] \in DOMAIN cells /\ cells[idx[t]].key = call[t].key
      BY <1>1, <1>2, <2>2 DEF Ins!AtEnd, Ins!Mine, InsControl
    <3>3. Ins!Store[call[t].key] # Ins!NoVal
      BY <1>1, <1>5, <3>2 DEF InsStoreFacts, InsKeysOk
    <3> QED
      BY <1>1, <1>3, <1>5, <2>1, <3>1, <3>3, InsReturnedCall
      DEF InsMapStepOf, InsAnswers
  <2>3. CASE ~(~Ins!AtEnd(t) /\ Ins!Mine(t))
    <3>1. pc'[t] \in {"exists", "lock"} /\ call' = call /\ ret' = ret
      BY <1>1, <1>9, <2>1, <2>3
      DEF Ins!Exists, Ins!ScanExists, Ins!ExistsDone, Ins!Goto, InsLocalType,
          Ins!At
    <3>2. /\ Ins!Call'[t] = call[t]
          /\ Ins!Call[t] = call[t] /\ Ins!Call[t] # Ins!Idle
          /\ Ins!Ret'[t] = Ins!Ret[t]
          /\ seen[t] \subseteq seen'[t] /\ Ins!Store'[call[t].key] \in seen'[t]
      BY <1>4, <3>1, InsGoesOn
    <3>3. InsCallOk(t)'
      BY <3>1, <3>2 DEF InsCallOk, Ins!At
    <3> QED BY <1>3, <3>2, <3>3 DEF InsMapStepOf, InsStays
  <2> QED BY <2>2, <2>3
<1> QED BY <1>6, <1>7, <1>8, <1>9

LEMMA InsPutCall ==
  ASSUME InsState, InsCalls, InsState', NEW t \in Threads,
         Ins!PutLock(t) \/ Ins!PutScan(t) \/ Ins!PutFree(t) \/ Ins!LinkVal(t)
           \/ Ins!WriteKey(t),
         Ins!Observe(Ins!Store', Ins!Call')
  PROVE  InsMapStepOf(t) /\ InsCallOk(t)'
<1>1. /\ InsStepOf(t) /\ InsLocalType /\ InsSharedType /\ InsCallOk(t)
      /\ InsControl(t) /\ InsEntryOk(t) /\ InsKeysOk /\ InsStoreFacts
  BY InsStateParts, InsStoreIs DEF InsStepOf, Ins!Work, InsCalls
<1>2. /\ pc[t] \in {"lock", "scan", "link_val", "write_key"}
      /\ ~Ins!At(t, "idle") /\ ~InsBlocking(t)
  BY
  DEF Ins!PutLock, Ins!CanLock, Ins!PutScan, Ins!PutFree, Ins!LinkVal,
      Ins!WriteKey, Ins!At, InsBlocking
<1>3. /\ Ins!Call[t] = call[t] /\ call[t] # Ins!Idle /\ call[t].key \in Keys
      /\ Ins!Store[call[t].key] \in seen[t] /\ call[t].op = "put"
  BY <1>1, <1>2, InsCallOf
  DEF Ins!Call, InsBlocking, InsCallOk, InsControl, InsLocking
<1>4. CASE Ins!PutScan(t) /\ Ins!Mine(t)
  <2>1. Ins!Return(t, 0)
    BY <1>4 DEF Ins!PutScan, Ins!Finish
  <2>2. idx[t] \in DOMAIN cells /\ cells[idx[t]].key = call[t].key
    <3>1. idx[t] \in Nat /\ idx[t] >= 1 /\ Len(cells) \in Nat
          /\ DOMAIN cells = 1 .. Len(cells)
      BY <1>1, InsCellType DEF InsLocalType, InsControl
    <3> QED BY <1>4, <3>1 DEF Ins!PutScan, Ins!AtEnd, Ins!Mine
  <2>3. Ins!Store[call[t].key] # Ins!NoVal
    BY <1>1, <1>3, <2>2 DEF InsStoreFacts, InsKeysOk
  <2>4. Ins!Store' = Ins!Store
    BY <1>1, <1>4, InsStoreEffect DEF Ins!PutScan, Ins!At
  <2> QED
    BY <1>1, <1>3, <2>1, <2>3, <2>4, InsReturnedCall
    DEF InsMapStepOf, InsAnswers
<1>5. CASE Ins!WriteKey(t)
  <2>1. Ins!Return(t, 1) /\ Ins!At(t, "write_key")
    BY <1>5 DEF Ins!WriteKey, Ins!Finish
  <2>2. /\ Ins!Store[call[t].key] = Ins!NoVal
        /\ Ins!Store' = [Ins!Store EXCEPT ![call[t].key] = call[t].val]
    BY <1>1, <2>1, InsStoreEffect
  <2> QED
    BY <1>1, <1>3, <2>1, <2>2, InsReturnedCall DEF InsMapStepOf, InsInserts
<1>6. CASE Ins!PutLock(t) \/ (Ins!PutScan(t) /\ ~Ins!Mine(t))
             \/ Ins!PutFree(t) \/ Ins!LinkVal(t)
  <2>1. /\ pc'[t] \in {"scan", "link_val", "write_key"}
        /\ call' = call /\ ret' = ret
        /\ ~Ins!At(t, "write_key") /\ ~Ins!At(t, "rem_cas")
    BY <1>1, <1>6
    DEF Ins!PutLock, Ins!CanLock, Ins!PutScan, Ins!PutFree, Ins!LinkVal,
        Ins!Hold, Ins!Goto, InsLocalType, Ins!At
  <2>2. /\ Ins!Call'[t] = call[t]
        /\ Ins!Call[t] = call[t] /\ Ins!Call[t] # Ins!Idle
        /\ Ins!Ret'[t] = Ins!Ret[t]
        /\ seen[t] \subseteq seen'[t] /\ Ins!Store'[call[t].key] \in seen'[t]
    BY <1>2, <2>1, InsGoesOn
  <2>3. InsCallOk(t)'
    BY <2>1, <2>2 DEF InsCallOk, Ins!At
  <2>4. Ins!Store' = Ins!Store
    BY <1>1, <2>1, InsStoreEffect
  <2> QED BY <2>2, <2>3, <2>4 DEF InsMapStepOf, InsStays
<1> QED BY <1>4, <1>5, <1>6

LEMMA InsRemoveCall ==
  ASSUME InsState, InsCalls, InsState', NEW t \in Threads,
         Ins!RemoveKey(t) \/ Ins!RemoveCas(t)
           \/ Ins!RemoveVal(t) \/ Ins!RemoveFree(t),
         Ins!Observe(Ins!Store', Ins!Call')
  PROVE  InsMapStepOf(t) /\ InsCallOk(t)'
<1>1. /\ InsStepOf(t) /\ InsLocalType /\ InsSharedType /\ InsCallOk(t)
      /\ InsControl(t) /\ InsEntryOk(t) /\ InsKeysOk /\ InsStoreFacts
  BY InsStateParts, InsStoreIs DEF InsStepOf, Ins!Work, InsCalls
<1>2. /\ Len(cells) \in Nat /\ DOMAIN cells = 1 .. Len(cells)
      /\ idx[t] \in Nat
  BY <1>1, InsCellType DEF InsLocalType
<1>3. ~Ins!At(t, "idle")
  BY DEF Ins!RemoveKey, Ins!RemoveCas, Ins!RemoveVal, Ins!RemoveFree, Ins!At
<1>4. /\ ~InsBlocking(t)
           => Ins!Call[t] = call[t] /\ Ins!Store[call[t].key] \in seen[t]
      /\ InsBlocking(t) => Ins!Call[t] = Ins!Idle
      /\ call[t] # Ins!Idle /\ call[t].key \in Keys
  BY <1>1, <1>3, InsCallOf DEF Ins!Call, InsBlocking, InsCallOk
<1>5. call[t].op = "remove"
  BY <1>1
  DEF Ins!RemoveKey, Ins!RemoveCas, Ins!RemoveVal, Ins!RemoveFree, Ins!At,
      InsControl
<1>6. CASE Ins!RemoveKey(t)
  <2>1. /\ Ins!At(t, "rem_key") /\ ~InsBlocking(t) /\ UNCHANGED cells
        /\ Ins!NoVal \in seen[t] \/ \E j \in DOMAIN cells :
                                  j >= idx[t] /\ cells[j].key = call[t].key
    BY <1>1, <1>6
    DEF Ins!RemoveKey, InsBlocking, Ins!At, InsCallOk, InsSeenAbsent
  <2>2. Ins!Store' = Ins!Store
    BY <1>1, <2>1, InsStoreEffect DEF Ins!At
  <2>3. CASE Ins!AtEnd(t)
    <3>1. Ins!Return(t, 0)
      BY <1>6, <2>3 DEF Ins!RemoveKey
    <3>2. Ins!NoVal \in seen[t]
      BY <1>2, <2>1, <2>3 DEF Ins!AtEnd
    <3> QED
      BY <1>1, <1>4, <1>5, <2>1, <2>2, <3>1, <3>2, InsReturnedCall
      DEF InsMapStepOf, InsAnswers, Ins!NoVal
  <2>4. CASE ~Ins!AtEnd(t)
    <3>1. /\ call' = call /\ ret' = ret
          /\ \/ Ins!Mine(t) /\ pc'[t] = "rem_cas" /\ idx' = idx
             \/ ~Ins!Mine(t) /\ pc'[t] = "rem_key" /\ idx'[t] = idx[t] + 1
      BY <1>1, <1>6, <2>4
      DEF Ins!RemoveKey, Ins!Goto, Ins!SetIdx, InsLocalType, Ins!At
    <3>2. /\ Ins!Call'[t] = call[t]
          /\ Ins!Call[t] = call[t] /\ Ins!Call[t] # Ins!Idle
          /\ Ins!Ret'[t] = Ins!Ret[t]
          /\ seen[t] \subseteq seen'[t] /\ Ins!Store'[call[t].key] \in seen'[t]
      BY <1>3, <2>1, <3>1, InsGoesOn
    <3>3. ~Ins!Mine(t) => \A j \in DOMAIN cells :
            j >= idx[t] /\ cells[j].key = call[t].key => j >= idx[t] + 1
      BY <1>2 DEF Ins!Mine
    <3>4. InsCallOk(t)'
      BY <2>1, <3>1, <3>2, <3>3 DEF InsCallOk, InsSeenAbsent, Ins!Mine, Ins!At
    <3> QED BY <2>2, <3>2, <3>4 DEF InsMapStepOf, InsStays
  <2> QED BY <2>3, <2>4
<1>7. CASE Ins!RemoveCas(t) /\ ~Ins!Mine(t)
  <2>1. Ins!Return(t, 0) /\ Ins!At(t, "rem_cas") /\ ~InsBlocking(t)
    BY <1>7 DEF Ins!RemoveCas, InsBlocking, Ins!At
  <2>2. Ins!NoVal \in seen[t]
    BY <1>1, <1>7, <2>1 DEF InsCallOk, InsSeenAbsent, Ins!Mine, Ins!At
  <2>3. Ins!Store' = Ins!Store
    BY <1>1, <1>7, <2>1, InsStoreEffect DEF Ins!At
  <2> QED
    BY <1>1, <1>4, <1>5, <2>1, <2>2, <2>3, InsReturnedCall
    DEF InsMapStepOf, InsAnswers, Ins!NoVal
<1>8. CASE Ins!RemoveCas(t) /\ Ins!Mine(t)
  <2>1. /\ pc'[t] = "rem_val"
        /\ idx' = idx /\ Ins!At(t, "rem_cas") /\ ~InsBlocking(t)
        /\ InsKeyTo(idx[t], KeyBlck) /\ idx[t] \in DOMAIN cells
    BY <1>1, <1>8, InsSetKeyTo
    DEF Ins!RemoveCas, Ins!Goto, InsLocalType, Ins!At, InsBlocking,
        InsControl, InsKeys
  <2>2. cells'[idx[t]].val = cells[idx[t]].val
    BY <2>1 DEF InsKeyTo
  <2>3. Ins!Call'[t] = Ins!Idle /\ Ins!Ret'[t] = cells[idx[t]].val
    BY <2>1, <2>2 DEF Ins!Call, Ins!Ret, Ins!At
  <2>4. /\ Ins!Store[call[t].key] = cells[idx[t]].val
        /\ Ins!Store[call[t].key] # Ins!NoVal
        /\ Ins!Store' = [Ins!Store EXCEPT ![call[t].key] = Ins!NoVal]
    BY <1>1, <1>8, <2>1, InsStoreEffect
  <2>5. seen'[t] = {}
    BY <2>3 DEF Ins!Observe
  <2>6. InsCallOk(t)'
    BY <2>1, <2>3, <2>5 DEF InsCallOk, Ins!At
  <2> QED
    BY <1>4, <1>5, <2>1, <2>3, <2>4, <2>6 DEF InsMapStepOf, InsDeletes
<1>9. CASE Ins!RemoveVal(t)
  <2>1. /\ pc[t] = "rem_val"
        /\ pc'[t] = "rem_free" /\ cur'[t] = cells[idx[t]].val
        /\ UNCHANGED cells
    BY <1>1, <1>9 DEF Ins!RemoveVal, Ins!At, Ins!Goto, Ins!Read, InsLocalType
  <2>2. Ins!Call[t] = Ins!Idle /\ Ins!Call'[t] = Ins!Idle
          /\ Ins!Ret'[t] = Ins!Ret[t]
    BY <2>1 DEF Ins!Call, Ins!Ret, Ins!At
  <2>3. Ins!Store' = Ins!Store
    BY <1>1, <2>1, InsStoreEffect DEF Ins!At
  <2>4. seen'[t] = {}
    BY <2>2 DEF Ins!Observe
  <2>5. InsCallOk(t)'
    BY <2>1, <2>2, <2>4 DEF InsCallOk, Ins!At
  <2> QED BY <2>2, <2>3, <2>5 DEF InsMapStepOf, InsStays
<1>10. CASE Ins!RemoveFree(t)
  <2>1. pc[t] = "rem_free" /\ Ins!Return(t, cur[t])
    BY <1>10 DEF Ins!RemoveFree, Ins!At
  <2>2. Ins!Call[t] = Ins!Idle /\ Ins!Ret[t] = cur[t]
    BY <2>1 DEF Ins!Call, Ins!Ret, Ins!At
  <2>3. Ins!Store' = Ins!Store
    BY <1>1, <2>1, InsStoreEffect DEF Ins!At
  <2> QED BY <1>1, <2>1, <2>2, <2>3, InsReturnedCall DEF InsMapStepOf, InsStays
<1> QED BY <1>6, <1>7, <1>8, <1>9, <1>10

InsInv == InsState /\ InsCalls

LEMMA InsInitInv == Ins!Init => InsInv /\ Ins!Map!Init
<1> SUFFICES ASSUME Ins!Init PROVE InsInv /\ Ins!Map!Init
  OBVIOUS
<1>1. InsState
  BY InsInitState
<1>2. \A t \in Threads :
        pc[t] = "idle" /\ call[t] = Ins!Idle /\ ret[t] = 0 /\ seen[t] = {}
  BY DEF Ins!Init, Ins!CallsInit
<1>3. \A t \in Threads : Ins!Call[t] = Ins!Idle /\ Ins!Ret[t] = 0
  BY <1>2 DEF Ins!Call, Ins!Ret, Ins!At
<1>4. InsCalls
  BY <1>2, <1>3 DEF InsCalls, InsCallOk, Ins!At
<1>5. InsStoreFacts
  BY <1>1, InsStateParts, InsStoreIs
<1>6. \A i \in DOMAIN cells : cells[i].key = NoKey
  BY DEF Ins!Init, Ins!CallsInit, Ins!Unused
<1>7. \A k \in Keys : Ins!Store[k] = Ins!NoVal
  BY <1>5, <1>6, CallsAssumption DEF InsStoreFacts
<1>8. Ins!Map!Init
  <2>1. Ins!Store = [k \in Keys |-> Ins!NoVal]
    BY <1>7 DEF Ins!Store
  <2>2. Ins!Call = [t \in Threads |-> Ins!Idle]
          /\ Ins!Ret = [t \in Threads |-> 0]
    BY <1>3 DEF Ins!Call, Ins!Ret
  <2>3. Ins!Map!Idle = Ins!Idle /\ Ins!Map!NoVal = Ins!NoVal
    BY DEF Ins!Map!Idle, Ins!Map!NoVal, Ins!Idle, Ins!NoVal
  <2>4. seen = [t \in Threads |-> {}]
    BY DEF Ins!Init, Ins!CallsInit
  <2> QED BY <2>1, <2>2, <2>3, <2>4 DEF Ins!Map!Init
<1> QED BY <1>1, <1>4, <1>8 DEF InsInv

LEMMA InsNextInv ==
  InsInv /\ [Ins!Next]_(Ins!vars)
    => InsInv' /\ [Ins!Map!Next]_(Ins!Map!vars)
<1> SUFFICES ASSUME InsInv, [Ins!Next]_(Ins!vars)
             PROVE  InsInv' /\ [Ins!Map!Next]_(Ins!Map!vars)
  OBVIOUS
<1>1. CASE UNCHANGED Ins!vars
  <2>1. Ins!Call' = Ins!Call /\ Ins!Ret' = Ins!Ret /\ Ins!Store' = Ins!Store
          /\ seen' = seen
    BY <1>1
    DEF Ins!vars, Ins!calls, Ins!threads, Ins!Call, Ins!Ret, Ins!Store,
        Ins!Lookup, Ins!Having, Ins!At
  <2>2. UNCHANGED Ins!Map!vars
    BY <2>1 DEF Ins!Map!vars
  <2>3. InsInv'
    BY <1>1, <2>1
    DEF Ins!vars, Ins!calls, Ins!threads, InsInv, InsState, InsCalls,
        Ins!TypeOK, Ins!CallsTypeOK, InsKeysOk,
        InsBlocksApart, InsBlocking, InsValuesOk, InsControl, InsEntryOk,
        InsFreshOk, InsUnstored,
        InsCallOk,
        InsSeenAbsent, Ins!At
  <2> QED BY <2>2, <2>3
<1>2. ASSUME NEW t \in Threads, InsStepOf(t),
             Ins!Observe(Ins!Store', Ins!Call')
      PROVE  InsInv' /\ [Ins!Map!Next]_(Ins!Map!vars)
  <2>1. InsState /\ InsCalls /\ InsState'
    BY <1>2, InsStepState DEF InsInv
  <2>2. InsMapStepOf(t) /\ InsCallOk(t)'
    BY <1>2, <2>1, InsBeginCall, InsSearchCall, InsPutCall, InsRemoveCall
    DEF InsStepOf, Ins!Work
  <2>3. \A u \in Threads \ {t} :
          Ins!Call'[u] = Ins!Call[u] /\ Ins!Ret'[u] = Ins!Ret[u]
            /\ InsCallOk(u)'
    BY <1>2, <2>1, InsOtherCall
  <2>4. InsCalls'
    BY <2>2, <2>3 DEF InsCalls
  <2>5. [Ins!Map!Next]_(Ins!Map!vars)
    BY <1>2, <2>1, <2>2, <2>3, InsMapStepIs
  <2> QED BY <2>1, <2>4, <2>5 DEF InsInv
<1> QED BY <1>1, <1>2 DEF Ins!Next, InsStepOf

InsOf == variant = "lock_ins" => InsInv

(* The invariant of the table that locks only to insert, and the steps of  *)
(* the map.                                                                *)
LEMMA InsSteps ==
  Spec => /\ [](InsOf)
          /\ variant = "lock_ins" => Ins!Map!Init
          /\ [][variant = "lock_ins" => [Ins!Map!Next]_(Ins!Map!vars)]_vars
<1>1. Init => InsOf /\ (variant = "lock_ins" => Ins!Map!Init)
  BY InsInitInv DEF Init, InsOf
<1>2. InsOf /\ [Next]_vars
        => InsOf' /\ (variant = "lock_ins" => [Ins!Map!Next]_(Ins!Map!vars))
  <2> SUFFICES ASSUME InsOf, [Next]_vars, variant = "lock_ins"
               PROVE  InsInv' /\ [Ins!Map!Next]_(Ins!Map!vars)
    BY DEF InsOf, Next, vars
  <2>1. [Ins!Next]_(Ins!vars)
    <3>1. CASE UNCHANGED vars
      BY <3>1 DEF vars, calls, threads, Ins!vars, Ins!calls, Ins!threads
    <3>2. CASE Next
      BY <3>2 DEF Next
    <3> QED BY <3>1, <3>2
  <2>2. InsInv
    BY DEF InsOf
  <2> QED BY <2>1, <2>2, InsNextInv
<1> QED BY <1>1, <1>2, PTL DEF Spec

(* src/clht_lb_lock_ins.c: every call takes effect at one moment, whatever *)
(* the other threads do meanwhile, for any number of threads, keys,        *)
(* entries and puts.                                                       *)
THEOREM LockInsRefines == Spec => LockInsImplementsMap
BY InsSteps, PTL DEF LockInsImplementsMap

-----------------------------------------------------------------------------
(* A thread that holds the lock, between two of its stores.                *)
LbWriting == {"write_key", "link_key", "link_val"}

(* What a thread can be doing in which call.                               *)
LbControl(t) ==
  /\ Lb!At(t, "idle") <=> call[t] = Lb!Idle
  /\ pc[t] \in {"get_val", "get_key", "get_again"} => call[t].op = "get"
  /\ pc[t] \in {"exists", "lock"} => call[t].op \in {"put", "remove"}
  /\ pc[t] \in LbWriting => call[t].op = "put"
  /\ idx[t] >= 1
  /\ pc[t] \in {"get_key", "get_again"} \cup LbWriting
       => idx[t] \in DOMAIN cells

(* A key has one entry; it has a value, unless its put is not done.        *)
LbKeysOk ==
  \A i, j \in DOMAIN cells :
    cells[i].key \in Keys =>
      /\ cells[j].key = cells[i].key => j = i
      /\ i \notin Lb!Unwritten => cells[i].val \in Lb!Vals

(* The holder of the lock writes to an entry of its own.                   *)
LbJunk == {Lb!NoVal, Garbage}
LbEntryOk(t) ==
  /\ pc[t] \in LbWriting => lock = t
  /\ pc[t] \in {"write_key", "link_key"} =>
       /\ cells[idx[t]].key = NoKey
       /\ \A i \in DOMAIN cells : cells[i].key # call[t].key
  /\ Lb!At(t, "write_key") => cells[idx[t]].val = call[t].val
  /\ pc[t] \in {"link_key", "link_val"} => cells[idx[t]].val \in LbJunk
  /\ Lb!At(t, "link_val") => cells[idx[t]].key = call[t].key

(* Nobody has met the value of a put that has not stored it.               *)
LbUnstored(t) ==
  call[t].op = "put" /\ pc[t] \in {"exists", "lock", "link_key", "link_val"}
LbValuesOk ==
  /\ \A i \in DOMAIN cells :
       cells[i].val \in Lb!Vals => cells[i].val <= puts
  /\ \A t \in Threads :
       (cur[t] \in Lb!Vals => cur[t] <= puts) /\ call[t].val <= puts
LbFreshOk(t) ==
  LbUnstored(t) =>
    /\ \A i \in DOMAIN cells : cells[i].val # call[t].val
    /\ \A u \in Threads : cur[u] # call[t].val
    /\ \A u \in Threads \ {t} : call[u].val # call[t].val

(* What a call has seen of its key.                                        *)
LbSeenAbsent(t) == Lb!NoVal \in seen[t]
LbLooks(t) ==
  pc[t] \in {"get_val", "get_key"}
    \/ (Lb!At(t, "exists") /\ call[t].op = "remove")
LbCallOk(t) ==
  /\ call[t] # Lb!Idle => Lb!Store[call[t].key] \in seen[t]
  /\ call[t] = Lb!Idle => seen[t] = {}
  /\ LbLooks(t) =>
       LbSeenAbsent(t) \/ \E j \in DOMAIN cells :
                            j >= idx[t] /\ cells[j].key = call[t].key
  /\ Lb!At(t, "get_key") =>
       \/ cells[idx[t]].val = cur[t]
       \/ cells[idx[t]].key = call[t].key => LbSeenAbsent(t)
  /\ Lb!At(t, "get_again") =>
       /\ IF cells[idx[t]].val = cur[t]
          THEN cur[t] \in seen[t] \/ idx[t] \in Lb!Unwritten
          ELSE LbSeenAbsent(t)
       /\ cells[idx[t]].key = call[t].key \/ LbSeenAbsent(t)

LbState ==
  /\ Lb!TypeOK
  /\ LbKeysOk /\ LbValuesOk
  /\ \A t \in Threads : LbControl(t) /\ LbEntryOk(t) /\ LbFreshOk(t)
LbCalls == \A t \in Threads : LbCallOk(t)
LbInv == LbState /\ LbCalls

-----------------------------------------------------------------------------
LbKeys == Keys \cup {NoKey}
LbVals == Lb!Vals \cup {Lb!NoVal, Garbage}

LbLocalType ==
  /\ call \in [Threads -> Lb!Calls]
  /\ pc \in [Threads -> Lb!Labels]
  /\ idx \in [Threads -> Nat]
  /\ cur \in [Threads -> LbVals]
  /\ ret \in [Threads -> LbVals \cup {0, 1}]
LbSharedType ==
  /\ cells \in Seq([key : LbKeys, val : LbVals])
  /\ lock \in Threads \cup {NoThread}
  /\ puts \in 0 .. MaxPuts
LbSeenType == seen \in [Threads -> SUBSET (Lb!Vals \cup {Lb!NoVal})]

LEMMA LbTypeParts ==
  Lb!TypeOK <=> LbLocalType /\ LbSharedType /\ LbSeenType
BY DEF Lb!TypeOK, Lb!CallsTypeOK, LbLocalType, LbSharedType, LbSeenType,
       LbKeys, LbVals

LEMMA LbStateParts ==
  ASSUME LbState
  PROVE  /\ LbLocalType /\ LbSharedType /\ LbSeenType
         /\ LbKeysOk /\ LbValuesOk
         /\ \A t \in Threads : LbControl(t) /\ LbEntryOk(t) /\ LbFreshOk(t)
BY LbTypeParts DEF LbState

LEMMA LbCallTypes ==
  /\ Lb!Idle \in Lb!Calls
  /\ \A k \in Keys, op \in {"get", "remove"} :
       [op |-> op, key |-> k, val |-> Lb!NoVal] \in Lb!Calls
  /\ \A k \in Keys, v \in Lb!Vals :
       [op |-> "put", key |-> k, val |-> v] \in Lb!Calls
  /\ \A c \in Lb!Calls :
       /\ c.val \in Lb!Vals \cup {Lb!NoVal} /\ c.key \in LbKeys
       /\ c # Lb!Idle => c.key \in Keys /\ c.op # "none"
       /\ c.op # "none" => c # Lb!Idle
       /\ c.op = "put" => c.val \in Lb!Vals /\ c.key \in Keys
  /\ Lb!Idle.op = "none" /\ Lb!Idle.val = Lb!NoVal
BY DEF Lb!Calls, Lb!Idle, LbKeys

(* The values are numbers, but for what a new bucket may hold.             *)
LEMMA LbValueFacts ==
  /\ Lb!NoVal = 0 /\ Lb!NoVal \notin Lb!Vals /\ Garbage \notin Lb!Vals
  /\ Lb!Vals \subseteq Nat /\ Lb!Vals \cup {Lb!NoVal} \subseteq LbVals
  /\ Garbage \in LbVals /\ LbJunk \subseteq LbVals
  /\ {0, 1} \subseteq LbVals \cup {0, 1}
  /\ MaxPuts \in Nat
BY CallsAssumption, GarbageAssumption DEF Lb!Vals, Lb!NoVal, LbVals, LbJunk

(* The call of a thread.                                                   *)
LEMMA LbCallOf ==
  ASSUME LbLocalType, NEW t \in Threads, LbControl(t)
  PROVE  /\ ~Lb!At(t, "idle") => call[t].key \in Keys /\ call[t] # Lb!Idle
         /\ call[t].op = "put" => call[t].val \in Lb!Vals
         /\ call[t].val \in LbVals /\ call[t].val \in Nat
         /\ call[t].key \in LbKeys
<1>1. call[t] \in Lb!Calls
  BY DEF LbLocalType
<1>2. ~Lb!At(t, "idle") => call[t] # Lb!Idle
  BY DEF LbControl
<1>3. /\ call[t].val \in Lb!Vals \cup {Lb!NoVal} /\ call[t].key \in LbKeys
      /\ call[t] # Lb!Idle => call[t].key \in Keys
      /\ call[t].op = "put" => call[t].val \in Lb!Vals
  BY <1>1, LbCallTypes
<1>4. \A v \in Lb!Vals \cup {Lb!NoVal} : v \in LbVals /\ v \in Nat
  BY LbValueFacts
<1> QED BY <1>2, <1>3, <1>4

(* The entries.                                                            *)
LEMMA LbCellType ==
  ASSUME LbSharedType
  PROVE  /\ Len(cells) \in Nat /\ DOMAIN cells = 1 .. Len(cells)
         /\ \A i \in DOMAIN cells :
              cells[i].key \in LbKeys /\ cells[i].val \in LbVals
<1>1. Len(cells) \in Nat /\ DOMAIN cells = 1 .. Len(cells)
  BY LenProperties DEF LbSharedType
<1>2. cells \in Seq([key : LbKeys, val : LbVals])
  BY DEF LbSharedType
<1>3. \A i \in 1 .. Len(cells) : cells[i] \in [key : LbKeys, val : LbVals]
  BY <1>2, ElementOfSeq
<1> QED
  BY <1>1, <1>3

LbKeyTo(i, k) ==
  /\ cells' \in Seq([key : LbKeys, val : LbVals])
  /\ Len(cells') = Len(cells) /\ DOMAIN cells' = DOMAIN cells
  /\ \A j \in DOMAIN cells :
       /\ cells'[j].key = IF j = i THEN k ELSE cells[j].key
       /\ cells'[j].val = cells[j].val
LbValTo(i, v) ==
  /\ cells' \in Seq([key : LbKeys, val : LbVals])
  /\ Len(cells') = Len(cells) /\ DOMAIN cells' = DOMAIN cells
  /\ \A j \in DOMAIN cells :
       /\ cells'[j].val = IF j = i THEN v ELSE cells[j].val
       /\ cells'[j].key = cells[j].key
LbLonger(junk) ==
  /\ cells' \in Seq([key : LbKeys, val : LbVals])
  /\ Len(cells') = Len(cells) + Entries
  /\ DOMAIN cells' = 1 .. Len(cells) + Entries
  /\ \A j \in DOMAIN cells : cells'[j] = cells[j]
  /\ \A j \in DOMAIN cells' \ DOMAIN cells :
       cells'[j].key = NoKey /\ cells'[j].val = junk

LEMMA LbSetKeyTo ==
  ASSUME LbSharedType, NEW i \in DOMAIN cells, NEW k \in LbKeys,
         cells' = Lb!SetKey(i, k)
  PROVE  LbKeyTo(i, k)
<1> DEFINE S == [key : LbKeys, val : LbVals]
           e == [cells[i] EXCEPT !.key = k]
           d == [cells EXCEPT ![i] = e]
<1>1. /\ i \in 1 .. Len(cells) /\ DOMAIN cells = 1 .. Len(cells)
      /\ cells \in Seq(S)
  BY LbCellType DEF LbSharedType
<1>2. cells[i] \in S
  BY <1>1, ElementOfSeq
<1>3. e \in S /\ e.key = k /\ e.val = cells[i].val
  BY <1>2
<1>4. cells' = d
  BY DEF Lb!SetKey
<1> HIDE DEF S, e
<1>5. /\ d \in Seq(S) /\ Len(d) = Len(cells)
      /\ \A j \in 1 .. Len(cells) : d[j] = IF j = i THEN e ELSE cells[j]
  BY <1>1, <1>3, ExceptSeq
<1> HIDE DEF d
<1>6. DOMAIN d = 1 .. Len(d)
  BY <1>5, LenProperties
<1> QED BY <1>1, <1>3, <1>4, <1>5, <1>6 DEF LbKeyTo, S

LEMMA LbSetValTo ==
  ASSUME LbSharedType, NEW i \in DOMAIN cells, NEW v \in LbVals,
         cells' = Lb!SetVal(i, v)
  PROVE  LbValTo(i, v)
<1> DEFINE S == [key : LbKeys, val : LbVals]
           e == [cells[i] EXCEPT !.val = v]
           d == [cells EXCEPT ![i] = e]
<1>1. /\ i \in 1 .. Len(cells) /\ DOMAIN cells = 1 .. Len(cells)
      /\ cells \in Seq(S)
  BY LbCellType DEF LbSharedType
<1>2. cells[i] \in S
  BY <1>1, ElementOfSeq
<1>3. e \in S /\ e.val = v /\ e.key = cells[i].key
  BY <1>2
<1>4. cells' = d
  BY DEF Lb!SetVal
<1> HIDE DEF S, e
<1>5. /\ d \in Seq(S) /\ Len(d) = Len(cells)
      /\ \A j \in 1 .. Len(cells) : d[j] = IF j = i THEN e ELSE cells[j]
  BY <1>1, <1>3, ExceptSeq
<1> HIDE DEF d
<1>6. DOMAIN d = 1 .. Len(d)
  BY <1>5, LenProperties
<1> QED BY <1>1, <1>3, <1>4, <1>5, <1>6 DEF LbValTo, S

LEMMA LbLinkedLonger ==
  ASSUME LbSharedType, NEW junk \in LbJunk, cells' = Lb!Linked(junk)
  PROVE  LbLonger(junk)
<1> DEFINE S == [key : LbKeys, val : LbVals]
           e == [key |-> NoKey, val |-> junk]
           d == cells \o [i \in 1 .. Entries |-> e]
<1>1. DOMAIN cells = 1 .. Len(cells) /\ Len(cells) \in Nat /\ Entries \in Nat
  BY LbCellType, CallsAssumption
<1>2. e \in S /\ cells \in Seq(S)
  BY LbValueFacts DEF LbKeys, LbSharedType
<1> HIDE DEF e, S
<1>3. /\ d \in Seq(S) /\ Len(d) = Len(cells) + Entries
      /\ \A j \in 1 .. Len(cells) + Entries :
           d[j] = IF j <= Len(cells) THEN cells[j] ELSE e
  BY <1>1, <1>2, BucketLinked
<1>4. cells' = d
  BY DEF Lb!Linked, e
<1> HIDE DEF d
<1>5. DOMAIN d = 1 .. Len(d)
  BY <1>3, LenProperties
<1>6. e.key = NoKey /\ e.val = junk
  BY DEF e
<1> QED BY <1>1, <1>3, <1>4, <1>5, <1>6 DEF LbLonger, S

(* The entry that a search under the lock finds.                           *)
LEMMA LbFirst ==
  ASSUME LbSharedType, NEW k, Lb!Having(k) # {}
  PROVE  /\ Lb!Min(Lb!Having(k)) \in DOMAIN cells
         /\ cells[Lb!Min(Lb!Having(k))].key = k
<1>1. Lb!Having(k) \in SUBSET Nat
  BY LbCellType DEF Lb!Having
<1>2. Lb!Min(Lb!Having(k)) \in Lb!Having(k)
  BY <1>1, LeastNumber DEF Lb!Min
<1> QED BY <1>2 DEF Lb!Having

-----------------------------------------------------------------------------
(* The step of one thread leaves the others alone.                         *)
LbStepOf(t) == Lb!Get(t) \/ Lb!Put(t) \/ Lb!Remove(t) \/ Lb!Work(t)

LbOthersSame(t) ==
  \A u \in Threads \ {t} :
    /\ pc'[u] = pc[u] /\ call'[u] = call[u] /\ idx'[u] = idx[u]
    /\ cur'[u] = cur[u] /\ ret'[u] = ret[u]

LEMMA LbStepOthers ==
  ASSUME LbLocalType, NEW t \in Threads, LbStepOf(t)
  PROVE  LbOthersSame(t)
<1> USE DEF LbLocalType, LbOthersSame, Lb!Goto, Lb!SetIdx, Lb!Read,
            Lb!Decide, Lb!Return, Lb!Hold, Lb!Finish
<1>1. CASE Lb!Get(t) \/ Lb!Put(t) \/ Lb!Remove(t)
  BY <1>1 DEF Lb!Get, Lb!Put, Lb!Remove, Lb!Begin
<1>2. CASE Lb!GetVal(t) \/ Lb!GetKey(t) \/ Lb!GetAgain(t)
  BY <1>2
  DEF Lb!GetVal, Lb!ScanVal, Lb!GetKey, Lb!ScanKey, Lb!GetAgain, Lb!ScanAgain
<1>3. CASE Lb!Exists(t)
  BY <1>3 DEF Lb!Exists, Lb!ScanExists, Lb!ExistsDone
<1>4. CASE Lb!PutLocked(t)
  BY <1>4 DEF Lb!PutLocked
<1>5. CASE Lb!WriteKey(t) \/ Lb!LinkKey(t) \/ Lb!LinkVal(t)
  BY <1>5 DEF Lb!WriteKey, Lb!LinkKey, Lb!LinkVal
<1>6. CASE Lb!RemoveLocked(t)
  BY <1>6 DEF Lb!RemoveLocked
<1> QED BY <1>1, <1>2, <1>3, <1>4, <1>5, <1>6 DEF LbStepOf, Lb!Work

-----------------------------------------------------------------------------
(* What a step does to the entries and to the lock.                        *)
LbFreeFor(t) ==
  /\ Lb!At(t, "lock") /\ lock = NoThread /\ call[t].op = "put"
  /\ \A i \in DOMAIN cells : cells[i].key # call[t].key
LbStaysIn(t) == lock' = t /\ call'[t] = call[t] /\ ret'[t] = ret[t]

LbKeeps(t) ==
  /\ UNCHANGED <<cells, lock>>
  /\ pc[t] \notin LbWriting /\ pc'[t] \notin LbWriting
LbFills(t) ==
  /\ LbFreeFor(t) /\ LbStaysIn(t) /\ pc'[t] = "write_key"
  /\ idx'[t] \in DOMAIN cells /\ cells[idx'[t]].key = NoKey
  /\ LbValTo(idx'[t], call[t].val)
LbLinks(t) ==
  /\ LbFreeFor(t) /\ LbStaysIn(t) /\ pc'[t] = "link_key"
  /\ idx'[t] = Len(cells) + 1
  /\ \E junk \in LbJunk : LbLonger(junk)
LbEnters(t) ==
  /\ Lb!At(t, "write_key") /\ lock' = NoThread /\ pc'[t] = "idle"
  /\ LbKeyTo(idx[t], call[t].key)
LbNames(t) ==
  /\ Lb!At(t, "link_key") /\ LbStaysIn(t) /\ pc'[t] = "link_val"
  /\ idx'[t] = idx[t]
  /\ LbKeyTo(idx[t], call[t].key)
LbWrites(t) ==
  /\ Lb!At(t, "link_val") /\ lock' = NoThread /\ pc'[t] = "idle"
  /\ LbValTo(idx[t], call[t].val)
LbTakes(t) ==
  /\ Lb!At(t, "lock") /\ lock = NoThread /\ lock' = NoThread
  /\ call[t].op = "remove" /\ pc'[t] = "idle"
  /\ \E i \in DOMAIN cells :
       /\ cells[i].key = call[t].key
       /\ LbKeyTo(i, NoKey) /\ Lb!Return(t, cells[i].val)

LbEffect(t) ==
  \/ LbKeeps(t) \/ LbFills(t) \/ LbLinks(t) \/ LbEnters(t) \/ LbNames(t)
  \/ LbWrites(t) \/ LbTakes(t)
LbGood(t) == LbLocalType' /\ LbSharedType' /\ LbEffect(t) /\ LbControl(t)'

LEMMA LbBeginGood ==
  ASSUME LbLocalType, LbSharedType, NEW t \in Threads, LbControl(t),
         Lb!Get(t) \/ Lb!Put(t) \/ Lb!Remove(t)
  PROVE  LbGood(t)
<1> USE DEF LbLocalType, Lb!Goto, Lb!SetIdx, Lb!At
<1>1. PICK op \in {"get", "put", "remove"}, k \in Keys,
           v \in Lb!Vals \cup {Lb!NoVal} :
        /\ call' = [call EXCEPT ![t] = [op |-> op, key |-> k, val |-> v]]
        /\ IF op = "put" THEN v \in Lb!Vals ELSE v = Lb!NoVal
        /\ pc' = [pc EXCEPT ![t] = IF op = "get" THEN "get_val"
                                   ELSE "exists"]
  <2>1. puts \in 0 .. MaxPuts /\ MaxPuts \in Nat
    BY LbValueFacts DEF LbSharedType
  <2>2. Lb!Put(t) => puts + 1 \in Lb!Vals
    BY <2>1 DEF Lb!Put, Lb!Begin, Lb!Vals
  <2> QED BY <2>2 DEF Lb!Get, Lb!Put, Lb!Remove, Lb!Begin
<1>2. call' \in [Threads -> Lb!Calls] /\ call'[t].op = op
      /\ call'[t] # Lb!Idle
  BY <1>1, LbCallTypes
<1>3. /\ pc' \in [Threads -> Lb!Labels] /\ idx' \in [Threads -> Nat]
      /\ cur' \in [Threads -> LbVals]
      /\ ret' \in [Threads -> LbVals \cup {0, 1}]
  BY <1>1, LbValueFacts DEF Lb!Get, Lb!Put, Lb!Remove, Lb!Begin, Lb!Labels
<1>4. pc[t] = "idle" /\ pc'[t] = (IF op = "get" THEN "get_val" ELSE "exists")
      /\ idx'[t] = 1 /\ UNCHANGED <<cells, lock>>
  BY <1>1 DEF Lb!Get, Lb!Put, Lb!Remove, Lb!Begin
<1>5. puts' \in 0 .. MaxPuts
  BY LbValueFacts
  DEF LbSharedType, Lb!Get, Lb!Put, Lb!Remove, Lb!Begin
<1>6. LbSharedType'
  BY <1>4, <1>5 DEF LbSharedType
<1>7. LbControl(t)'
  BY <1>2, <1>4 DEF LbControl, LbWriting
<1>8. LbKeeps(t)
  BY <1>4 DEF LbKeeps, LbWriting
<1> QED BY <1>2, <1>3, <1>6, <1>7, <1>8 DEF LbGood, LbEffect

LEMMA LbReturnGood ==
  ASSUME LbLocalType, NEW t \in Threads, NEW r \in LbVals \cup {0, 1},
         Lb!Return(t, r)
  PROVE  LbLocalType' /\ pc'[t] = "idle" /\ LbControl(t)'
<1>1. /\ Lb!Idle \in Lb!Calls /\ Lb!Idle.op = "none" /\ Lb!NoVal \in LbVals
      /\ 1 \in Nat
  BY LbCallTypes, LbValueFacts
<1>2. LbLocalType' /\ pc'[t] = "idle" /\ call'[t] = Lb!Idle /\ idx'[t] = 1
  BY <1>1 DEF LbLocalType, Lb!Return, Lb!Decide, Lb!Goto, Lb!Read,
              Lb!SetIdx, Lb!Labels
<1> QED BY <1>2 DEF LbControl, Lb!At, LbWriting

LEMMA LbScanGood ==
  ASSUME LbLocalType, LbSharedType, NEW t \in Threads, LbControl(t),
         Lb!GetVal(t) \/ Lb!GetKey(t) \/ Lb!GetAgain(t) \/ Lb!Exists(t)
  PROVE  LbGood(t)
<1>1. UNCHANGED <<cells, lock, puts>> /\ pc[t] \notin LbWriting
  BY DEF Lb!GetVal, Lb!ScanVal, Lb!GetKey, Lb!ScanKey, Lb!GetAgain,
         Lb!ScanAgain, Lb!Exists, Lb!ScanExists, Lb!At, LbWriting
<1>2. LbSharedType'
  BY <1>1 DEF LbSharedType
<1>3. SUFFICES LbLocalType' /\ LbControl(t)' /\ pc'[t] \notin LbWriting
  BY <1>1, <1>2 DEF LbGood, LbEffect, LbKeeps
<1>4. 0 \in LbVals \cup {0, 1} /\ LbVals \subseteq LbVals \cup {0, 1}
      /\ Lb!NoVal \in LbVals
  BY LbValueFacts
<1>5. /\ Len(cells) \in Nat /\ DOMAIN cells = 1 .. Len(cells)
      /\ \A i \in DOMAIN cells : cells[i].val \in LbVals
      /\ idx[t] \in Nat /\ idx[t] >= 1 /\ idx[t] + 1 \in Nat
      /\ idx[t] + 1 >= 1 /\ cur[t] \in LbVals
  BY LbCellType DEF LbLocalType, LbControl
<1>6. CASE \E r \in LbVals \cup {0, 1} : Lb!Return(t, r)
  BY <1>6, LbReturnGood DEF LbWriting
<1>7. CASE Lb!GetVal(t)
  <2>1. CASE Lb!AtEnd(t)
    BY <1>4, <1>6, <1>7, <2>1 DEF Lb!GetVal, Lb!ScanVal
  <2>2. CASE ~Lb!AtEnd(t)
    <3>1. idx[t] \in DOMAIN cells /\ call[t].op = "get"
          /\ call[t] # Lb!Idle
      BY <1>5, <1>7, <2>2
      DEF Lb!AtEnd, Lb!GetVal, Lb!ScanVal, LbControl, Lb!At
    <3> QED
      BY <1>1, <1>5, <1>7, <2>2, <3>1
      DEF Lb!GetVal, Lb!ScanVal, Lb!Goto, Lb!Read, LbLocalType, LbControl,
          Lb!At, Lb!Labels, LbWriting
  <2> QED BY <2>1, <2>2
<1>8. CASE Lb!GetKey(t)
  <2>1. /\ idx[t] \in DOMAIN cells /\ call[t].op = "get"
        /\ call[t] # Lb!Idle /\ UNCHANGED <<cells, call, ret>>
    BY <1>8 DEF Lb!GetKey, Lb!ScanKey, LbControl, Lb!At
  <2>2. CASE Lb!Mine(t)
    BY <1>5, <1>8, <2>1, <2>2
    DEF Lb!GetKey, Lb!ScanKey, Lb!Goto, LbLocalType, LbControl, Lb!At,
        Lb!Labels, LbWriting
  <2>3. CASE ~Lb!Mine(t)
    <3>1. /\ pc' = [pc EXCEPT ![t] = "get_val"]
          /\ idx' = [idx EXCEPT ![t] = idx[t] + 1]
          /\ cur' = [cur EXCEPT ![t] = Lb!NoVal]
      BY <1>8, <2>3 DEF Lb!GetKey, Lb!ScanKey, Lb!Goto, Lb!Read, Lb!SetIdx
    <3>2. LbLocalType' /\ pc'[t] = "get_val" /\ idx'[t] >= 1
      BY <1>4, <1>5, <2>1, <3>1 DEF LbLocalType, Lb!Labels
    <3> QED BY <2>1, <3>2 DEF LbControl, Lb!At, LbWriting
  <2> QED BY <2>2, <2>3
<1>9. CASE Lb!GetAgain(t)
  BY <1>4, <1>5, <1>6, <1>9 DEF Lb!GetAgain, Lb!ScanAgain
<1>10. CASE Lb!Exists(t)
  <2>1. CASE Lb!Return(t, 0)
    BY <1>4, <1>6, <2>1
  <2>2. CASE ~Lb!Return(t, 0)
    <3>1. /\ Lb!At(t, "exists") /\ UNCHANGED <<call, cur, ret>>
          /\ pc' = pc \/ pc' = [pc EXCEPT ![t] = "lock"]
          /\ \E i \in {1, idx[t] + 1} : idx' = [idx EXCEPT ![t] = i]
      BY <1>10, <2>2
      DEF Lb!Exists, Lb!ScanExists, Lb!ExistsDone, Lb!Goto, Lb!SetIdx
    <3>2. /\ pc' \in [Threads -> Lb!Labels] /\ idx' \in [Threads -> Nat]
          /\ pc'[t] \in {"exists", "lock"} /\ idx'[t] >= 1
      <4>1. PICK i \in {1, idx[t] + 1} : idx' = [idx EXCEPT ![t] = i]
        BY <3>1
      <4>2. i \in Nat /\ i >= 1
        BY <1>5
      <4> QED BY <3>1, <4>1, <4>2 DEF LbLocalType, Lb!Labels, Lb!At
    <3> QED
      BY <3>1, <3>2 DEF LbLocalType, LbControl, Lb!At, LbWriting
  <2> QED BY <2>1, <2>2
<1> QED BY <1>7, <1>8, <1>9, <1>10

LEMMA LbHoldGood ==
  ASSUME LbLocalType, NEW t \in Threads, LbControl(t),
         NEW i \in Nat \ {0}, NEW label \in LbWriting,
         Lb!Hold(t, i, label), call[t].op = "put", ~Lb!At(t, "idle"),
         i \in DOMAIN cells'
  PROVE  /\ LbLocalType' /\ LbControl(t)'
         /\ LbStaysIn(t) /\ pc'[t] = label /\ idx'[t] = i /\ puts' = puts
<1>1. label \in Lb!Labels /\ label \notin {"idle", "get_val", "get_key",
                                          "get_again", "exists", "lock"}
  BY DEF LbWriting, Lb!Labels
<1>2. /\ pc' = [pc EXCEPT ![t] = label] /\ idx' = [idx EXCEPT ![t] = i]
      /\ UNCHANGED <<call, cur, puts, ret>> /\ lock' = t
  BY DEF Lb!Hold, Lb!Goto, Lb!SetIdx
<1>3. LbLocalType' /\ pc'[t] = label /\ idx'[t] = i /\ call[t] # Lb!Idle
  BY <1>1, <1>2 DEF LbLocalType, LbControl
<1> QED BY <1>1, <1>2, <1>3 DEF LbControl, Lb!At, LbStaysIn

LEMMA LbPutGood ==
  ASSUME LbLocalType, LbSharedType, NEW t \in Threads, LbControl(t),
         Lb!PutLocked(t) \/ Lb!WriteKey(t) \/ Lb!LinkKey(t) \/ Lb!LinkVal(t)
  PROVE  LbGood(t)
<1>1. /\ Len(cells) \in Nat /\ DOMAIN cells = 1 .. Len(cells)
      /\ Entries \in Nat \ {0} /\ NoThread \in Threads \cup {NoThread}
      /\ idx[t] \in Nat
  BY LbCellType, CallsAssumption DEF LbLocalType
<1>2. ~Lb!At(t, "idle") /\ call[t].op = "put"
  BY DEF Lb!PutLocked, Lb!CanLock, Lb!WriteKey, Lb!LinkKey, Lb!LinkVal,
         LbControl, Lb!At, LbWriting
<1>3. /\ call[t].key \in LbKeys /\ call[t].val \in LbVals
      /\ call[t].key \in Keys
  BY <1>2, LbCallOf
<1>4. 0 \in LbVals \cup {0, 1} /\ 1 \in LbVals \cup {0, 1}
  OBVIOUS
<1>5. CASE Lb!PutLocked(t) /\ Lb!Having(call[t].key) # {}
  <2>1. Lb!Return(t, 0) /\ UNCHANGED <<cells, lock, puts>>
        /\ pc[t] = "lock"
    BY <1>5 DEF Lb!PutLocked, Lb!CanLock, Lb!Finish, Lb!At
  <2>2. LbLocalType' /\ pc'[t] = "idle" /\ LbControl(t)'
    BY <1>4, <2>1, LbReturnGood
  <2> QED
    BY <2>1, <2>2 DEF LbGood, LbSharedType, LbEffect, LbKeeps, LbWriting
<1>6. CASE Lb!PutLocked(t) /\ Lb!Having(call[t].key) = {}
  <2>1. LbFreeFor(t)
    BY <1>6 DEF LbFreeFor, Lb!PutLocked, Lb!CanLock, Lb!Having
  <2>2. CASE Lb!Having(NoKey) # {}
    <3> DEFINE i == Lb!Min(Lb!Having(NoKey))
    <3>1. i \in DOMAIN cells /\ cells[i].key = NoKey
      BY <2>2, LbFirst
    <3>2. cells' = Lb!SetVal(i, call[t].val) /\ Lb!Hold(t, i, "write_key")
      BY <1>6, <2>2 DEF Lb!PutLocked
    <3> HIDE DEF i
    <3>3. LbValTo(i, call[t].val)
      BY <1>3, <3>1, <3>2, LbSetValTo
    <3>4. i \in DOMAIN cells' /\ i \in Nat \ {0}
      BY <1>1, <3>1, <3>3 DEF LbValTo
    <3>5. /\ LbLocalType' /\ LbControl(t)' /\ LbStaysIn(t)
          /\ pc'[t] = "write_key" /\ idx'[t] = i /\ puts' = puts
      BY <1>2, <3>2, <3>4, LbHoldGood DEF LbWriting
    <3>6. LbFills(t)
      BY <2>1, <3>1, <3>3, <3>5 DEF LbFills
    <3>7. LbSharedType'
      BY <3>3, <3>5 DEF LbSharedType, LbValTo, LbStaysIn
    <3> QED BY <3>5, <3>6, <3>7 DEF LbGood, LbEffect
  <2>3. CASE Lb!Having(NoKey) = {}
    <3>1. PICK junk \in LbJunk : cells' = Lb!Linked(junk)
      BY <1>6, <2>3 DEF Lb!PutLocked, LbJunk
    <3>2. LbLonger(junk)
      BY <3>1, LbLinkedLonger
    <3>3. Len(cells) + 1 \in DOMAIN cells' /\ Len(cells) + 1 \in Nat \ {0}
      BY <1>1, <3>2 DEF LbLonger
    <3>4. Lb!Hold(t, Len(cells) + 1, "link_key")
      BY <1>6, <2>3 DEF Lb!PutLocked
    <3>5. /\ LbLocalType' /\ LbControl(t)' /\ LbStaysIn(t)
          /\ pc'[t] = "link_key" /\ idx'[t] = Len(cells) + 1
          /\ puts' = puts
      BY <1>2, <3>3, <3>4, LbHoldGood DEF LbWriting
    <3>6. LbLinks(t)
      BY <2>1, <3>2, <3>5 DEF LbLinks
    <3>7. LbSharedType'
      BY <3>2, <3>5 DEF LbSharedType, LbLonger, LbStaysIn
    <3> QED BY <3>5, <3>6, <3>7 DEF LbGood, LbEffect
  <2> QED BY <2>2, <2>3
<1>7. CASE Lb!WriteKey(t)
  <2>1. /\ Lb!At(t, "write_key") /\ idx[t] \in DOMAIN cells
        /\ cells' = Lb!SetKey(idx[t], call[t].key)
        /\ Lb!Return(t, 1) /\ lock' = NoThread /\ puts' = puts
    BY <1>7 DEF Lb!WriteKey, Lb!Finish, LbControl, LbWriting, Lb!At
  <2>2. LbKeyTo(idx[t], call[t].key)
    BY <1>3, <2>1, LbSetKeyTo
  <2>3. LbLocalType' /\ pc'[t] = "idle" /\ LbControl(t)'
    BY <1>4, <2>1, LbReturnGood
  <2>4. LbSharedType'
    BY <1>1, <2>1, <2>2 DEF LbSharedType, LbKeyTo
  <2> QED BY <2>1, <2>2, <2>3, <2>4 DEF LbGood, LbEffect, LbEnters
<1>8. CASE Lb!LinkKey(t)
  <2>1. /\ Lb!At(t, "link_key") /\ idx[t] \in DOMAIN cells
        /\ cells' = Lb!SetKey(idx[t], call[t].key)
        /\ Lb!Hold(t, idx[t], "link_val")
    BY <1>8 DEF Lb!LinkKey, LbControl, LbWriting, Lb!At
  <2>2. LbKeyTo(idx[t], call[t].key)
    BY <1>3, <2>1, LbSetKeyTo
  <2>3. idx[t] \in DOMAIN cells' /\ idx[t] \in Nat \ {0}
    BY <1>1, <2>1, <2>2 DEF LbKeyTo
  <2>4. /\ LbLocalType' /\ LbControl(t)' /\ LbStaysIn(t)
        /\ pc'[t] = "link_val" /\ idx'[t] = idx[t] /\ puts' = puts
    BY <1>2, <2>1, <2>3, LbHoldGood DEF LbWriting
  <2>5. LbSharedType'
    BY <2>2, <2>4 DEF LbSharedType, LbKeyTo, LbStaysIn
  <2> QED BY <2>1, <2>2, <2>4, <2>5 DEF LbGood, LbEffect, LbNames
<1>9. CASE Lb!LinkVal(t)
  <2>1. /\ Lb!At(t, "link_val") /\ idx[t] \in DOMAIN cells
        /\ cells' = Lb!SetVal(idx[t], call[t].val)
        /\ Lb!Return(t, 1) /\ lock' = NoThread /\ puts' = puts
    BY <1>9 DEF Lb!LinkVal, Lb!Finish, LbControl, LbWriting, Lb!At
  <2>2. LbValTo(idx[t], call[t].val)
    BY <1>3, <2>1, LbSetValTo
  <2>3. LbLocalType' /\ pc'[t] = "idle" /\ LbControl(t)'
    BY <1>4, <2>1, LbReturnGood
  <2>4. LbSharedType'
    BY <1>1, <2>1, <2>2 DEF LbSharedType, LbValTo
  <2> QED BY <2>1, <2>2, <2>3, <2>4 DEF LbGood, LbEffect, LbWrites
<1> QED BY <1>5, <1>6, <1>7, <1>8, <1>9

LEMMA LbRemoveGood ==
  ASSUME LbLocalType, LbSharedType, NEW t \in Threads, LbControl(t),
         Lb!RemoveLocked(t)
  PROVE  LbGood(t)
<1>1. /\ Lb!At(t, "lock") /\ lock = NoThread /\ lock' = NoThread
      /\ call[t].op = "remove" /\ puts' = puts
      /\ NoThread \in Threads \cup {NoThread}
  BY DEF Lb!RemoveLocked, Lb!CanLock, Lb!Finish
<1>2. CASE Lb!Having(call[t].key) = {}
  <2>1. Lb!Return(t, 0) /\ UNCHANGED cells
    BY <1>2 DEF Lb!RemoveLocked, Lb!Finish
  <2>2. LbLocalType' /\ pc'[t] = "idle" /\ LbControl(t)'
    BY <2>1, LbReturnGood
  <2> QED
    BY <1>1, <2>1, <2>2
    DEF LbGood, LbSharedType, LbEffect, LbKeeps, LbWriting, Lb!At
<1>3. CASE Lb!Having(call[t].key) # {}
  <2> DEFINE i == Lb!Min(Lb!Having(call[t].key))
  <2>1. i \in DOMAIN cells /\ cells[i].key = call[t].key
    BY <1>3, LbFirst
  <2>2. cells' = Lb!SetKey(i, NoKey) /\ Lb!Return(t, cells[i].val)
    BY <1>3 DEF Lb!RemoveLocked, Lb!Finish
  <2> HIDE DEF i
  <2>3. NoKey \in LbKeys /\ cells[i].val \in LbVals \cup {0, 1}
    BY <2>1, LbCellType DEF LbKeys
  <2>4. LbKeyTo(i, NoKey)
    BY <2>1, <2>2, <2>3, LbSetKeyTo
  <2>5. LbLocalType' /\ pc'[t] = "idle" /\ LbControl(t)'
    BY <2>2, <2>3, LbReturnGood
  <2>6. LbTakes(t)
    BY <1>1, <2>1, <2>2, <2>4, <2>5 DEF LbTakes
  <2>7. LbSharedType'
    BY <1>1, <2>4 DEF LbSharedType, LbKeyTo
  <2> QED BY <2>5, <2>6, <2>7 DEF LbGood, LbEffect
<1> QED BY <1>2, <1>3

LEMMA LbStepGood ==
  ASSUME LbLocalType, LbSharedType, NEW t \in Threads, LbControl(t),
         LbStepOf(t)
  PROVE  LbGood(t)
BY LbBeginGood, LbScanGood, LbPutGood, LbRemoveGood
DEF LbStepOf, Lb!Work

-----------------------------------------------------------------------------
(* One thread at most is between two stores.                               *)

LEMMA LbStepFacts ==
  ASSUME LbState, NEW t \in Threads, LbStepOf(t)
  PROVE  /\ LbLocalType /\ LbSharedType /\ LbKeysOk /\ LbValuesOk
         /\ LbControl(t) /\ LbEntryOk(t) /\ LbFreshOk(t)
         /\ LbLocalType' /\ LbSharedType' /\ LbEffect(t) /\ LbControl(t)'
         /\ LbOthersSame(t)
<1>1. /\ LbLocalType /\ LbSharedType /\ LbKeysOk /\ LbValuesOk
      /\ LbControl(t) /\ LbEntryOk(t) /\ LbFreshOk(t)
  BY LbStateParts
<1>2. LbGood(t) /\ LbOthersSame(t)
  BY <1>1, LbStepGood, LbStepOthers
<1> QED BY <1>1, <1>2 DEF LbGood

LEMMA LbEntryFacts ==
  ASSUME LbSharedType, NEW t \in Threads, LbEffect(t)
  PROVE  /\ Len(cells) \in Nat /\ DOMAIN cells = 1 .. Len(cells)
         /\ \A i \in DOMAIN cells :
              cells[i].key \in LbKeys /\ cells[i].val \in LbVals
         /\ Entries \in Nat \ {0} /\ NoKey \notin Keys
         /\ DOMAIN cells \subseteq DOMAIN cells'
<1>1. /\ Len(cells) \in Nat /\ DOMAIN cells = 1 .. Len(cells)
      /\ \A i \in DOMAIN cells :
           cells[i].key \in LbKeys /\ cells[i].val \in LbVals
      /\ Entries \in Nat \ {0} /\ NoKey \notin Keys
  BY LbCellType, CallsAssumption
<1>2. DOMAIN cells \subseteq DOMAIN cells'
  BY <1>1 DEF LbEffect, LbKeeps, LbFills, LbLinks, LbEnters, LbNames,
              LbWrites, LbTakes, LbKeyTo, LbValTo, LbLonger
<1> QED BY <1>1, <1>2

LEMMA LbLockMine ==
  ASSUME LbState, NEW t \in Threads, LbStepOf(t)
  PROVE  LbKeeps(t) \/ lock \in {NoThread, t}
BY LbStepFacts
DEF LbEffect, LbFills, LbLinks, LbEnters, LbNames, LbWrites, LbTakes,
    LbFreeFor, LbEntryOk, LbWriting, Lb!At

LEMMA LbAlone ==
  ASSUME LbState, NEW t \in Threads, lock \in {NoThread, t}
  PROVE  \A u \in Threads \ {t} : pc[u] \notin LbWriting
<1>1. \A u \in Threads \ {t} : pc[u] \in LbWriting => lock = u
  BY LbStateParts DEF LbEntryOk
<1>2. NoThread \notin Threads
  BY CallsAssumption
<1> QED BY <1>1, <1>2

LEMMA LbOtherEntries ==
  ASSUME LbState, NEW t \in Threads, NEW u \in Threads \ {t}, LbStepOf(t)
  PROVE  LbControl(u)' /\ LbEntryOk(u)'
<1>1. /\ LbSharedType /\ LbEffect(t) /\ LbOthersSame(t)
      /\ LbControl(u) /\ LbEntryOk(u)
  BY LbStepFacts, LbStateParts
<1>2. /\ pc'[u] = pc[u] /\ call'[u] = call[u] /\ idx'[u] = idx[u]
  BY <1>1 DEF LbOthersSame
<1>3. DOMAIN cells \subseteq DOMAIN cells'
  BY <1>1, LbEntryFacts
<1>4. LbControl(u)'
  BY <1>1, <1>2, <1>3 DEF LbControl, Lb!At
<1>5. CASE pc[u] \in LbWriting
  <2>1. UNCHANGED <<cells, lock>>
    BY <1>5, LbLockMine, LbAlone DEF LbKeeps
  <2> QED BY <1>1, <1>2, <1>4, <2>1 DEF LbEntryOk, Lb!At
<1>6. CASE pc[u] \notin LbWriting
  BY <1>2, <1>4, <1>6 DEF LbEntryOk, Lb!At, LbWriting
<1> QED BY <1>5, <1>6

LEMMA LbActorEntry ==
  ASSUME LbState, NEW t \in Threads, LbStepOf(t)
  PROVE  LbEntryOk(t)'
<1>1. /\ LbLocalType /\ LbSharedType /\ LbEffect(t)
      /\ LbControl(t) /\ LbEntryOk(t)
  BY LbStepFacts
<1>2. /\ Len(cells) \in Nat /\ DOMAIN cells = 1 .. Len(cells)
      /\ Entries \in Nat \ {0}
      /\ DOMAIN cells \subseteq DOMAIN cells'
  BY <1>1, LbEntryFacts
<1>3. CASE LbKeeps(t)
  BY <1>3 DEF LbKeeps, LbEntryOk, Lb!At, LbWriting
<1>4. CASE LbFills(t)
  <2>1. /\ cells'[idx'[t]].key = NoKey /\ cells'[idx'[t]].val = call[t].val
        /\ \A i \in DOMAIN cells' : cells'[i].key # call[t].key
    BY <1>4 DEF LbFills, LbFreeFor, LbValTo
  <2> QED BY <1>4, <2>1 DEF LbFills, LbStaysIn, LbEntryOk, Lb!At
<1>5. CASE LbLinks(t)
  <2>1. /\ Len(cells) + 1 \in DOMAIN cells'
        /\ cells'[Len(cells) + 1].key = NoKey
        /\ cells'[Len(cells) + 1].val \in LbJunk
        /\ call[t].key # NoKey
        /\ \A i \in DOMAIN cells' : cells'[i].key # call[t].key
    <3>1. call[t].key \in Keys /\ NoKey \notin Keys
      BY <1>1, <1>5, LbCallOf, CallsAssumption
      DEF LbLinks, LbFreeFor, Lb!At
    <3>2. PICK junk \in LbJunk : LbLonger(junk)
      BY <1>5 DEF LbLinks
    <3>3. \A i \in DOMAIN cells' :
            cells'[i].key = IF i \in DOMAIN cells THEN cells[i].key ELSE NoKey
      BY <3>2 DEF LbLonger
    <3>4. Len(cells) + 1 \in DOMAIN cells' \ DOMAIN cells
      BY <1>2, <3>2 DEF LbLonger
    <3>5. cells'[Len(cells) + 1].val = junk
      BY <3>2, <3>4 DEF LbLonger
    <3> QED BY <1>5, <3>1, <3>3, <3>4, <3>5 DEF LbLinks, LbFreeFor
  <2> QED BY <1>5, <2>1 DEF LbLinks, LbStaysIn, LbEntryOk, Lb!At
<1>6. CASE LbNames(t)
  <2>1. idx[t] \in DOMAIN cells /\ lock = t
    BY <1>1, <1>6 DEF LbNames, LbControl, LbEntryOk, LbWriting, Lb!At
  <2>2. cells'[idx[t]].key = call[t].key
        /\ cells'[idx[t]].val = cells[idx[t]].val
    BY <1>6, <2>1 DEF LbNames, LbKeyTo
  <2>3. cells[idx[t]].val \in LbJunk
    BY <1>1, <1>6 DEF LbNames, LbEntryOk, Lb!At
  <2> QED BY <1>6, <2>2, <2>3 DEF LbNames, LbStaysIn, LbEntryOk, Lb!At
<1>7. CASE LbEnters(t) \/ LbWrites(t) \/ LbTakes(t)
  BY <1>7 DEF LbEnters, LbWrites, LbTakes, LbEntryOk, Lb!At, LbWriting
<1> QED BY <1>1, <1>3, <1>4, <1>5, <1>6, <1>7 DEF LbEffect

(* The entry whose put has not written the value yet.                      *)
LEMMA LbUnwrittenStep ==
  ASSUME LbState, NEW t \in Threads, LbStepOf(t)
  PROVE  /\ LbKeeps(t) => Lb!Unwritten' = Lb!Unwritten
         /\ LbFills(t) \/ LbLinks(t) \/ LbEnters(t) \/ LbTakes(t)
              => Lb!Unwritten = {} /\ Lb!Unwritten' = {}
         /\ LbNames(t)
              => Lb!Unwritten = {} /\ Lb!Unwritten' = {idx[t]}
         /\ LbWrites(t)
              => Lb!Unwritten = {idx[t]} /\ Lb!Unwritten' = {}
<1>1. LbOthersSame(t) /\ LbEntryOk(t)
  BY LbStepFacts
<1>2. \A u \in Threads \ {t} : pc'[u] = pc[u] /\ idx'[u] = idx[u]
  BY <1>1 DEF LbOthersSame
<1>3. pc[t] # "link_val" /\ pc'[t] # "link_val"
        => Lb!Unwritten' = Lb!Unwritten
  BY <1>2 DEF Lb!Unwritten, Lb!At
<1>4. ASSUME lock \in {NoThread, t}
      PROVE  /\ Lb!Unwritten = IF pc[t] = "link_val" THEN {idx[t]} ELSE {}
             /\ Lb!Unwritten' = IF pc'[t] = "link_val" THEN {idx'[t]} ELSE {}
  <2>1. \A u \in Threads \ {t} : pc[u] # "link_val"
    BY <1>4, LbAlone DEF LbWriting
  <2> QED BY <1>2, <2>1 DEF Lb!Unwritten, Lb!At
<1>5. LbKeeps(t) => pc[t] # "link_val" /\ pc'[t] # "link_val"
  BY DEF LbKeeps, LbWriting
<1>6. LbFills(t) \/ LbLinks(t) \/ LbEnters(t) \/ LbTakes(t)
        => /\ lock \in {NoThread, t}
           /\ pc[t] # "link_val" /\ pc'[t] # "link_val"
  BY <1>1 DEF LbFills, LbLinks, LbEnters, LbTakes, LbFreeFor, LbEntryOk,
              LbWriting, Lb!At
<1>7. LbNames(t) => /\ lock \in {NoThread, t} /\ idx'[t] = idx[t]
                    /\ pc[t] # "link_val" /\ pc'[t] = "link_val"
  BY <1>1 DEF LbNames, LbEntryOk, LbWriting, Lb!At
<1>8. LbWrites(t) => /\ lock \in {NoThread, t}
                     /\ pc[t] = "link_val" /\ pc'[t] # "link_val"
  BY <1>1 DEF LbWrites, LbEntryOk, LbWriting, Lb!At
<1> QED BY <1>3, <1>4, <1>5, <1>6, <1>7, <1>8

LEMMA LbKeysStep ==
  ASSUME LbState, NEW t \in Threads, LbStepOf(t)
  PROVE  LbKeysOk'
<1>1. /\ LbLocalType /\ LbSharedType /\ LbKeysOk /\ LbEffect(t)
      /\ LbControl(t) /\ LbEntryOk(t)
  BY LbStepFacts
<1>2. /\ Len(cells) \in Nat /\ DOMAIN cells = 1 .. Len(cells)
      /\ Entries \in Nat \ {0} /\ NoKey \notin Keys
      /\ DOMAIN cells \subseteq DOMAIN cells'
  BY <1>1, LbEntryFacts
<1>3. CASE LbKeeps(t)
  BY <1>1, <1>3, LbUnwrittenStep DEF LbKeeps, LbKeysOk
<1>4. CASE LbFills(t) \/ LbLinks(t) \/ LbTakes(t)
  <2>1. \A i \in DOMAIN cells' :
          cells'[i].key \in Keys =>
            /\ i \in DOMAIN cells
            /\ cells'[i].key = cells[i].key
            /\ cells'[i].val = cells[i].val
    BY <1>2, <1>4
    DEF LbFills, LbLinks, LbTakes, LbValTo, LbLonger, LbKeyTo
  <2>2. Lb!Unwritten = {} /\ Lb!Unwritten' = {}
    BY <1>4, LbUnwrittenStep
  <2> QED BY <1>1, <2>1, <2>2 DEF LbKeysOk
<1>5. CASE LbEnters(t)
  <2>1. /\ LbKeyTo(idx[t], call[t].key) /\ idx[t] \in DOMAIN cells
        /\ cells[idx[t]].val \in Lb!Vals
        /\ \A i \in DOMAIN cells : cells[i].key # call[t].key
    BY <1>1, <1>5, LbCallOf
    DEF LbEnters, LbControl, LbEntryOk, LbWriting, Lb!At
  <2>2. Lb!Unwritten = {} /\ Lb!Unwritten' = {}
    BY <1>5, LbUnwrittenStep
  <2> QED BY <1>1, <2>1, <2>2 DEF LbKeysOk, LbKeyTo
<1>6. CASE LbNames(t)
  <2>1. /\ LbKeyTo(idx[t], call[t].key) /\ idx[t] \in DOMAIN cells
        /\ \A i \in DOMAIN cells : cells[i].key # call[t].key
    BY <1>1, <1>6 DEF LbNames, LbControl, LbEntryOk, LbWriting, Lb!At
  <2>2. Lb!Unwritten = {} /\ Lb!Unwritten' = {idx[t]}
    BY <1>6, LbUnwrittenStep
  <2> QED BY <1>1, <2>1, <2>2 DEF LbKeysOk, LbKeyTo
<1>7. CASE LbWrites(t)
  <2>1. /\ LbValTo(idx[t], call[t].val) /\ idx[t] \in DOMAIN cells
        /\ call[t].val \in Lb!Vals
    BY <1>1, <1>7, LbCallOf DEF LbWrites, LbControl, LbWriting, Lb!At
  <2>2. Lb!Unwritten = {idx[t]} /\ Lb!Unwritten' = {}
    BY <1>7, LbUnwrittenStep
  <2> QED BY <1>1, <2>1, <2>2 DEF LbKeysOk, LbValTo
<1> QED BY <1>1, <1>3, <1>4, <1>5, <1>6, <1>7 DEF LbEffect

(* The values: a put stores a number that has not occurred before.         *)
LEMMA LbCallStep ==
  ASSUME LbState, NEW t \in Threads, LbStepOf(t)
  PROVE  \/ /\ Lb!Put(t) /\ puts' = puts + 1 /\ call'[t].val = puts + 1
            /\ cur'[t] = cur[t] /\ UNCHANGED cells
         \/ /\ puts' = puts /\ call'[t].val \in {call[t].val, Lb!NoVal}
            /\ cur'[t] \in {cur[t], Lb!NoVal}
                             \cup {cells[i].val : i \in DOMAIN cells}
            /\ LbUnstored(t)' => LbUnstored(t) /\ call'[t].val = call[t].val
<1>1. LbLocalType /\ LbControl(t)
  BY LbStepFacts
<1>2. Lb!Idle.val = Lb!NoVal /\ Lb!Idle.op = "none"
  BY LbCallTypes
<1> USE <1>1 DEF LbLocalType, Lb!At, LbUnstored
<1>3. CASE \E r : Lb!Return(t, r) /\ puts' = puts
  BY <1>2, <1>3 DEF Lb!Return, Lb!Decide, Lb!Goto, Lb!Read
<1>4. CASE \E i, label : /\ Lb!Hold(t, i, label) /\ LbUnstored(t)
  BY <1>4 DEF Lb!Hold
<1>5. CASE Lb!Put(t)
  <2>1. PICK k \in Keys :
          call' =
            [call EXCEPT ![t] = [op |-> "put", key |-> k, val |-> puts + 1]]
    BY <1>5 DEF Lb!Put, Lb!Begin
  <2>2. call'[t].val = puts + 1
    BY <2>1
  <2>3. puts' = puts + 1 /\ cur'[t] = cur[t] /\ UNCHANGED cells
    BY <1>5 DEF Lb!Put, Lb!Begin
  <2> QED BY <1>5, <2>2, <2>3
<1>6. CASE Lb!Get(t) \/ Lb!Remove(t)
  <2>1. PICK k \in Keys, op \in {"get", "remove"} :
          call' =
            [call EXCEPT ![t] = [op |-> op, key |-> k, val |-> Lb!NoVal]]
    BY <1>6 DEF Lb!Get, Lb!Remove, Lb!Begin
  <2>2. call'[t].val = Lb!NoVal /\ call'[t].op # "put"
    BY <2>1
  <2>3. puts' = puts /\ cur'[t] = cur[t]
    BY <1>6 DEF Lb!Get, Lb!Remove, Lb!Begin
  <2> QED BY <2>2, <2>3
<1>7. CASE Lb!GetVal(t) /\ ~Lb!AtEnd(t)
  <2>1. idx[t] \in DOMAIN cells
    <3>1. idx[t] \in Nat /\ idx[t] >= 1 /\ DOMAIN cells = 1 .. Len(cells)
          /\ Len(cells) \in Nat
      BY LbStepFacts, LbCellType DEF LbControl
    <3> QED BY <1>7, <3>1 DEF Lb!AtEnd
  <2>2. cur'[t] = cells[idx[t]].val /\ puts' = puts /\ call' = call
        /\ call[t].op = "get"
    BY <1>7 DEF Lb!GetVal, Lb!ScanVal, Lb!Read, LbControl
  <2> QED BY <2>1, <2>2
<1>8. CASE Lb!GetKey(t)
  <2>1. /\ puts' = puts /\ call' = call /\ call[t].op = "get"
        /\ cur'[t] \in {cur[t], Lb!NoVal}
    BY <1>8 DEF Lb!GetKey, Lb!ScanKey, Lb!Read, LbControl
  <2> QED BY <2>1
<1>9. CASE Lb!Exists(t) /\ UNCHANGED <<call, cur>>
  <2>1. puts' = puts /\ pc[t] = "exists"
    BY <1>9 DEF Lb!Exists, Lb!ScanExists
  <2> QED BY <1>9, <2>1
<1>10. CASE Lb!PutLocked(t) \/ Lb!WriteKey(t) \/ Lb!LinkKey(t)
              \/ Lb!LinkVal(t)
  BY <1>3, <1>4, <1>10
  DEF Lb!PutLocked, Lb!CanLock, Lb!WriteKey, Lb!LinkKey, Lb!LinkVal,
      Lb!Finish, LbControl, LbWriting
<1> QED
  BY <1>3, <1>5, <1>6, <1>7, <1>8, <1>9, <1>10
  DEF LbStepOf, Lb!Work, Lb!GetVal, Lb!ScanVal, Lb!GetAgain, Lb!ScanAgain,
      Lb!Exists, Lb!ScanExists, Lb!ExistsDone, Lb!RemoveLocked, Lb!Finish

-----------------------------------------------------------------------------
LEMMA LbOldValues ==
  ASSUME LbState, NEW t \in Threads, LbStepOf(t), NEW i \in DOMAIN cells'
  PROVE  \/ cells'[i].val \in LbJunk
         \/ i \in DOMAIN cells /\ cells'[i].val = cells[i].val
         \/ /\ cells'[i].val = call[t].val
            /\ LbUnstored(t) /\ ~LbUnstored(t)'
<1>1. LbEffect(t) /\ LbSharedType /\ LbControl(t)
  BY LbStepFacts
<1>2. /\ Len(cells) \in Nat /\ DOMAIN cells = 1 .. Len(cells)
  BY <1>1, LbEntryFacts
<1>3. CASE LbKeeps(t)
  BY <1>3 DEF LbKeeps
<1>4. CASE LbFills(t)
  <2>1. LbUnstored(t) /\ ~LbUnstored(t)'
    BY <1>4 DEF LbFills, LbFreeFor, LbUnstored, Lb!At
  <2> QED BY <1>4, <2>1 DEF LbFills, LbValTo
<1>5. CASE LbLinks(t)
  BY <1>5 DEF LbLinks, LbLonger
<1>6. CASE LbEnters(t) \/ LbNames(t) \/ LbTakes(t)
  BY <1>6 DEF LbEnters, LbNames, LbTakes, LbKeyTo
<1>7. CASE LbWrites(t)
  <2>1. LbUnstored(t) /\ ~LbUnstored(t)'
    BY <1>1, <1>7 DEF LbWrites, LbControl, LbWriting, LbUnstored, Lb!At
  <2> QED BY <1>7, <2>1 DEF LbWrites, LbValTo
<1> QED BY <1>1, <1>3, <1>4, <1>5, <1>6, <1>7 DEF LbEffect

LEMMA LbValuesStep ==
  ASSUME LbState, NEW t \in Threads, LbStepOf(t)
  PROVE  LbValuesOk' /\ \A u \in Threads : LbFreshOk(u)'
<1>1. /\ LbLocalType /\ LbSharedType /\ LbOthersSame(t) /\ LbValuesOk
      /\ LbLocalType' /\ LbSharedType'
      /\ \A u \in Threads : LbFreshOk(u) /\ LbControl(u)
  BY LbStepFacts, LbStateParts
<1>2. /\ puts \in Nat /\ puts' \in Nat
  BY <1>1, LbValueFacts DEF LbSharedType
<1>3. /\ Lb!NoVal = 0 /\ Lb!NoVal \notin Lb!Vals /\ Garbage \notin Lb!Vals
      /\ Lb!Vals \subseteq Nat
  BY LbValueFacts
<1>4. \A u \in Threads :
        /\ call[u].val \in Nat /\ call'[u].val \in Nat
        /\ call[u].val \in Lb!Vals \cup {Lb!NoVal}
        /\ call'[u].val \in Lb!Vals \cup {Lb!NoVal}
        /\ LbUnstored(u) => call[u].val \in Lb!Vals
        /\ LbUnstored(u)' => call'[u].val \in Lb!Vals
  <2>1. \A u \in Threads : call[u] \in Lb!Calls /\ call'[u] \in Lb!Calls
    BY <1>1 DEF LbLocalType
  <2>2. \A u \in Threads :
          /\ call[u].val \in Lb!Vals \cup {Lb!NoVal}
          /\ call'[u].val \in Lb!Vals \cup {Lb!NoVal}
          /\ call[u].op = "put" => call[u].val \in Lb!Vals
          /\ call'[u].op = "put" => call'[u].val \in Lb!Vals
    BY <2>1, LbCallTypes
  <2>3. \A v \in Lb!Vals \cup {Lb!NoVal} : v \in Nat
    BY <1>3
  <2> QED BY <2>2, <2>3 DEF LbUnstored
<1>5. \A i \in DOMAIN cells' :
        \/ cells'[i].val \in LbJunk
        \/ i \in DOMAIN cells /\ cells'[i].val = cells[i].val
        \/ /\ cells'[i].val = call[t].val
           /\ LbUnstored(t) /\ ~LbUnstored(t)'
  BY LbOldValues
<1>6. \A v \in LbJunk : v \notin Lb!Vals
  BY <1>3 DEF LbJunk
<1>7. /\ \A i \in DOMAIN cells :
           cells[i].val \in Lb!Vals => cells[i].val <= puts
      /\ \A u \in Threads :
           (cur[u] \in Lb!Vals => cur[u] <= puts) /\ call[u].val <= puts
  BY <1>1 DEF LbValuesOk
<1>8. CASE /\ Lb!Put(t) /\ puts' = puts + 1 /\ call'[t].val = puts + 1
           /\ cur'[t] = cur[t] /\ UNCHANGED cells
  <2>1. LbValuesOk'
    <3>1. \A i \in DOMAIN cells' :
            cells'[i].val \in Lb!Vals => cells'[i].val <= puts'
      <4>1. \A v \in Lb!Vals : v <= puts => v <= puts + 1
        BY <1>2, <1>3
      <4> QED BY <1>7, <1>8, <4>1
    <3>2. \A u \in Threads : call'[u].val <= puts'
      BY <1>1, <1>2, <1>4, <1>7, <1>8 DEF LbOthersSame
    <3>3. \A u \in Threads : cur'[u] = cur[u]
      BY <1>1, <1>8 DEF LbOthersSame
    <3>4. \A u \in Threads : cur'[u] \in Lb!Vals => cur'[u] <= puts'
      <4>1. \A v \in Lb!Vals : v <= puts => v <= puts + 1
        BY <1>2, <1>3
      <4> QED BY <1>7, <1>8, <3>3, <4>1
    <3> QED BY <3>1, <3>2, <3>4 DEF LbValuesOk
  <2>2. \A i \in DOMAIN cells :
          cells[i].val # puts + 1 \/ puts + 1 \notin Lb!Vals
    BY <1>2, <1>3, <1>7
  <2>3. \A u \in Threads : cur[u] # puts + 1 \/ puts + 1 \notin Lb!Vals
    BY <1>2, <1>3, <1>7
  <2>4. \A u \in Threads : call[u].val # puts + 1
    BY <1>2, <1>4, <1>7
  <2>5. LbFreshOk(t)'
    <3>1. SUFFICES ASSUME LbUnstored(t)'
                   PROVE  /\ \A i \in DOMAIN cells : cells[i].val # puts + 1
                          /\ \A u \in Threads : cur'[u] # puts + 1
                          /\ \A u \in Threads \ {t} : call'[u].val # puts + 1
      BY <1>8 DEF LbFreshOk
    <3>2. puts + 1 \in Lb!Vals
      BY <1>4, <1>8, <3>1
    <3> QED BY <1>1, <1>8, <2>2, <2>3, <2>4, <3>2 DEF LbOthersSame
  <2>6. ASSUME NEW u \in Threads \ {t} PROVE LbFreshOk(u)'
    <3>1. /\ call'[u] = call[u] /\ (LbUnstored(u)' => LbUnstored(u))
          /\ \A w \in Threads : cur'[w] = cur[w]
      BY <1>1, <1>8 DEF LbOthersSame, LbUnstored
    <3>2. /\ \A w \in Threads \ {t} : call'[w] = call[w]
          /\ call'[t].val # call[u].val
      BY <1>1, <1>8, <2>4 DEF LbOthersSame
    <3> QED BY <1>1, <1>8, <3>1, <3>2 DEF LbFreshOk
  <2> QED BY <2>1, <2>5, <2>6
<1>9. CASE /\ puts' = puts /\ call'[t].val \in {call[t].val, Lb!NoVal}
           /\ cur'[t] \in {cur[t], Lb!NoVal}
                            \cup {cells[i].val : i \in DOMAIN cells}
           /\ LbUnstored(t)' => LbUnstored(t) /\ call'[t].val = call[t].val
  <2>1. \A u \in Threads \ {t} :
          call'[u] = call[u] /\ cur'[u] = cur[u] /\ pc'[u] = pc[u]
    BY <1>1 DEF LbOthersSame
  <2>2. LbValuesOk'
    <3>1. \A i \in DOMAIN cells' :
            cells'[i].val \in Lb!Vals => cells'[i].val <= puts'
      BY <1>5, <1>6, <1>7, <1>9
    <3>2. \A u \in Threads : call'[u].val <= puts'
      BY <1>2, <1>3, <1>7, <1>9, <2>1
    <3>3. \A u \in Threads : cur'[u] \in Lb!Vals => cur'[u] <= puts'
      BY <1>3, <1>7, <1>9, <2>1
    <3> QED BY <3>1, <3>2, <3>3 DEF LbValuesOk
  <2>3. ASSUME NEW u \in Threads, LbUnstored(u)'
        PROVE  /\ \A i \in DOMAIN cells' : cells'[i].val # call'[u].val
               /\ \A w \in Threads : cur'[w] # call'[u].val
               /\ \A w \in Threads \ {u} : call'[w].val # call'[u].val
    <3>1. LbUnstored(u) /\ call'[u].val = call[u].val
      BY <1>9, <2>1, <2>3 DEF LbUnstored
    <3>2. /\ \A i \in DOMAIN cells : cells[i].val # call[u].val
          /\ \A w \in Threads : cur[w] # call[u].val
          /\ \A w \in Threads \ {u} : call[w].val # call[u].val
          /\ call[u].val \in Lb!Vals
      BY <1>1, <1>4, <3>1 DEF LbFreshOk
    <3>3. \A i \in DOMAIN cells' : cells'[i].val # call[u].val
      BY <1>5, <1>6, <2>3, <3>2
    <3>4. \A w \in Threads : cur'[w] # call[u].val
      BY <1>3, <1>9, <2>1, <3>2
    <3>5. \A w \in Threads \ {u} : call'[w].val # call[u].val
      BY <1>3, <1>9, <2>1, <3>2
    <3> QED BY <3>1, <3>3, <3>4, <3>5
  <2>4. \A u \in Threads : LbFreshOk(u)'
    BY <2>3 DEF LbFreshOk
  <2> QED BY <2>2, <2>4
<1> QED BY <1>8, <1>9, LbCallStep

-----------------------------------------------------------------------------
(* The map that the entries stand for.                                     *)
LbStoreFacts ==
  \A k \in Keys :
    /\ \A i \in DOMAIN cells : cells[i].key = k =>
         Lb!Store[k] = IF i \in Lb!Unwritten THEN Lb!NoVal ELSE cells[i].val
    /\ (\A i \in DOMAIN cells : cells[i].key # k) => Lb!Store[k] = Lb!NoVal

LEMMA LbStoreIs == LbSharedType /\ LbKeysOk => LbStoreFacts
<1> SUFFICES ASSUME LbSharedType, LbKeysOk, NEW k \in Keys
             PROVE  /\ \A i \in DOMAIN cells : cells[i].key = k =>
                         Lb!Store[k] = IF i \in Lb!Unwritten THEN Lb!NoVal
                                       ELSE cells[i].val
                    /\ (\A i \in DOMAIN cells : cells[i].key # k)
                         => Lb!Store[k] = Lb!NoVal
  BY DEF LbStoreFacts
<1>1. Lb!Store[k] = IF Lb!Having(k) \cap Lb!Unwritten # {} THEN Lb!NoVal
                    ELSE Lb!Lookup(k)
  BY DEF Lb!Store
<1>2. ASSUME NEW i \in DOMAIN cells, cells[i].key = k
      PROVE  Lb!Lookup(k) = cells[i].val /\ Lb!Having(k) = {i}
  <2>1. Lb!Having(k) = {i}
    BY <1>2 DEF Lb!Having, LbKeysOk
  <2>2. i \in Nat
    BY LbCellType
  <2>3. Lb!Min({i}) = i
    BY <2>2 DEF Lb!Min
  <2> QED BY <2>1, <2>3 DEF Lb!Lookup
<1>3. (\A i \in DOMAIN cells : cells[i].key # k)
        => Lb!Lookup(k) = Lb!NoVal /\ Lb!Having(k) = {}
  BY DEF Lb!Lookup, Lb!Having
<1> QED BY <1>1, <1>2, <1>3

LbTyped == LbSharedType /\ LbKeysOk
LEMMA LbStateTyped == LbState => LbTyped
BY LbStateParts DEF LbTyped

LEMMA LbNextFacts ==
  LbState' => LbStoreFacts' /\ LbTyped'
<1>1. LbTyped => LbStoreFacts
  BY LbStoreIs DEF LbTyped
<1> QED BY <1>1, LbStateTyped, PTL

LEMMA LbStoreSame ==
  ASSUME LbStoreFacts, LbStoreFacts', NEW k \in Keys,
         \A i \in DOMAIN cells : cells[i].key = k =>
           /\ i \in DOMAIN cells' /\ cells'[i].key = k
           /\ (i \in Lb!Unwritten') = (i \in Lb!Unwritten)
           /\ i \notin Lb!Unwritten => cells'[i].val = cells[i].val,
         \A i \in DOMAIN cells' : cells'[i].key = k =>
           i \in DOMAIN cells /\ cells[i].key = k
  PROVE  Lb!Store'[k] = Lb!Store[k]
<1>1. CASE \E i \in DOMAIN cells : cells[i].key = k
  <2>1. PICK i \in DOMAIN cells : cells[i].key = k
    BY <1>1
  <2>2. /\ i \in DOMAIN cells' /\ cells'[i].key = k
        /\ (i \in Lb!Unwritten') = (i \in Lb!Unwritten)
        /\ i \notin Lb!Unwritten => cells'[i].val = cells[i].val
    BY <2>1
  <2>3. Lb!Store[k] = IF i \in Lb!Unwritten THEN Lb!NoVal ELSE cells[i].val
    BY <2>1 DEF LbStoreFacts
  <2>4. Lb!Store'[k] = IF i \in Lb!Unwritten' THEN Lb!NoVal
                       ELSE cells'[i].val
    BY <2>2 DEF LbStoreFacts
  <2> QED BY <2>2, <2>3, <2>4
<1>2. CASE \A i \in DOMAIN cells : cells[i].key # k
  <2>1. \A i \in DOMAIN cells' : cells'[i].key # k
    BY <1>2
  <2> QED BY <1>2, <2>1 DEF LbStoreFacts
<1> QED BY <1>1, <1>2

LEMMA LbStoreStep ==
  ASSUME LbState, LbState', NEW t \in Threads, LbStepOf(t)
  PROVE  /\ LbEnters(t) \/ LbWrites(t) =>
              /\ Lb!Store[call[t].key] = Lb!NoVal
              /\ Lb!Store' = [Lb!Store EXCEPT ![call[t].key] = call[t].val]
         /\ LbTakes(t) =>
              /\ Lb!Store[call[t].key] \in Lb!Vals
              /\ Lb!Return(t, Lb!Store[call[t].key])
              /\ Lb!Store' = [Lb!Store EXCEPT ![call[t].key] = Lb!NoVal]
         /\ LbKeeps(t) \/ LbFills(t) \/ LbLinks(t) \/ LbNames(t)
              => Lb!Store' = Lb!Store
<1>1. /\ LbLocalType /\ LbSharedType /\ LbKeysOk /\ LbStoreFacts
      /\ LbEffect(t) /\ LbControl(t) /\ LbEntryOk(t)
  BY LbStepFacts, LbStoreIs
<1>2. /\ Len(cells) \in Nat /\ DOMAIN cells = 1 .. Len(cells)
      /\ Entries \in Nat \ {0} /\ NoKey \notin Keys
      /\ DOMAIN cells \subseteq DOMAIN cells'
  BY <1>1, LbEntryFacts
<1>3. LbStoreFacts' /\ LbKeysOk'
  BY LbNextFacts DEF LbTyped
<1>4. /\ Lb!Store = [k \in Keys |-> Lb!Store[k]]
      /\ Lb!Store' = [k \in Keys |-> Lb!Store'[k]]
  BY DEF Lb!Store
<1>5. ~Lb!At(t, "idle") => call[t].key \in Keys
  BY <1>1, LbCallOf
<1>6. LbEnters(t) =>
        /\ Lb!Store[call[t].key] = Lb!NoVal
        /\ Lb!Store' = [Lb!Store EXCEPT ![call[t].key] = call[t].val]
  <2> SUFFICES ASSUME LbEnters(t)
               PROVE  /\ Lb!Store[call[t].key] = Lb!NoVal
                      /\ Lb!Store' =
                           [Lb!Store EXCEPT ![call[t].key] = call[t].val]
    OBVIOUS
  <2>1. /\ call[t].key \in Keys /\ idx[t] \in DOMAIN cells
        /\ LbKeyTo(idx[t], call[t].key)
        /\ cells[idx[t]].key = NoKey /\ cells[idx[t]].val = call[t].val
        /\ \A i \in DOMAIN cells : cells[i].key # call[t].key
    BY <1>1, <1>5 DEF LbEnters, LbEntryOk, LbControl, LbWriting, Lb!At
  <2>2. Lb!Unwritten = {} /\ Lb!Unwritten' = {}
    BY LbUnwrittenStep
  <2>3. Lb!Store[call[t].key] = Lb!NoVal
    BY <1>1, <2>1 DEF LbStoreFacts
  <2>4. Lb!Store'[call[t].key] = call[t].val
    <3>1. /\ idx[t] \in DOMAIN cells' /\ cells'[idx[t]].key = call[t].key
          /\ cells'[idx[t]].val = call[t].val
      BY <2>1 DEF LbKeyTo
    <3> QED BY <1>3, <2>1, <2>2, <3>1 DEF LbStoreFacts
  <2>5. ASSUME NEW k \in Keys \ {call[t].key}
        PROVE  Lb!Store'[k] = Lb!Store[k]
    <3>1. /\ DOMAIN cells' = DOMAIN cells
          /\ \A i \in DOMAIN cells : (cells'[i].key = k <=> cells[i].key = k)
                                     /\ cells'[i].val = cells[i].val
      BY <1>2, <2>1 DEF LbKeyTo
    <3> QED BY <1>1, <1>3, <2>2, <3>1, LbStoreSame
  <2> QED BY <1>4, <2>1, <2>3, <2>4, <2>5
<1>7. LbWrites(t) =>
        /\ Lb!Store[call[t].key] = Lb!NoVal
        /\ Lb!Store' = [Lb!Store EXCEPT ![call[t].key] = call[t].val]
  <2> SUFFICES ASSUME LbWrites(t)
               PROVE  /\ Lb!Store[call[t].key] = Lb!NoVal
                      /\ Lb!Store' =
                           [Lb!Store EXCEPT ![call[t].key] = call[t].val]
    OBVIOUS
  <2>1. /\ call[t].key \in Keys /\ idx[t] \in DOMAIN cells
        /\ LbValTo(idx[t], call[t].val)
        /\ cells[idx[t]].key = call[t].key
    BY <1>1, <1>5 DEF LbWrites, LbEntryOk, LbControl, LbWriting, Lb!At
  <2>2. Lb!Unwritten = {idx[t]} /\ Lb!Unwritten' = {}
    BY LbUnwrittenStep
  <2>3. Lb!Store[call[t].key] = Lb!NoVal
    BY <1>1, <2>1, <2>2 DEF LbStoreFacts
  <2>4. Lb!Store'[call[t].key] = call[t].val
    <3>1. /\ idx[t] \in DOMAIN cells' /\ cells'[idx[t]].key = call[t].key
          /\ cells'[idx[t]].val = call[t].val
      BY <2>1 DEF LbValTo
    <3> QED BY <1>3, <2>1, <2>2, <3>1 DEF LbStoreFacts
  <2>5. ASSUME NEW k \in Keys \ {call[t].key}
        PROVE  Lb!Store'[k] = Lb!Store[k]
    <3>1. /\ DOMAIN cells' = DOMAIN cells
          /\ \A i \in DOMAIN cells :
               /\ cells'[i].key = cells[i].key
               /\ i # idx[t] => cells'[i].val = cells[i].val
      BY <2>1 DEF LbValTo
    <3>2. \A i \in DOMAIN cells : cells[i].key = k => i # idx[t]
      BY <2>1
    <3> QED BY <1>1, <1>3, <2>2, <3>1, <3>2, LbStoreSame
  <2> QED BY <1>4, <2>1, <2>3, <2>4, <2>5
<1>8. LbTakes(t) =>
        /\ Lb!Store[call[t].key] \in Lb!Vals
        /\ Lb!Return(t, Lb!Store[call[t].key])
        /\ Lb!Store' = [Lb!Store EXCEPT ![call[t].key] = Lb!NoVal]
  <2> SUFFICES ASSUME LbTakes(t)
               PROVE  /\ Lb!Store[call[t].key] \in Lb!Vals
                      /\ Lb!Return(t, Lb!Store[call[t].key])
                      /\ Lb!Store' =
                           [Lb!Store EXCEPT ![call[t].key] = Lb!NoVal]
    OBVIOUS
  <2>1. PICK i \in DOMAIN cells :
          /\ cells[i].key = call[t].key
          /\ LbKeyTo(i, NoKey) /\ Lb!Return(t, cells[i].val)
    BY DEF LbTakes
  <2>2. Lb!Unwritten = {} /\ Lb!Unwritten' = {}
    BY LbUnwrittenStep
  <2>3. call[t].key \in Keys
    BY <1>5 DEF LbTakes, Lb!At
  <2>4. Lb!Store[call[t].key] = cells[i].val /\ cells[i].val \in Lb!Vals
    BY <1>1, <2>1, <2>2, <2>3 DEF LbStoreFacts, LbKeysOk
  <2>5. Lb!Store'[call[t].key] = Lb!NoVal
    <3>1. \A j \in DOMAIN cells' : cells'[j].key # call[t].key
      BY <1>1, <1>2, <2>1, <2>3 DEF LbKeyTo, LbKeysOk
    <3> QED BY <1>3, <2>3, <3>1 DEF LbStoreFacts
  <2>6. ASSUME NEW k \in Keys \ {call[t].key}
        PROVE  Lb!Store'[k] = Lb!Store[k]
    <3>1. /\ DOMAIN cells' = DOMAIN cells
          /\ \A j \in DOMAIN cells : (cells'[j].key = k <=> cells[j].key = k)
                                     /\ cells'[j].val = cells[j].val
      BY <1>2, <2>1 DEF LbKeyTo
    <3> QED BY <1>1, <1>3, <2>2, <3>1, LbStoreSame
  <2> QED BY <1>4, <2>1, <2>3, <2>4, <2>5, <2>6
<1>9. ASSUME LbKeeps(t) \/ LbFills(t) \/ LbLinks(t), NEW k \in Keys
      PROVE  Lb!Store'[k] = Lb!Store[k]
  <2>1. Lb!Unwritten' = Lb!Unwritten
    BY <1>9, LbUnwrittenStep
  <2>2. /\ \A i \in DOMAIN cells : cells[i].key = k =>
             /\ i \in DOMAIN cells' /\ cells'[i].key = k
             /\ cells'[i].val = cells[i].val
        /\ \A i \in DOMAIN cells' : cells'[i].key = k =>
             i \in DOMAIN cells /\ cells[i].key = k
    BY <1>2, <1>9
    DEF LbKeeps, LbFills, LbLinks, LbValTo, LbLonger
  <2> QED BY <1>1, <1>3, <2>1, <2>2, LbStoreSame
<1>10. ASSUME LbNames(t), NEW k \in Keys
       PROVE  Lb!Store'[k] = Lb!Store[k]
  <2>1. Lb!Unwritten = {} /\ Lb!Unwritten' = {idx[t]}
    BY <1>10, LbUnwrittenStep
  <2>2. /\ LbKeyTo(idx[t], call[t].key) /\ idx[t] \in DOMAIN cells
        /\ cells[idx[t]].key = NoKey
        /\ \A i \in DOMAIN cells : cells[i].key # call[t].key
    BY <1>1, <1>10 DEF LbNames, LbControl, LbEntryOk, LbWriting, Lb!At
  <2>3. CASE k = call[t].key
    <3>1. Lb!Store[k] = Lb!NoVal
      BY <1>1, <2>2, <2>3 DEF LbStoreFacts
    <3>2. idx[t] \in DOMAIN cells' /\ cells'[idx[t]].key = k
      BY <2>2, <2>3 DEF LbKeyTo
    <3> QED BY <1>3, <2>1, <3>1, <3>2 DEF LbStoreFacts
  <2>4. CASE k # call[t].key
    <3>1. /\ DOMAIN cells' = DOMAIN cells
          /\ \A i \in DOMAIN cells :
               /\ cells'[i].key = k <=> cells[i].key = k
               /\ cells'[i].val = cells[i].val
      BY <1>2, <2>2, <2>4 DEF LbKeyTo
    <3>2. \A i \in DOMAIN cells : cells[i].key = k => i # idx[t]
      BY <1>2, <2>2
    <3> QED BY <1>1, <1>3, <2>1, <3>1, <3>2, LbStoreSame
  <2> QED BY <2>3, <2>4
<1>11. LbKeeps(t) \/ LbFills(t) \/ LbLinks(t) \/ LbNames(t)
         => Lb!Store' = Lb!Store
  BY <1>4, <1>9, <1>10
<1> QED BY <1>6, <1>7, <1>8, <1>11

-----------------------------------------------------------------------------
(* The inductive invariant.                                                *)

LEMMA LbInitState == Lb!Init => LbState
<1> SUFFICES ASSUME Lb!Init PROVE LbState
  OBVIOUS
<1>1. /\ Entries \in Nat \ {0} /\ MaxPuts \in Nat \ {0}
      /\ NoKey \notin Keys /\ 0 \in LbVals /\ Lb!NoVal = 0
      /\ 0 \notin Lb!Vals
  BY CallsAssumption, LbValueFacts DEF LbVals
<1>2. cells = [i \in 1 .. Entries |-> Lb!Unused]
  BY DEF Lb!Init, Lb!CallsInit
<1>3. /\ Lb!Unused \in [key : LbKeys, val : LbVals]
      /\ Lb!Unused.key = NoKey /\ Lb!Unused.val = 0
  BY <1>1 DEF Lb!Unused, LbKeys
<1> HIDE DEF Lb!Unused
<1>4. cells \in Seq([key : LbKeys, val : LbVals]) /\ Len(cells) = Entries
      /\ DOMAIN cells = 1 .. Entries
  BY <1>1, <1>2, <1>3
<1>5. \A i \in DOMAIN cells : cells[i].key = NoKey /\ cells[i].val = 0
  BY <1>2, <1>3, <1>4
<1>6. LbLocalType /\ LbSharedType /\ LbSeenType
  BY <1>1, <1>4, LbCallTypes
  DEF Lb!Init, Lb!CallsInit, LbLocalType, LbSharedType, LbSeenType,
      Lb!Labels
<1>7. \A t \in Threads : pc[t] = "idle" /\ call[t] = Lb!Idle /\ idx[t] = 1
                         /\ cur[t] = 0
  BY <1>1 DEF Lb!Init, Lb!CallsInit
<1>8. puts = 0 /\ Lb!Idle.val = 0
  BY LbCallTypes, <1>1 DEF Lb!Init, Lb!CallsInit
<1>9. LbKeysOk /\ LbValuesOk
  BY <1>1, <1>5, <1>7, <1>8 DEF LbKeysOk, LbValuesOk
<1>10. \A t \in Threads : LbControl(t) /\ LbEntryOk(t) /\ LbFreshOk(t)
  BY <1>7
  DEF LbControl, LbEntryOk, LbFreshOk, Lb!At, LbWriting, LbUnstored
<1> QED
  BY <1>6, <1>9, <1>10, LbTypeParts DEF LbState

LbStored == \A k \in Keys : Lb!Store[k] \in Lb!Vals \cup {Lb!NoVal}
LEMMA LbStoreType ==
  LbSharedType /\ LbKeysOk => LbStored
<1> SUFFICES ASSUME LbSharedType, LbKeysOk PROVE LbStored
  OBVIOUS
<1>1. LbStoreFacts
  BY LbStoreIs
<1> QED BY <1>1 DEF LbStored, LbStoreFacts, LbKeysOk

LEMMA LbStepState ==
  ASSUME LbState, NEW t \in Threads, LbStepOf(t),
         Lb!Observe(Lb!Store', call')
  PROVE  LbState'
<1>1. /\ LbLocalType' /\ LbSharedType' /\ LbKeysOk' /\ LbValuesOk'
      /\ \A u \in Threads : LbFreshOk(u)'
      /\ LbSeenType
  BY LbStepFacts, LbStateParts, LbKeysStep, LbValuesStep
<1>2. \A u \in Threads : LbControl(u)' /\ LbEntryOk(u)'
  BY LbStepFacts, LbActorEntry, LbOtherEntries
<1>3. LbStored'
  BY <1>1, LbStoreType, PTL
<1>4. LbSeenType'
  <2> SUFFICES ASSUME NEW u \in Threads, call'[u] # Lb!Idle
               PROVE  seen[u] \cup {Lb!Store'[call'[u].key]}
                        \in SUBSET (Lb!Vals \cup {Lb!NoVal})
    BY DEF LbSeenType, Lb!Observe
  <2>1. call'[u] \in Lb!Calls
    BY <1>1 DEF LbLocalType
  <2> QED BY <1>1, <1>3, <2>1, LbCallTypes DEF LbSeenType, LbStored
<1>5. Lb!TypeOK'
  BY <1>1, <1>4, LbTypeParts, PTL
<1> QED BY <1>1, <1>2, <1>5 DEF LbState

-----------------------------------------------------------------------------
(* What the calls of the other threads see of a step.                      *)

LEMMA LbOtherCall ==
  ASSUME LbState, LbCalls, LbState', NEW t \in Threads,
         NEW u \in Threads \ {t},
         LbStepOf(t), Lb!Observe(Lb!Store', call')
  PROVE  LbCallOk(u)'
<1>1. /\ LbLocalType /\ LbSharedType /\ LbEffect(t) /\ LbOthersSame(t)
      /\ LbKeysOk /\ LbControl(t) /\ LbEntryOk(t) /\ LbFreshOk(t)
      /\ LbControl(u) /\ LbCallOk(u) /\ LbStoreFacts
  BY LbStepFacts, LbStateParts, LbStoreIs DEF LbCalls
<1>2. /\ pc'[u] = pc[u] /\ call'[u] = call[u] /\ idx'[u] = idx[u]
      /\ cur'[u] = cur[u]
  BY <1>1 DEF LbOthersSame
<1>3. /\ Len(cells) \in Nat /\ DOMAIN cells = 1 .. Len(cells)
      /\ Entries \in Nat \ {0} /\ NoKey \notin Keys
      /\ DOMAIN cells \subseteq DOMAIN cells'
  BY <1>1, LbEntryFacts
<1>4. /\ ~Lb!At(t, "idle") => call[t].key \in Keys
      /\ ~Lb!At(u, "idle") => call[u].key \in Keys /\ call[u] # Lb!Idle
  BY <1>1, LbCallOf
<1>5. seen'[u] = IF call[u] = Lb!Idle THEN {}
                 ELSE seen[u] \cup {Lb!Store'[call[u].key]}
  BY <1>2 DEF Lb!Observe
<1>6. CASE Lb!At(u, "idle")
  <2>1. call[u] = Lb!Idle
    BY <1>1, <1>6 DEF LbControl
  <2> QED BY <1>2, <1>5, <1>6, <2>1 DEF LbCallOk, LbLooks, Lb!At
<1>7. CASE ~Lb!At(u, "idle")
  <2> DEFINE k == call[u].key
  <2>1. call[u] # Lb!Idle /\ k \in Keys
    BY <1>4, <1>7
  <2>2. Lb!Store[k] \in seen[u] /\ seen[u] \subseteq seen'[u]
          /\ Lb!Store'[k] \in seen'[u]
    BY <1>1, <1>5, <2>1 DEF LbCallOk
  <2>3. ASSUME NEW i \in DOMAIN cells, cells[i].key = k, cells'[i].key # k
        PROVE  Lb!NoVal \in seen'[u]
    <3>1. LbTakes(t) /\ call[t].key = k
      BY <1>1, <1>3, <2>1, <2>3
      DEF LbEffect, LbKeeps, LbFills, LbLinks, LbEnters, LbNames, LbWrites,
          LbTakes, LbKeyTo, LbValTo, LbLonger, LbEntryOk, Lb!At
    <3>2. Lb!Store' = [Lb!Store EXCEPT ![k] = Lb!NoVal]
      BY <3>1, LbStoreStep
    <3>3. Lb!Store'[k] = Lb!NoVal
      BY <2>1, <3>2 DEF Lb!Store
    <3> QED BY <2>2, <3>3
  <2>4. ASSUME NEW i \in DOMAIN cells, cells[i].key # k, cells'[i].key = k
        PROVE  Lb!NoVal \in seen[u]
    <3>1. /\ LbEnters(t) \/ LbNames(t)
          /\ call[t].key = k
      BY <1>1, <1>3, <2>1, <2>4
      DEF LbEffect, LbKeeps, LbFills, LbLinks, LbEnters, LbNames, LbWrites,
          LbTakes, LbKeyTo, LbValTo, LbLonger
    <3>2. \A j \in DOMAIN cells : cells[j].key # k
      BY <1>1, <3>1 DEF LbEnters, LbNames, LbEntryOk, Lb!At
    <3>3. Lb!Store[k] = Lb!NoVal
      BY <1>1, <2>1, <3>2 DEF LbStoreFacts
    <3> QED BY <2>2, <3>3
  <2>5. ASSUME NEW i \in DOMAIN cells,
               \/ cells'[i].val # cells[i].val
               \/ i \in Lb!Unwritten /\ i \notin Lb!Unwritten'
        PROVE  /\ cells'[i].val # cur[u]
               /\ cells'[i].key = cells[i].key
               /\ cells[i].key = k => Lb!NoVal \in seen[u]
    <3>1. /\ call[t].val # cur[u]
          /\ \/ LbFills(t) /\ i = idx'[t]
             \/ LbWrites(t) /\ i = idx[t]
      <4>1. ASSUME i \in Lb!Unwritten, i \notin Lb!Unwritten'
            PROVE  LbWrites(t) /\ i = idx[t]
        BY <1>1, <4>1, LbUnwrittenStep DEF LbEffect
      <4>2. ASSUME cells'[i].val # cells[i].val
            PROVE  \/ LbFills(t) /\ i = idx'[t]
                   \/ LbWrites(t) /\ i = idx[t]
        BY <1>1, <1>3, <4>2
        DEF LbEffect, LbKeeps, LbFills, LbLinks, LbEnters, LbNames, LbWrites,
            LbTakes, LbKeyTo, LbValTo, LbLonger
      <4>3. LbFills(t) \/ LbWrites(t) => LbUnstored(t)
        BY <1>1
        DEF LbFills, LbFreeFor, LbWrites, LbControl, LbWriting, LbUnstored,
            Lb!At
      <4> QED BY <1>1, <2>5, <4>1, <4>2, <4>3 DEF LbFreshOk
    <3>2. CASE LbFills(t) /\ i = idx'[t]
      <4>1. cells[i].key = NoKey /\ LbValTo(i, call[t].val)
        BY <3>2 DEF LbFills
      <4> QED BY <1>3, <2>1, <3>1, <4>1 DEF LbValTo
    <3>3. CASE LbWrites(t) /\ i = idx[t]
      <4>1. cells[i].key = call[t].key /\ LbValTo(i, call[t].val)
        BY <1>1, <3>3 DEF LbWrites, LbEntryOk, Lb!At
      <4>2. Lb!Store[call[t].key] = Lb!NoVal
        BY <3>3, LbStoreStep
      <4> QED BY <2>2, <3>1, <4>1, <4>2 DEF LbValTo
    <3> QED BY <3>1, <3>2, <3>3
  <2>6. LbLooks(u)' =>
          Lb!NoVal \in seen'[u] \/ \E j \in DOMAIN cells' :
                                     j >= idx[u] /\ cells'[j].key = k
    BY <1>1, <1>2, <1>3, <2>2, <2>3
    DEF LbCallOk, LbSeenAbsent, LbLooks, Lb!At
  <2>7. Lb!At(u, "get_key") =>
          \/ cells'[idx[u]].val = cur[u]
          \/ cells'[idx[u]].key = k => Lb!NoVal \in seen'[u]
    BY <1>1, <2>2, <2>4, <2>5 DEF LbCallOk, LbSeenAbsent, LbControl, Lb!At
  <2>8. ASSUME Lb!At(u, "get_again")
        PROVE  /\ IF cells'[idx[u]].val = cur[u]
                  THEN cur[u] \in seen'[u] \/ idx[u] \in Lb!Unwritten'
                  ELSE Lb!NoVal \in seen'[u]
               /\ cells'[idx[u]].key = k \/ Lb!NoVal \in seen'[u]
    <3>1. /\ idx[u] \in DOMAIN cells
          /\ IF cells[idx[u]].val = cur[u]
             THEN cur[u] \in seen[u] \/ idx[u] \in Lb!Unwritten
             ELSE Lb!NoVal \in seen[u]
          /\ cells[idx[u]].key = k \/ Lb!NoVal \in seen[u]
      BY <1>1, <2>8 DEF LbCallOk, LbSeenAbsent, LbControl, Lb!At
    <3>2. cells'[idx[u]].key = k \/ Lb!NoVal \in seen'[u]
      BY <2>2, <2>3, <3>1
    <3>3. CASE cells'[idx[u]].val = cur[u]
      <4>1. /\ cells'[idx[u]].val = cells[idx[u]].val
            /\ idx[u] \in Lb!Unwritten => idx[u] \in Lb!Unwritten'
        BY <2>5, <3>1, <3>3
      <4> QED BY <2>2, <3>1, <3>2, <3>3, <4>1
    <3>4. CASE cells'[idx[u]].val # cur[u]
      <4>1. Lb!NoVal \in seen[u]
        BY <2>5, <3>1, <3>4
      <4> QED BY <2>2, <3>2, <3>4, <4>1
    <3> QED BY <3>3, <3>4
  <2> QED
    BY <1>2, <2>1, <2>2, <2>6, <2>7, <2>8
    DEF LbCallOk, LbSeenAbsent, Lb!At
<1> QED BY <1>6, <1>7

-----------------------------------------------------------------------------
(* The steps of the map, seen from the thread that takes them.             *)
LbAnswered(t, r) == call'[t] = Lb!Idle /\ ret'[t] = r

LbStays(t) ==
  call'[t] = call[t] /\ ret'[t] = ret[t] /\ Lb!Store' = Lb!Store
LbInvokes(t) ==
  /\ call[t] = Lb!Idle /\ call'[t] \in Lb!Calls \ {Lb!Idle} /\ ret'[t] = 0
  /\ Lb!Store' = Lb!Store
LbInserts(t) ==
  /\ call[t].op = "put" /\ Lb!Store[call[t].key] = Lb!NoVal
  /\ Lb!Store' = [Lb!Store EXCEPT ![call[t].key] = call[t].val]
  /\ LbAnswered(t, 1)
LbDeletes(t) ==
  /\ call[t].op = "remove" /\ Lb!Store[call[t].key] # Lb!NoVal
  /\ Lb!Store' = [Lb!Store EXCEPT ![call[t].key] = Lb!NoVal]
  /\ LbAnswered(t, Lb!Store[call[t].key])
LbAnswers(t) ==
  /\ Lb!Store' = Lb!Store
  /\ \E v \in seen[t] :
       \/ call[t].op = "get" /\ LbAnswered(t, v)
       \/ call[t].op = "put" /\ v # Lb!NoVal /\ LbAnswered(t, 0)
       \/ call[t].op = "remove" /\ v = Lb!NoVal /\ LbAnswered(t, 0)
LbReadsUnwritten(t) ==
  /\ call[t].op \in {"get", "put"} /\ idx[t] \in Lb!Unwritten
  /\ LbAnswered(t, 0) \/ LbAnswered(t, Garbage)
  /\ Lb!Store' = Lb!Store
LbMapStepOf(t) ==
  \/ LbStays(t) \/ LbInvokes(t) \/ LbInserts(t) \/ LbDeletes(t)
  \/ LbAnswers(t) \/ LbReadsUnwritten(t)

LEMMA LbMapStepIs ==
  ASSUME LbState, LbCalls, LbLocalType', NEW t \in Threads, LbMapStepOf(t),
         LbOthersSame(t), Lb!Observe(Lb!Store', call')
  PROVE  [Lb!MapStep]_(Lb!Map!vars)
<1>1. /\ Lb!Map!Idle = Lb!Idle
      /\ Lb!Map!NoVal = Lb!NoVal /\ Lb!Map!Calls = Lb!Calls
  BY DEF Lb!Map!Idle, Lb!Map!NoVal, Lb!Map!Calls, Lb!Idle, Lb!NoVal,
         Lb!Calls
<1>2. /\ call' = [call EXCEPT ![t] = call'[t]]
      /\ ret' = [ret EXCEPT ![t] = ret'[t]]
  BY LbStateParts DEF LbLocalType, LbOthersSame
<1>3. Lb!Map!Observe
  BY <1>1 DEF Lb!Observe, Lb!Map!Observe
<1>4. \A r : LbAnswered(t, r) => Lb!Map!Return(t, r)
  BY <1>1, <1>2 DEF LbAnswered, Lb!Map!Return
<1>5. CASE LbStays(t)
  <2>1. call' = call /\ ret' = ret
    BY <1>2, <1>5, LbStateParts DEF LbStays, LbLocalType
  <2>2. ASSUME NEW u \in Threads PROVE seen'[u] = seen[u]
    <3>1. /\ call[u] # Lb!Idle => Lb!Store[call[u].key] \in seen[u]
          /\ call[u] = Lb!Idle => seen[u] = {}
      BY DEF LbCalls, LbCallOk
    <3>2. seen'[u] = IF call[u] = Lb!Idle THEN {}
                     ELSE seen[u] \cup {Lb!Store[call[u].key]}
      BY <1>5, <2>1 DEF Lb!Observe, LbStays
    <3> QED BY <3>1, <3>2
  <2>3. seen' = seen
    <3>1. seen = [u \in Threads |-> seen[u]]
      BY LbStateParts DEF LbSeenType
    <3>2. seen' = [u \in Threads |-> seen'[u]]
      BY DEF Lb!Observe
    <3> QED BY <2>2, <3>1, <3>2
  <2> QED BY <1>5, <2>1, <2>3 DEF LbStays, Lb!Map!vars
<1>6. CASE LbInvokes(t)
  <2>1. Lb!Map!Invoke(t)
    BY <1>1, <1>2, <1>6 DEF LbInvokes, Lb!Map!Invoke
  <2> QED BY <1>3, <2>1 DEF Lb!Map!Next, Lb!MapStep
<1>7. CASE LbInserts(t)
  <2>1. Lb!Map!Insert(t)
    BY <1>1, <1>4, <1>7 DEF LbInserts, Lb!Map!Insert
  <2> QED BY <1>3, <2>1 DEF Lb!Map!Next, Lb!MapStep
<1>8. CASE LbDeletes(t)
  <2>1. Lb!Map!Delete(t)
    BY <1>1, <1>4, <1>8 DEF LbDeletes, Lb!Map!Delete
  <2> QED BY <1>3, <2>1 DEF Lb!Map!Next, Lb!MapStep
<1>9. CASE LbAnswers(t)
  <2>1. Lb!Map!Answer(t)
    BY <1>1, <1>4, <1>9 DEF LbAnswers, Lb!Map!Answer
  <2> QED BY <1>3, <2>1 DEF Lb!Map!Next, Lb!MapStep
<1>10. CASE LbReadsUnwritten(t)
  <2>1. Lb!ReadsUnwritten(t)
    BY <1>3, <1>4, <1>10 DEF LbReadsUnwritten, Lb!ReadsUnwritten
  <2> QED BY <2>1 DEF Lb!MapStep
<1> QED BY <1>5, <1>6, <1>7, <1>8, <1>9, <1>10 DEF LbMapStepOf

LEMMA LbReturnedCall ==
  ASSUME LbLocalType, NEW t \in Threads, NEW r,
         Lb!Observe(Lb!Store', call'), Lb!Return(t, r)
  PROVE  LbAnswered(t, r) /\ LbCallOk(t)'
<1>1. pc'[t] = "idle" /\ call'[t] = Lb!Idle /\ ret'[t] = r
  BY DEF Lb!Return, Lb!Decide, Lb!Goto, LbLocalType
<1>2. seen'[t] = {}
  BY <1>1 DEF Lb!Observe
<1> QED BY <1>1, <1>2 DEF LbCallOk, LbLooks, LbAnswered, Lb!At

LEMMA LbGoesOn ==
  ASSUME LbState, NEW t \in Threads, Lb!Observe(Lb!Store', call'),
         call'[t] = call[t], ~Lb!At(t, "idle")
  PROVE  /\ call[t] # Lb!Idle /\ call[t].key \in Keys
         /\ seen[t] \subseteq seen'[t] /\ Lb!Store'[call[t].key] \in seen'[t]
<1>1. call[t] # Lb!Idle /\ call[t].key \in Keys
  BY LbStateParts, LbCallOf
<1>2. seen'[t] = seen[t] \cup {Lb!Store'[call[t].key]}
  BY <1>1 DEF Lb!Observe
<1> QED BY <1>1, <1>2

-----------------------------------------------------------------------------
(* The actions, one by one.                                                *)

LEMMA LbLabelOf ==
  ASSUME NEW t \in Threads
  PROVE  /\ Lb!Get(t) \/ Lb!Put(t) \/ Lb!Remove(t) => pc[t] = "idle"
         /\ Lb!GetVal(t) => pc[t] = "get_val"
         /\ Lb!GetKey(t) => pc[t] = "get_key"
         /\ Lb!GetAgain(t) => pc[t] = "get_again"
         /\ Lb!Exists(t) => pc[t] = "exists"
         /\ Lb!PutLocked(t) \/ Lb!RemoveLocked(t) => pc[t] = "lock"
         /\ Lb!WriteKey(t) => pc[t] = "write_key"
         /\ Lb!LinkKey(t) => pc[t] = "link_key"
         /\ Lb!LinkVal(t) => pc[t] = "link_val"
BY DEF Lb!Get, Lb!Put, Lb!Remove, Lb!Begin, Lb!GetVal, Lb!ScanVal,
       Lb!GetKey, Lb!ScanKey, Lb!GetAgain, Lb!ScanAgain, Lb!Exists,
       Lb!ScanExists, Lb!PutLocked, Lb!RemoveLocked, Lb!CanLock,
       Lb!WriteKey, Lb!LinkKey, Lb!LinkVal, Lb!At

LEMMA LbBeginCall ==
  ASSUME LbState, LbCalls, LbState', NEW t \in Threads,
         Lb!Get(t) \/ Lb!Put(t) \/ Lb!Remove(t),
         Lb!Observe(Lb!Store', call')
  PROVE  LbMapStepOf(t) /\ LbCallOk(t)'
<1>1. /\ LbStepOf(t) /\ LbLocalType /\ LbLocalType' /\ LbSharedType'
      /\ LbControl(t) /\ LbEffect(t) /\ LbCallOk(t)
  BY LbStepFacts DEF LbStepOf, LbCalls
<1>2. pc[t] = "idle" /\ call[t] = Lb!Idle
  BY <1>1, LbLabelOf DEF LbControl, Lb!At
<1>3. LbKeeps(t)
  BY <1>1, <1>2
  DEF LbEffect, LbFills, LbLinks, LbEnters, LbNames, LbWrites, LbTakes,
      LbFreeFor, Lb!At
<1>4. Lb!Store' = Lb!Store
  BY <1>1, <1>3, LbStoreStep
<1>5. PICK op \in {"get", "put", "remove"}, k \in Keys,
           v \in {Lb!NoVal, puts + 1} :
        /\ call' = [call EXCEPT ![t] = [op |-> op, key |-> k, val |-> v]]
        /\ pc'[t] \in {"get_val", "exists"}
        /\ idx'[t] = 1 /\ ret'[t] = 0
  BY <1>1
  DEF Lb!Get, Lb!Put, Lb!Remove, Lb!Begin, Lb!Goto, Lb!SetIdx, LbLocalType
<1>6. call'[t] \in Lb!Calls /\ call'[t].op = op /\ call'[t].key = k
  BY <1>1, <1>5 DEF LbLocalType
<1>7. call'[t] # Lb!Idle
  BY <1>6, LbCallTypes
<1>8. seen'[t] = {Lb!Store'[k]}
  BY <1>1, <1>2, <1>6, <1>7 DEF Lb!Observe, LbCallOk
<1>9. Lb!NoVal \in seen'[t] \/ \E j \in DOMAIN cells' :
                                 j >= 1 /\ cells'[j].key = k
  <2>1. LbStoreFacts'
    BY LbNextFacts
  <2>2. \A j \in DOMAIN cells' : j >= 1
    BY <1>1, LbCellType, <1>3 DEF LbKeeps, LbSharedType
  <2> QED BY <1>8, <2>1, <2>2 DEF LbStoreFacts
<1> QED
  BY <1>2, <1>4, <1>5, <1>6, <1>7, <1>8, <1>9
  DEF LbMapStepOf, LbInvokes, LbCallOk, LbSeenAbsent, LbLooks, Lb!At

LEMMA LbSearchFacts ==
  ASSUME LbState, LbCalls, LbState', NEW t \in Threads,
         Lb!GetVal(t) \/ Lb!GetKey(t) \/ Lb!GetAgain(t) \/ Lb!Exists(t)
  PROVE  /\ LbStepOf(t) /\ LbLocalType /\ LbSharedType /\ LbCallOk(t)
         /\ LbControl(t) /\ LbKeysOk /\ LbStoreFacts
         /\ Len(cells) \in Nat /\ DOMAIN cells = 1 .. Len(cells)
         /\ idx[t] \in Nat /\ ~Lb!At(t, "idle") /\ ~Lb!At(t, "link_val")
         /\ Lb!Store' = Lb!Store /\ UNCHANGED cells
         /\ Lb!Unwritten' = Lb!Unwritten
         /\ call[t] # Lb!Idle /\ call[t].key \in Keys
         /\ Lb!Store[call[t].key] \in seen[t]
<1>1. /\ LbStepOf(t) /\ LbLocalType /\ LbSharedType /\ LbCallOk(t)
      /\ LbControl(t) /\ LbKeysOk /\ LbEffect(t)
  BY LbStepFacts DEF LbStepOf, Lb!Work, LbCalls
<1>2. pc[t] \in {"get_val", "get_key", "get_again", "exists"}
  BY LbLabelOf
<1>3. LbKeeps(t)
  BY <1>1, <1>2
  DEF LbEffect, LbFills, LbLinks, LbEnters, LbNames, LbWrites, LbTakes,
      LbFreeFor, Lb!At
<1>4. /\ Lb!Store' = Lb!Store /\ UNCHANGED cells
      /\ Lb!Unwritten' = Lb!Unwritten
  BY <1>1, <1>3, LbStoreStep, LbUnwrittenStep DEF LbKeeps
<1>5. Len(cells) \in Nat /\ DOMAIN cells = 1 .. Len(cells) /\ idx[t] \in Nat
  BY <1>1, LbCellType DEF LbLocalType
<1>6. call[t] # Lb!Idle /\ call[t].key \in Keys
  BY <1>1, <1>2, LbCallOf DEF Lb!At
<1> QED
  BY <1>1, <1>2, <1>4, <1>5, <1>6, LbStoreIs DEF LbCallOk, Lb!At

LEMMA LbGetValCall ==
  ASSUME LbState, LbCalls, LbState', NEW t \in Threads, Lb!GetVal(t),
         Lb!Observe(Lb!Store', call')
  PROVE  LbMapStepOf(t) /\ LbCallOk(t)'
<1>1. /\ LbLocalType /\ LbCallOk(t)
      /\ Len(cells) \in Nat /\ DOMAIN cells = 1 .. Len(cells)
      /\ idx[t] \in Nat /\ ~Lb!At(t, "idle")
      /\ Lb!Store' = Lb!Store /\ UNCHANGED cells
  BY LbSearchFacts
<1>2. call[t].op = "get" /\ Lb!At(t, "get_val")
  BY LbSearchFacts, LbLabelOf DEF LbControl, Lb!At
<1>3. Lb!NoVal \in seen[t] \/ \E j \in DOMAIN cells :
                               j >= idx[t] /\ cells[j].key = call[t].key
  BY <1>1, <1>2 DEF LbCallOk, LbSeenAbsent, LbLooks, Lb!At
<1>4. CASE Lb!AtEnd(t)
  <2>1. Lb!Return(t, 0)
    BY <1>4 DEF Lb!GetVal, Lb!ScanVal
  <2>2. Lb!NoVal \in seen[t]
    BY <1>1, <1>3, <1>4 DEF Lb!AtEnd
  <2> QED
    BY <1>1, <1>2, <2>1, <2>2, LbReturnedCall
    DEF LbMapStepOf, LbAnswers, Lb!NoVal
<1>5. CASE ~Lb!AtEnd(t)
  <2>1. /\ pc'[t] = "get_key" /\ cur'[t] = cells[idx[t]].val
        /\ idx' = idx /\ call' = call /\ ret' = ret
    BY <1>1, <1>5 DEF Lb!GetVal, Lb!ScanVal, LbLocalType, Lb!Read, Lb!Goto
  <2>2. /\ call[t] # Lb!Idle
        /\ seen[t] \subseteq seen'[t] /\ Lb!Store'[call[t].key] \in seen'[t]
    BY <1>1, <2>1, LbGoesOn
  <2>3. LbCallOk(t)'
    BY <1>1, <1>3, <2>1, <2>2 DEF LbCallOk, LbSeenAbsent, LbLooks, Lb!At
  <2> QED BY <1>1, <2>1, <2>3 DEF LbMapStepOf, LbStays
<1> QED BY <1>4, <1>5

LEMMA LbGetKeyCall ==
  ASSUME LbState, LbCalls, LbState', NEW t \in Threads, Lb!GetKey(t),
         Lb!Observe(Lb!Store', call')
  PROVE  LbMapStepOf(t) /\ LbCallOk(t)'
<1>1. /\ LbLocalType /\ LbCallOk(t) /\ LbStoreFacts /\ LbControl(t)
      /\ Len(cells) \in Nat /\ DOMAIN cells = 1 .. Len(cells)
      /\ idx[t] \in Nat /\ ~Lb!At(t, "idle")
      /\ Lb!Store' = Lb!Store /\ UNCHANGED cells
      /\ Lb!Unwritten' = Lb!Unwritten
      /\ Lb!Store[call[t].key] \in seen[t]
  BY LbSearchFacts
<1>2. /\ Lb!At(t, "get_key") /\ idx[t] \in DOMAIN cells
      /\ call' = call /\ ret' = ret
      /\ Lb!NoVal \in seen[t] \/ \E j \in DOMAIN cells :
                                  j >= idx[t] /\ cells[j].key = call[t].key
      /\ \/ cells[idx[t]].val = cur[t]
         \/ cells[idx[t]].key = call[t].key => Lb!NoVal \in seen[t]
  BY <1>1
  DEF Lb!GetKey, Lb!ScanKey, LbControl, LbCallOk, LbSeenAbsent, LbLooks,
      Lb!At
<1>3. /\ call[t] # Lb!Idle /\ call[t].key \in Keys
      /\ seen[t] \subseteq seen'[t] /\ Lb!Store'[call[t].key] \in seen'[t]
  BY <1>1, <1>2, LbGoesOn
<1>4. CASE Lb!Mine(t)
  <2>1. pc'[t] = "get_again" /\ idx' = idx /\ cur' = cur
    BY <1>1, <1>4 DEF Lb!GetKey, Lb!ScanKey, LbLocalType, Lb!Goto
  <2>2. cells[idx[t]].key = call[t].key
    BY <1>4 DEF Lb!Mine
  <2>3. Lb!Store[call[t].key] =
          IF idx[t] \in Lb!Unwritten THEN Lb!NoVal ELSE cells[idx[t]].val
    BY <1>1, <1>2, <1>3, <2>2 DEF LbStoreFacts
  <2>4. LbCallOk(t)'
    BY <1>1, <1>2, <1>3, <2>1, <2>2, <2>3
    DEF LbCallOk, LbSeenAbsent, LbLooks, Lb!At
  <2> QED BY <1>1, <1>2, <2>4 DEF LbMapStepOf, LbStays
<1>5. CASE ~Lb!Mine(t)
  <2>1. pc'[t] = "get_val" /\ idx'[t] = idx[t] + 1
    BY <1>1, <1>5
    DEF Lb!GetKey, Lb!ScanKey, LbLocalType, Lb!Goto, Lb!SetIdx
  <2>2. \A j \in DOMAIN cells : j >= idx[t] /\ cells[j].key = call[t].key
                                  => j >= idx[t] + 1
    BY <1>1, <1>5 DEF Lb!Mine
  <2>3. LbCallOk(t)'
    BY <1>1, <1>2, <1>3, <2>1, <2>2
    DEF LbCallOk, LbSeenAbsent, LbLooks, Lb!At
  <2> QED BY <1>1, <1>2, <2>3 DEF LbMapStepOf, LbStays
<1> QED BY <1>4, <1>5

-----------------------------------------------------------------------------
LEMMA LbGetAgainCall ==
  ASSUME LbState, LbCalls, LbState', NEW t \in Threads, Lb!GetAgain(t),
         Lb!Observe(Lb!Store', call')
  PROVE  LbMapStepOf(t) /\ LbCallOk(t)'
<1>1. /\ LbLocalType /\ LbCallOk(t) /\ LbControl(t) /\ LbKeysOk
      /\ ~Lb!At(t, "idle") /\ Lb!Store' = Lb!Store
  BY LbSearchFacts
<1>2. Lb!At(t, "get_again") /\ call[t].op = "get"
  BY <1>1 DEF Lb!GetAgain, Lb!ScanAgain, LbControl, Lb!At
<1>3. Lb!Return(t, IF cells[idx[t]].val = cur[t] THEN cur[t] ELSE 0)
  BY DEF Lb!GetAgain, Lb!ScanAgain
<1>4. CASE idx[t] \in Lb!Unwritten
  <2>1. cells[idx[t]].val \in {0, Garbage}
    <3>1. PICK u \in Threads : Lb!At(u, "link_val") /\ idx[u] = idx[t]
      BY <1>4 DEF Lb!Unwritten
    <3>2. cells[idx[u]].val \in LbJunk
      BY <3>1, LbStateParts DEF LbEntryOk, Lb!At
    <3> QED BY <3>1, <3>2 DEF LbJunk, Lb!NoVal
  <2>2. PICK r \in {0, Garbage} : Lb!Return(t, r)
    BY <1>3, <2>1
  <2>3. LbAnswered(t, r) /\ LbCallOk(t)'
    BY <1>1, <2>2, LbReturnedCall
  <2> QED BY <1>1, <1>2, <1>4, <2>3 DEF LbMapStepOf, LbReadsUnwritten
<1>5. CASE idx[t] \notin Lb!Unwritten
  <2>1. PICK r \in seen[t] : Lb!Return(t, r)
    BY <1>1, <1>2, <1>3, <1>5 DEF LbCallOk, LbSeenAbsent, Lb!NoVal
  <2>2. LbAnswered(t, r) /\ LbCallOk(t)'
    BY <1>1, <2>1, LbReturnedCall
  <2> QED BY <1>1, <1>2, <2>2 DEF LbMapStepOf, LbAnswers
<1> QED BY <1>4, <1>5

LEMMA LbExistsCall ==
  ASSUME LbState, LbCalls, LbState', NEW t \in Threads, Lb!Exists(t),
         Lb!Observe(Lb!Store', call')
  PROVE  LbMapStepOf(t) /\ LbCallOk(t)'
<1>1. /\ LbLocalType /\ LbCallOk(t) /\ LbControl(t) /\ LbKeysOk
      /\ LbStoreFacts
      /\ Len(cells) \in Nat /\ DOMAIN cells = 1 .. Len(cells)
      /\ idx[t] \in Nat /\ ~Lb!At(t, "idle")
      /\ Lb!Store' = Lb!Store /\ UNCHANGED cells
      /\ call[t] # Lb!Idle /\ call[t].key \in Keys
      /\ Lb!Store[call[t].key] \in seen[t]
  BY LbSearchFacts
<1>2. Lb!At(t, "exists") /\ call[t].op \in {"put", "remove"} /\ idx[t] >= 1
  BY <1>1 DEF Lb!Exists, Lb!ScanExists, LbControl, Lb!At
<1>3. ASSUME call[t].op = "remove"
      PROVE  Lb!NoVal \in seen[t] \/ \E j \in DOMAIN cells :
                               j >= idx[t] /\ cells[j].key = call[t].key
  BY <1>1, <1>2, <1>3 DEF LbCallOk, LbSeenAbsent, LbLooks
<1>4. CASE Lb!Return(t, 0)
  <2>1. LbAnswered(t, 0) /\ LbCallOk(t)'
    BY <1>1, <1>4, LbReturnedCall
  <2>2. \/ pc' # pc
        \/ idx' # idx \/ call' # call
    BY <1>1, <2>1 DEF LbAnswered
  <2>3. \/ ~Lb!AtEnd(t) /\ Lb!Mine(t) /\ call[t].op = "put"
        \/ Lb!AtEnd(t) /\ call[t].op = "remove"
    <3>1. call' # call
      BY <1>1, <2>1 DEF LbAnswered
    <3> QED
      BY <1>2, <3>1 DEF Lb!Exists, Lb!ScanExists, Lb!ExistsDone
  <2>4. CASE ~Lb!AtEnd(t) /\ Lb!Mine(t) /\ call[t].op = "put"
    <3>1. idx[t] \in DOMAIN cells /\ cells[idx[t]].key = call[t].key
      BY <1>1, <1>2, <2>4 DEF Lb!AtEnd, Lb!Mine
    <3>2. CASE idx[t] \in Lb!Unwritten
      BY <1>1, <2>1, <2>4, <3>2 DEF LbMapStepOf, LbReadsUnwritten
    <3>3. CASE idx[t] \notin Lb!Unwritten
      <4>1. Lb!Store[call[t].key] \in Lb!Vals
        BY <1>1, <3>1, <3>3 DEF LbStoreFacts, LbKeysOk
      <4>2. Lb!Store[call[t].key] # Lb!NoVal
        BY <4>1, LbValueFacts
      <4> QED BY <1>1, <2>1, <2>4, <4>2 DEF LbMapStepOf, LbAnswers
    <3> QED BY <2>1, <3>2, <3>3
  <2>5. CASE Lb!AtEnd(t) /\ call[t].op = "remove"
    <3>1. Lb!NoVal \in seen[t]
      BY <1>1, <1>3, <2>5 DEF Lb!AtEnd
    <3> QED BY <1>1, <2>1, <2>5, <3>1 DEF LbMapStepOf, LbAnswers
  <2> QED BY <2>3, <2>4, <2>5
<1>5. CASE ~Lb!Return(t, 0)
  <2>1. /\ call' = call /\ ret' = ret /\ cur' = cur
        /\ \/ pc'[t] = "lock"
           \/ /\ pc'[t] = "exists" /\ idx'[t] = idx[t] + 1
              /\ ~Lb!AtEnd(t) /\ ~Lb!Mine(t)
    BY <1>1, <1>2, <1>5
    DEF Lb!Exists, Lb!ScanExists, Lb!ExistsDone, Lb!Goto, Lb!SetIdx,
        LbLocalType, Lb!At
  <2>2. /\ seen[t] \subseteq seen'[t] /\ Lb!Store'[call[t].key] \in seen'[t]
    BY <1>1, <2>1, LbGoesOn
  <2>3. ~Lb!Mine(t) => \A j \in DOMAIN cells :
          j >= idx[t] /\ cells[j].key = call[t].key => j >= idx[t] + 1
    BY <1>1 DEF Lb!Mine
  <2>4. LbCallOk(t)'
    BY <1>1, <1>3, <2>1, <2>2, <2>3 DEF LbCallOk, LbSeenAbsent, LbLooks, Lb!At
  <2> QED BY <1>1, <2>1, <2>4 DEF LbMapStepOf, LbStays
<1> QED BY <1>4, <1>5

LEMMA LbPutLockedCall ==
  ASSUME LbState, LbCalls, LbState', NEW t \in Threads, Lb!PutLocked(t),
         Lb!Observe(Lb!Store', call')
  PROVE  LbMapStepOf(t) /\ LbCallOk(t)'
<1>1. /\ LbStepOf(t) /\ LbLocalType /\ LbSharedType /\ LbKeysOk
      /\ LbControl(t) /\ LbEffect(t) /\ LbStoreFacts /\ LbCallOk(t)
  BY LbStepFacts, LbStoreIs DEF LbStepOf, Lb!Work, LbCalls
<1>2. pc[t] = "lock" /\ lock = NoThread /\ call[t].op = "put"
  BY DEF Lb!PutLocked, Lb!CanLock, Lb!At
<1>3. /\ call[t].key \in Keys /\ call[t] # Lb!Idle
      /\ Lb!Store[call[t].key] \in seen[t] /\ ~Lb!At(t, "idle")
  BY <1>1, <1>2, LbCallOf DEF Lb!At, LbCallOk
<1>4. CASE Lb!Having(call[t].key) # {}
  <2>1. Lb!Return(t, 0) /\ UNCHANGED <<cells, lock>>
    BY <1>2, <1>4 DEF Lb!PutLocked, Lb!Finish
  <2>2. LbAnswered(t, 0) /\ LbCallOk(t)'
    BY <1>1, <2>1, LbReturnedCall
  <2>3. pc'[t] = "idle"
    BY <1>1, <2>1 DEF Lb!Return, Lb!Decide, Lb!Goto, LbLocalType
  <2>4. LbKeeps(t)
    BY <1>2, <2>1, <2>3 DEF LbKeeps, LbWriting
  <2>5. Lb!Store' = Lb!Store
    BY <1>1, <2>4, LbStoreStep
  <2>6. Lb!Unwritten = {}
    BY <1>2, LbAlone DEF Lb!Unwritten, LbWriting, Lb!At
  <2>7. Lb!Store[call[t].key] \in Lb!Vals
    BY <1>1, <1>3, <1>4, <2>6 DEF Lb!Having, LbStoreFacts, LbKeysOk
  <2>8. Lb!Store[call[t].key] # Lb!NoVal
    BY <2>7, LbValueFacts
  <2> QED BY <1>2, <1>3, <2>2, <2>5, <2>8 DEF LbMapStepOf, LbAnswers
<1>5. CASE Lb!Having(call[t].key) = {}
  <2>1. /\ pc'[t] \in {"write_key", "link_key"} /\ call' = call /\ ret' = ret
    BY <1>1, <1>5 DEF Lb!PutLocked, Lb!Hold, Lb!Goto, LbLocalType
  <2>2. LbFills(t) \/ LbLinks(t)
    BY <1>1, <1>2, <2>1
    DEF LbEffect, LbKeeps, LbEnters, LbNames, LbWrites, LbTakes, LbWriting,
        Lb!At
  <2>3. Lb!Store' = Lb!Store
    BY <1>1, <2>2, LbStoreStep
  <2>4. /\ seen[t] \subseteq seen'[t] /\ Lb!Store'[call[t].key] \in seen'[t]
    BY <1>3, <2>1, LbGoesOn
  <2>5. LbCallOk(t)'
    BY <1>3, <2>1, <2>4 DEF LbCallOk, LbLooks, Lb!At
  <2> QED BY <2>1, <2>3, <2>5 DEF LbMapStepOf, LbStays
<1> QED BY <1>4, <1>5

LEMMA LbWriteCall ==
  ASSUME LbState, LbCalls, LbState', NEW t \in Threads,
         Lb!WriteKey(t) \/ Lb!LinkKey(t) \/ Lb!LinkVal(t),
         Lb!Observe(Lb!Store', call')
  PROVE  LbMapStepOf(t) /\ LbCallOk(t)'
<1>1. /\ LbStepOf(t) /\ LbLocalType /\ LbControl(t) /\ LbEffect(t)
  BY LbStepFacts DEF LbStepOf, Lb!Work
<1>2. /\ pc[t] \in LbWriting /\ call[t].op = "put" /\ ~Lb!At(t, "idle")
  BY <1>1, LbLabelOf DEF LbControl, LbWriting, Lb!At
<1>3. CASE Lb!WriteKey(t) \/ Lb!LinkVal(t)
  <2>1. Lb!Return(t, 1) /\ pc[t] # "link_key"
    BY <1>3, LbLabelOf DEF Lb!WriteKey, Lb!LinkVal, Lb!Finish
  <2>2. LbAnswered(t, 1) /\ LbCallOk(t)'
    BY <1>1, <2>1, LbReturnedCall
  <2>3. LbEnters(t) \/ LbWrites(t)
    BY <1>1, <1>2, <2>1
    DEF LbEffect, LbKeeps, LbFills, LbLinks, LbNames, LbTakes, LbFreeFor,
        LbWriting, Lb!At
  <2>4. /\ Lb!Store[call[t].key] = Lb!NoVal
        /\ Lb!Store' = [Lb!Store EXCEPT ![call[t].key] = call[t].val]
    BY <1>1, <2>3, LbStoreStep
  <2> QED BY <1>2, <2>2, <2>4 DEF LbMapStepOf, LbInserts
<1>4. CASE Lb!LinkKey(t)
  <2>1. /\ pc[t] = "link_key" /\ pc'[t] = "link_val"
        /\ call' = call /\ ret' = ret
    BY <1>1, <1>4 DEF Lb!LinkKey, Lb!Hold, Lb!Goto, LbLocalType, Lb!At
  <2>2. LbNames(t)
    BY <1>1, <2>1
    DEF LbEffect, LbKeeps, LbFills, LbLinks, LbEnters, LbWrites, LbTakes,
        LbFreeFor, LbWriting, Lb!At
  <2>3. Lb!Store' = Lb!Store
    BY <1>1, <2>2, LbStoreStep
  <2>4. /\ call[t] # Lb!Idle
        /\ seen[t] \subseteq seen'[t] /\ Lb!Store'[call[t].key] \in seen'[t]
    BY <1>2, <2>1, LbGoesOn
  <2>5. LbCallOk(t)'
    BY <2>1, <2>4 DEF LbCallOk, LbLooks, Lb!At
  <2> QED BY <2>1, <2>3, <2>5 DEF LbMapStepOf, LbStays
<1> QED BY <1>3, <1>4

LEMMA LbRemoveCall ==
  ASSUME LbState, LbCalls, LbState', NEW t \in Threads, Lb!RemoveLocked(t),
         Lb!Observe(Lb!Store', call')
  PROVE  LbMapStepOf(t) /\ LbCallOk(t)'
<1>1. /\ LbStepOf(t) /\ LbLocalType /\ LbSharedType /\ LbKeysOk
      /\ LbControl(t) /\ LbEffect(t) /\ LbStoreFacts /\ LbCallOk(t)
  BY LbStepFacts, LbStoreIs DEF LbStepOf, Lb!Work, LbCalls
<1>2. pc[t] = "lock" /\ call[t].op = "remove" /\ lock = NoThread
      /\ lock' = NoThread
  BY DEF Lb!RemoveLocked, Lb!CanLock, Lb!At, Lb!Finish
<1>3. /\ call[t].key \in Keys /\ call[t] # Lb!Idle
      /\ Lb!Store[call[t].key] \in seen[t]
  BY <1>1, <1>2, LbCallOf DEF Lb!At, LbCallOk
<1>4. PICK r : Lb!Return(t, r)
  BY DEF Lb!RemoveLocked, Lb!Finish
<1>5. pc'[t] = "idle"
  BY <1>1, <1>4 DEF Lb!Return, Lb!Decide, Lb!Goto, LbLocalType
<1>6. CASE LbTakes(t)
  <2>1. /\ Lb!Store[call[t].key] \in Lb!Vals
        /\ Lb!Return(t, Lb!Store[call[t].key])
        /\ Lb!Store' = [Lb!Store EXCEPT ![call[t].key] = Lb!NoVal]
    BY <1>1, <1>6, LbStoreStep
  <2>2. LbAnswered(t, Lb!Store[call[t].key]) /\ LbCallOk(t)'
    BY <1>1, <2>1, LbReturnedCall
  <2>3. Lb!Store[call[t].key] # Lb!NoVal
    BY <2>1, LbValueFacts
  <2> QED BY <1>2, <2>1, <2>2, <2>3 DEF LbMapStepOf, LbDeletes
<1>7. CASE LbKeeps(t)
  <2>1. Lb!Having(call[t].key) = {} /\ Lb!Return(t, 0)
    <3>1. ASSUME Lb!Having(call[t].key) # {} PROVE FALSE
      <4> DEFINE i == Lb!Min(Lb!Having(call[t].key))
      <4>1. i \in DOMAIN cells /\ cells[i].key = call[t].key
        BY <1>1, <3>1, LbFirst
      <4>2. cells' = Lb!SetKey(i, NoKey)
        BY <3>1 DEF Lb!RemoveLocked
      <4> HIDE DEF i
      <4>3. LbKeyTo(i, NoKey)
        BY <1>1, <4>1, <4>2, LbSetKeyTo DEF LbKeys
      <4> QED
        BY <1>3, <1>7, <4>1, <4>3, CallsAssumption DEF LbKeyTo, LbKeeps
    <3> QED BY <3>1 DEF Lb!RemoveLocked, Lb!Finish
  <2>2. LbAnswered(t, 0) /\ LbCallOk(t)'
    BY <1>1, <2>1, LbReturnedCall
  <2>3. Lb!Store' = Lb!Store
    BY <1>1, <1>7, LbStoreStep
  <2>4. Lb!Store[call[t].key] = Lb!NoVal
    BY <1>1, <1>3, <2>1 DEF Lb!Having, LbStoreFacts
  <2> QED BY <1>2, <1>3, <2>2, <2>3, <2>4 DEF LbMapStepOf, LbAnswers
<1> QED
  BY <1>1, <1>2, <1>5, <1>6, <1>7
  DEF LbEffect, LbFills, LbLinks, LbEnters, LbNames, LbWrites, LbFreeFor,
      Lb!At

LEMMA LbInitInv == Lb!Init => LbInv /\ Lb!Map!Init
<1> SUFFICES ASSUME Lb!Init PROVE LbInv /\ Lb!Map!Init
  OBVIOUS
<1>1. LbState
  BY LbInitState
<1>2. \A t \in Threads : pc[t] = "idle" /\ call[t] = Lb!Idle /\ seen[t] = {}
  BY DEF Lb!Init, Lb!CallsInit
<1>3. LbCalls
  BY <1>2 DEF LbCalls, LbCallOk, LbLooks, Lb!At
<1>4. LbStoreFacts
  BY <1>1, LbStateParts, LbStoreIs
<1>5. \A i \in DOMAIN cells : cells[i].key = NoKey
  BY DEF Lb!Init, Lb!CallsInit, Lb!Unused
<1>6. \A k \in Keys : Lb!Store[k] = Lb!NoVal
  BY <1>4, <1>5, CallsAssumption DEF LbStoreFacts
<1>7. Lb!Map!Init
  <2>1. Lb!Store = [k \in Keys |-> Lb!NoVal]
    BY <1>6 DEF Lb!Store
  <2>2. Lb!Map!Idle = Lb!Idle /\ Lb!Map!NoVal = Lb!NoVal
    BY DEF Lb!Map!Idle, Lb!Map!NoVal, Lb!Idle, Lb!NoVal
  <2>3. /\ call = [t \in Threads |-> Lb!Idle]
        /\ ret = [t \in Threads |-> 0] /\ seen = [t \in Threads |-> {}]
    BY DEF Lb!Init, Lb!CallsInit
  <2> QED BY <2>1, <2>2, <2>3 DEF Lb!Map!Init
<1> QED BY <1>1, <1>3, <1>7 DEF LbInv

LEMMA LbNextInv ==
  LbInv /\ [Lb!Next]_(Lb!vars) => LbInv' /\ [Lb!MapStep]_(Lb!Map!vars)
<1> SUFFICES ASSUME LbInv, [Lb!Next]_(Lb!vars)
             PROVE  LbInv' /\ [Lb!MapStep]_(Lb!Map!vars)
  OBVIOUS
<1>1. CASE UNCHANGED Lb!vars
  <2>1. /\ UNCHANGED <<cells, lock, call, pc, idx, cur, puts, ret, seen>>
    BY <1>1 DEF Lb!vars, Lb!calls, Lb!threads
  <2>2. Lb!Store' = Lb!Store /\ Lb!Unwritten' = Lb!Unwritten
    BY <2>1
    DEF Lb!Store, Lb!Unwritten, Lb!Lookup, Lb!Having, Lb!At
  <2>3. UNCHANGED Lb!Map!vars
    BY <2>1, <2>2 DEF Lb!Map!vars
  <2>4. LbInv'
    BY <2>1, <2>2
    DEF LbInv, LbState, LbCalls, Lb!TypeOK, Lb!CallsTypeOK, LbKeysOk,
        LbValuesOk, LbControl, LbEntryOk, LbFreshOk, LbUnstored, LbCallOk,
        LbSeenAbsent, LbLooks, Lb!At
  <2> QED BY <2>3, <2>4
<1>2. ASSUME NEW t \in Threads, LbStepOf(t), Lb!Observe(Lb!Store', call')
      PROVE  LbInv' /\ [Lb!MapStep]_(Lb!Map!vars)
  <2>1. LbState /\ LbCalls /\ LbState'
    BY <1>2, LbStepState DEF LbInv
  <2>2. LbMapStepOf(t) /\ LbCallOk(t)'
    BY <1>2, <2>1, LbBeginCall, LbGetValCall, LbGetKeyCall, LbGetAgainCall,
       LbExistsCall, LbPutLockedCall, LbWriteCall, LbRemoveCall
    DEF LbStepOf, Lb!Work
  <2>3. \A u \in Threads \ {t} : LbCallOk(u)'
    BY <1>2, <2>1, LbOtherCall
  <2>4. LbCalls'
    BY <2>2, <2>3 DEF LbCalls
  <2>5. [Lb!MapStep]_(Lb!Map!vars)
    BY <1>2, <2>1, <2>2, LbStepFacts, LbMapStepIs
  <2> QED BY <2>1, <2>4, <2>5 DEF LbInv
<1> QED BY <1>1, <1>2 DEF Lb!Next, LbStepOf

LbOf == variant = "lb" => LbInv

(* The invariant of the table without resizing, and the steps of the map.  *)
LEMMA LbSteps ==
  Spec => /\ [](LbOf)
          /\ variant = "lb" => Lb!Map!Init
          /\ [][variant = "lb" => [Lb!MapStep]_(Lb!Map!vars)]_vars
<1>1. Init => LbOf /\ (variant = "lb" => Lb!Map!Init)
  BY LbInitInv DEF Init, LbOf
<1>2. LbOf /\ [Next]_vars
        => LbOf' /\ (variant = "lb" => [Lb!MapStep]_(Lb!Map!vars))
  <2> SUFFICES ASSUME LbOf, [Next]_vars, variant = "lb"
               PROVE  LbInv' /\ [Lb!MapStep]_(Lb!Map!vars)
    BY DEF LbOf, Next, vars
  <2>1. [Lb!Next]_(Lb!vars)
    <3>1. CASE UNCHANGED vars
      BY <3>1 DEF vars, calls, threads, Lb!vars, Lb!calls, Lb!threads
    <3>2. CASE Next
      BY <3>2 DEF Next
    <3> QED BY <3>1, <3>2
  <2>2. LbInv
    BY DEF LbOf
  <2> QED BY <2>1, <2>2, LbNextInv
<1> QED BY <1>1, <1>2, PTL DEF Spec

(* src/clht_lb.c: every call takes effect at one moment, but for the       *)
(* answers of searches that meet a linked entry between its two stores,    *)
(* for any number of threads, keys, entries and puts.                      *)
THEOREM LbRefines == Spec => LbImplementsMap
BY LbSteps, PTL DEF LbImplementsMap

-----------------------------------------------------------------------------
VariantOk == variant \in {"lb", "lock_ins", "packed", "map_rem", "rtm"}
RtmOf == variant = "rtm" => RtmInv

LEMMA VariantKept == Spec => []VariantOk
<1>1. Init => VariantOk
  BY DEF Init, VariantOk
<1>2. VariantOk /\ [Next]_vars => VariantOk'
  BY DEF Next, vars, VariantOk
<1> QED BY <1>1, <1>2, PTL DEF Spec

LEMMA RemTypeImplies == RemType => Rem!TypeOK
<1> SUFFICES ASSUME RemType PROVE Rem!TypeOK
  OBVIOUS
<1>1. Rem!B!Slots = RemSlots
  BY RemNames
<1>2. /\ word \in RemWords /\ \A t \in Threads : snap[t] \in RemWords
      /\ val \in [RemSlots -> Rem!B!Vals \cup {Rem!B!NoVal}]
      /\ pc \in [Threads -> Rem!Labels] /\ met \in [Threads -> BOOLEAN]
  BY DEF RemType
<1>3. (2 * MapPuts + 2) - 1 = 2 * MapPuts + 1
  BY MapBounds
<1>4. \A w \in RemWords : /\ w.version \in 0 .. 2 * MapPuts + 1
                          /\ w.map \in [RemSlots -> Rem!MapState]
  BY DEF RemWords
<1>5. word.version \in 0 .. (2 * MapPuts + 2) - 1
  BY <1>2, <1>3, <1>4
<1>6. word.map \in [Rem!B!Slots -> Rem!MapState]
  BY <1>1, <1>2, <1>4
<1>7. \A t \in Threads : snap[t].map \in [Rem!B!Slots -> Rem!MapState]
  BY <1>1, <1>2, <1>4
<1>8. val \in [Rem!B!Slots -> Rem!B!Vals \cup {Rem!B!NoVal}]
  BY <1>1, <1>2
<1> QED BY <1>2, <1>5, <1>6, <1>7, <1>8 DEF Rem!TypeOK

(* src/clht_lb.c, clht_lb_lock_ins.c, clht_lb_packed.c and                 *)
(* clht_lf_only_map_rem.c, and the locks of clht_lb_res.h compiled with    *)
(* CLHT_USE_RTM: entries, words, indices and counts stay in the ranges     *)
(* that their types in the code can hold, and every thread where its call  *)
(* can be, for any number of threads, keys, entries and puts.              *)
THEOREM TypesHold == Spec => []TypeOK
<1>1. LbOf => (variant = "lb" => Lb!TypeOK)
  BY DEF LbOf, LbInv, LbState
<1>2. InsOf => (variant = "lock_ins" => Ins!TypeOK)
  BY DEF InsOf, InsInv, InsState
<1>3. PkOf => (variant = "packed" => Pack!TypeOK)
  BY DEF PkOf, PkInv, PkState
<1>4. RemOf => (variant = "map_rem" => Rem!TypeOK)
  BY RemTypeImplies DEF RemOf, RemInv
<1>5. RtmOf => (variant = "rtm" => Rtm!TypeOK)
  BY DEF RtmOf, RtmInv
<1>6. VariantOk /\ LbOf /\ InsOf /\ PkOf /\ RemOf /\ RtmOf => TypeOK
  BY <1>1, <1>2, <1>3, <1>4, <1>5, Zenon DEF TypeOK, VariantOk
<1>7. Spec => []RtmOf
  BY RtmInvariance, PTL DEF RtmOf
<1>8. Spec => [](LbOf)
  BY LbSteps, PTL
<1>9. Spec => [](InsOf)
  BY InsSteps, PTL
<1>10. Spec => [](PkOf)
  BY PkSteps, PTL
<1> QED
  BY <1>6, <1>7, <1>8, <1>9, <1>10, VariantKept, RemInvariance, PTL

-----------------------------------------------------------------------------
(* clht_size.  Entries that have one key each are as many as their keys.   *)

LEMMA CountedByKey ==
  ASSUME NEW S, IsFiniteSet(S), NEW K, NEW f \in [S -> K],
         \A i, j \in S : f[i] = f[j] => i = j,
         \A k \in K : \E i \in S : f[i] = k
  PROVE  Cardinality(S) = Cardinality(K)
<1>1. f \in Bijection(S, K)
  BY DEF Bijection, Injection, Surjection, IsInjective
<1>2. ExistsBijection(S, K)
  BY <1>1 DEF ExistsBijection
<1> QED BY <1>2, FS_Bijection

(* The keys that are in the map are those of the entries S.                *)
Shown(S, keyOf, store) ==
  \A k \in Keys : store[k] # NoVal <=> \E i \in S : keyOf[i] = k

LEMMA CountedPresent ==
  ASSUME NEW n \in Nat, NEW S \in SUBSET (1 .. n), NEW keyOf, NEW store,
         \A i \in S : keyOf[i] \in Keys,
         \A i, j \in S : keyOf[i] = keyOf[j] => i = j,
         Shown(S, keyOf, store)
  PROVE  Cardinality(S) = Present(store)
<1> DEFINE K == {k \in Keys : store[k] # NoVal}
           f == [i \in S |-> keyOf[i]]
<1>1. IsFiniteSet(S)
  <2>1. IsFiniteSet(1 .. n)
    BY FS_Interval
  <2> QED BY <2>1, FS_Subset
<1>2. f \in [S -> K]
  BY DEF Shown
<1>3. \A i, j \in S : f[i] = f[j] => i = j
  OBVIOUS
<1>4. \A k \in K : \E i \in S : f[i] = k
  BY DEF Shown
<1>5. Present(store) = Cardinality(K)
  BY DEF Present
<1> HIDE DEF K, f
<1> QED BY <1>1, <1>2, <1>3, <1>4, <1>5, CountedByKey

LEMMA SizeCardinality ==
  /\ \A S : Rem!Cardinality(S) = Cardinality(S)
  /\ \A S : Lb!Cardinality(S) = Cardinality(S)
  /\ \A S : Ins!Cardinality(S) = Cardinality(S)
  /\ \A S : Pack!Cardinality(S) = Cardinality(S)
BY DEF Rem!Cardinality, Lb!Cardinality, Ins!Cardinality, Pack!Cardinality,
       Cardinality

-----------------------------------------------------------------------------
(* src/clht_lb.c: nobody is between the key of an entry and its value.     *)
LEMMA LbSizeIs == LbInv /\ Quiet => Lb!Size = Present(Lb!Store)
<1> SUFFICES ASSUME LbInv, Quiet PROVE Lb!Size = Present(Lb!Store)
  OBVIOUS
<1> DEFINE S == DOMAIN cells \ Lb!Having(NoKey)
           keyOf == [i \in DOMAIN cells |-> cells[i].key]
<1>1. /\ LbLocalType /\ LbSharedType /\ LbKeysOk /\ LbStoreFacts
      /\ \A t \in Threads : LbControl(t)
  BY LbStateParts, LbStoreIs DEF LbInv
<1>2. /\ Len(cells) \in Nat /\ DOMAIN cells = 1 .. Len(cells)
      /\ \A i \in DOMAIN cells : cells[i].key \in LbKeys
  BY <1>1, LbCellType
<1>3. Lb!Unwritten = {}
  BY <1>1 DEF Lb!Unwritten, LbControl, LbWriting, Quiet, Lb!At
<1>4. S \in SUBSET (1 .. Len(cells)) /\ \A i \in S : keyOf[i] \in Keys
  BY <1>2 DEF Lb!Having, LbKeys
<1>5. \A i, j \in S : keyOf[i] = keyOf[j] => i = j
  BY <1>1, <1>4 DEF LbKeysOk
<1>6. Shown(S, keyOf, Lb!Store)
  <2> SUFFICES ASSUME NEW k \in Keys
               PROVE  Lb!Store[k] # NoVal <=> \E i \in S : keyOf[i] = k
    BY DEF Shown
  <2>1. NoVal = 0 /\ Lb!NoVal = 0 /\ NoKey \notin Keys
    BY CallsAssumption DEF NoVal, Lb!NoVal
  <2>2. ASSUME NEW i \in S, keyOf[i] = k PROVE Lb!Store[k] # NoVal
    <3>1. i \in DOMAIN cells /\ cells[i].key = k
      BY <2>2
    <3>2. Lb!Store[k] = cells[i].val /\ cells[i].val \in Lb!Vals
      BY <1>1, <1>3, <3>1 DEF LbStoreFacts, LbKeysOk
    <3> QED BY <2>1, <3>2, LbValueFacts
  <2>3. ASSUME Lb!Store[k] # NoVal PROVE \E i \in S : keyOf[i] = k
    <3>1. PICK i \in DOMAIN cells : cells[i].key = k
      BY <1>1, <2>1, <2>3 DEF LbStoreFacts
    <3>2. i \in S /\ keyOf[i] = k
      BY <2>1, <3>1 DEF Lb!Having
    <3> QED BY <3>2
  <2> QED BY <2>2, <2>3
<1>7. Lb!Size = Cardinality(S)
  BY SizeCardinality DEF Lb!Size
<1> DEFINE store == Lb!Store
<1>8. Shown(S, keyOf, store)
  BY <1>6
<1>9. PICK n \in Nat : S \in SUBSET (1 .. n)
  BY <1>2, <1>4
<1> HIDE DEF S, keyOf, store
<1>10. \A i \in S : keyOf[i] \in Keys
  BY <1>4
<1>11. Cardinality(S) = Present(store)
  BY <1>5, <1>8, <1>9, <1>10, CountedPresent
<1> QED BY <1>7, <1>11 DEF store

(* src/clht_lf_only_map_rem.c: no remove has a mark, so what is seen is    *)
(* valid.                                                                  *)
LEMMA RemSizeIs == RemLinear /\ Quiet => Rem!Size = Present(Rem!Store)
<1> SUFFICES ASSUME RemLinear, Quiet PROVE Rem!Size = Present(Rem!Store)
  OBVIOUS
<1> DEFINE S == {i \in RemSlots : key[i] # NoKey /\ word.map[i] = Rem!B!VALID}
<1>1. /\ RemPuts /\ RemStoreFacts /\ RemUnique /\ RemFields
      /\ \A t \in Threads : RemOp(t)
      /\ \A i \in RemSlots : RemHeld(i)
  BY RemStoreIs DEF RemLinear, RemPuts, RemBase, RemInv
<1>2. ASSUME NEW t \in Threads PROVE pc[t] \notin Rem!Marking
  <2>1. pc[t] = "idle" \/ call[t].op = "get"
    BY DEF Quiet
  <2>2. RemOp(t)
    BY <1>1
  <2> QED BY <2>1, <2>2 DEF RemOp, Rem!Marking
<1>3. \A i \in RemSlots : RemVisible(i) <=> word.map[i] = Rem!B!VALID
  <2>1. \A i \in RemSlots : word.map[i] # Rem!REMOV
    BY <1>1, <1>2 DEF RemHeld, RemMarks
  <2> QED BY <2>1 DEF RemVisible, Rem!Visible
<1>4. S \in SUBSET (1 .. MapSlots) /\ \A i \in S : key[i] \in Keys
  BY <1>1 DEF RemFields, RemSlots
<1>5. \A i, j \in S : key[i] = key[j] => i = j
  BY <1>1, <1>3 DEF RemUnique
<1>6. Shown(S, key, Rem!Store)
  <2> SUFFICES ASSUME NEW k \in Keys
               PROVE  Rem!Store[k] # NoVal <=> \E i \in S : key[i] = k
    BY DEF Shown
  <2>1. NoVal = Rem!B!NoVal /\ k # NoKey
    BY CallsAssumption DEF NoVal, Rem!B!NoVal
  <2>2. \A i \in RemSlots : RemPresent(i, k) <=> i \in S /\ key[i] = k
    BY <1>3, <2>1 DEF RemPresent
  <2> QED BY <1>1, <2>1, <2>2 DEF RemStoreFacts
<1>7. Rem!Size = Cardinality(S)
  BY RemNames, SizeCardinality DEF Rem!Size
<1> DEFINE store == Rem!Store
<1>8. Shown(S, key, store)
  BY <1>6
<1>9. PICK n \in Nat : S \in SUBSET (1 .. n)
  BY <1>4, MapBounds
<1> HIDE DEF S, store
<1>10. Cardinality(S) = Present(store)
  BY <1>4, <1>5, <1>8, <1>9, CountedPresent
<1> QED BY <1>7, <1>10 DEF store

(* src/clht_lb_packed.c: the buckets that count are full but for the last, *)
(* and nobody moves an entry.                                              *)
LEMMA PkSizeIs == PkInv /\ Quiet => Pack!Size = Present(Pack!Store)
<1> SUFFICES ASSUME PkInv, Quiet PROVE Pack!Size = Present(Pack!Store)
  OBVIOUS
<1> DEFINE S == 1 .. PkCount
           keyOf == [i \in S |-> cells[i].key]
<1>1. /\ PkLocalType /\ PkSharedType /\ PkFilled(PkCount) /\ PkKeysOk
      /\ \A t \in Threads : PkControl(t) /\ PkEntryOk(t)
  BY PkStateParts DEF PkInv
<1>2. PkCount \in Nat /\ Pack!Live = 1 .. PkCount
  BY <1>1, PkLive
<1>3. PkStoreFacts
  BY <1>1, PkStoreIs DEF PkTyped
<1>4. ASSUME NEW t \in Threads PROVE pc[t] \notin PkMoving
  BY <1>1 DEF Quiet, PkControl, PkMoving, Pack!Idle
<1>5. \A i \in S : keyOf[i] \in Keys
  BY <1>1, <1>4 DEF PkKeysOk, PkGap
<1>6. \A i, j \in S : keyOf[i] = keyOf[j] => i = j
  BY <1>1, <1>4, <1>5 DEF PkKeysOk, PkTwice, Pack!At, PkMoving
<1>7. Shown(S, keyOf, Pack!Store)
  <2> SUFFICES ASSUME NEW k \in Keys
               PROVE  Pack!Store[k] # NoVal <=> \E i \in S : keyOf[i] = k
    BY DEF Shown
  <2>1. NoVal = Pack!NoVal /\ Pack!NoVal \notin Pack!Vals
    BY PkValueFacts DEF NoVal, Pack!NoVal
  <2> QED BY <1>3, <2>1 DEF PkStoreFacts
<1>8. Pack!Size = Cardinality(S)
  BY <1>1, <1>2, PkAllSearched, SizeCardinality DEF Pack!Size
<1> DEFINE store == Pack!Store
<1>9. Shown(S, keyOf, store)
  BY <1>7
<1>10. PICK n \in Nat : S \in SUBSET (1 .. n)
  BY <1>2
<1>11. PICK f : f = keyOf
  OBVIOUS
<1> HIDE DEF S, keyOf, store
<1>12. \A i \in S : f[i] \in Keys
  BY <1>5, <1>11
<1>13. \A i, j \in S : f[i] = f[j] => i = j
  BY <1>6, <1>11
<1>14. Cardinality(S) = Present(store)
  BY <1>9, <1>10, <1>11, <1>12, <1>13, CountedPresent
<1> QED BY <1>8, <1>14 DEF store

(* src/clht_lb_lock_ins.c: an entry with KEY_BLCK belongs to a remove, so  *)
(* there is none when nobody removes.                                      *)
InsBlocksHeld ==
  \A i \in DOMAIN cells :
    cells[i].key = KeyBlck => \E t \in Threads : InsBlocking(t) /\ idx[t] = i

LEMMA InsBlockLabel ==
  ASSUME NEW t \in Threads, InsStepOf(t), InsBlocking(t)
  PROVE  Ins!RemoveVal(t) \/ Ins!RemoveFree(t)
<1>1. Ins!Get(t) \/ Ins!Put(t) \/ Ins!Remove(t) => pc[t] = "idle"
  BY DEF Ins!Get, Ins!Put, Ins!Remove, Ins!Begin, Ins!At
<1>2. Ins!GetVal(t) \/ Ins!GetKey(t) \/ Ins!GetAgain(t)
        => pc[t] \in {"get_val", "get_key", "get_again"}
  BY
  DEF Ins!GetVal, Ins!ScanVal, Ins!GetKey, Ins!ScanKey, Ins!GetAgain,
      Ins!ScanAgain, Ins!At
<1>3. Ins!Exists(t) \/ Ins!PutLock(t) \/ Ins!PutScan(t) \/ Ins!PutFree(t)
        \/ Ins!LinkVal(t)
        => pc[t] \in {"exists", "lock", "scan", "link_val"}
  BY
  DEF Ins!Exists, Ins!ScanExists, Ins!PutLock, Ins!CanLock, Ins!PutScan,
      Ins!PutFree, Ins!LinkVal, Ins!At
<1>4. Ins!WriteKey(t) \/ Ins!RemoveKey(t) \/ Ins!RemoveCas(t)
        => pc[t] \in {"write_key", "rem_key", "rem_cas"}
  BY DEF Ins!WriteKey, Ins!RemoveKey, Ins!RemoveCas, Ins!At
<1> QED
  BY <1>1, <1>2, <1>3, <1>4 DEF InsStepOf, Ins!Work, InsBlocking

LEMMA InsBlocksStep ==
  ASSUME InsState, InsBlocksHeld, NEW t \in Threads, InsStepOf(t)
  PROVE  InsBlocksHeld'
<1> SUFFICES ASSUME NEW i \in DOMAIN cells', cells'[i].key = KeyBlck
             PROVE  \E u \in Threads : InsBlocking(u)' /\ idx'[u] = i
  BY DEF InsBlocksHeld
<1>1. /\ InsLocalType /\ InsSharedType /\ InsEffectOf(t) /\ InsOthersSame(t)
      /\ InsControl(t)
  BY InsStateParts, InsStepEffect, InsStepOthers
<1>2. /\ ~Ins!At(t, "idle") => call[t].key \in Keys
      /\ KeyBlck \notin Keys /\ KeyBlck # NoKey
  BY <1>1, InsCallOf, BlckAssumption
<1>3. ASSUME NEW u \in Threads \ {t}, InsBlocking(u)
      PROVE  InsBlocking(u)' /\ idx'[u] = idx[u]
  BY <1>1, <1>3 DEF InsOthersSame, InsBlocking
<1>4. CASE Ins!RemoveVal(t)
  <2>1. pc'[t] = "rem_free" /\ cells' = cells /\ idx' = idx
    BY <1>1, <1>4 DEF Ins!RemoveVal, Ins!Goto, InsLocalType
  <2>2. PICK u \in Threads : InsBlocking(u) /\ idx[u] = i
    BY <2>1 DEF InsBlocksHeld
  <2> QED BY <1>3, <2>1, <2>2 DEF InsBlocking
<1>5. CASE Ins!RemoveFree(t)
  <2>1. Ins!At(t, "rem_free") /\ idx[t] \in DOMAIN cells
    BY <1>1, <1>5 DEF Ins!RemoveFree, InsControl, Ins!At
  <2>2. InsKeyTo(idx[t], NoKey)
    BY <1>1, <1>5, <2>1, InsSetKeyTo DEF Ins!RemoveFree, InsKeys
  <2>3. i # idx[t] /\ i \in DOMAIN cells /\ cells[i].key = KeyBlck
    BY <1>2, <2>2 DEF InsKeyTo
  <2>4. PICK u \in Threads : InsBlocking(u) /\ idx[u] = i
    BY <2>3 DEF InsBlocksHeld
  <2> QED BY <1>3, <2>3, <2>4
<1>6. CASE Ins!At(t, "rem_cas") /\ Ins!Mine(t) /\ i = idx[t]
  <2>1. Ins!RemoveCas(t)
    BY <1>6, InsLabelOf
  <2>2. pc'[t] = "rem_val" /\ idx' = idx
    BY <1>1, <1>6, <2>1 DEF Ins!RemoveCas, Ins!Goto, InsLocalType
  <2> QED BY <1>6, <2>2 DEF InsBlocking
<1>7. CASE /\ ~InsBlocking(t)
           /\ ~(Ins!At(t, "rem_cas") /\ Ins!Mine(t) /\ i = idx[t])
  <2>1. i \in DOMAIN cells /\ cells[i].key = KeyBlck
    <3>1. \/ UNCHANGED cells
          \/ InsLonger
          \/ InsValTo(slot[t], call[t].val)
          \/ InsValTo(idx[t], call[t].val)
          \/ InsKeyTo(idx[t], call[t].key) /\ call[t].key # KeyBlck
          \/ InsKeyTo(idx[t], KeyBlck) /\ i # idx[t]
      BY <1>1, <1>2, <1>7 DEF InsEffectOf, InsBlocking, Ins!At
    <3> QED BY <1>2, <3>1 DEF InsLonger, InsValTo, InsKeyTo
  <2>2. PICK u \in Threads : InsBlocking(u) /\ idx[u] = i
    BY <2>1 DEF InsBlocksHeld
  <2> QED BY <1>3, <1>7, <2>2
<1> QED BY <1>4, <1>5, <1>6, <1>7, InsBlockLabel

InsBlocksOf == variant = "lock_ins" => InsBlocksHeld
LEMMA InsBlocksAlways == Spec => []InsBlocksOf
<1>1. Init => InsBlocksOf
  <2> SUFFICES ASSUME Init PROVE InsBlocksHeld
    BY DEF InsBlocksOf
  <2>1. \A i \in DOMAIN cells : cells[i].key = NoKey
    BY DEF Init, Ins!Init, Ins!CallsInit, Ins!Unused
  <2> QED BY <2>1, BlckAssumption DEF InsBlocksHeld
<1>2. InsOf /\ InsBlocksOf /\ [Next]_vars => InsBlocksOf'
  <2> SUFFICES ASSUME InsOf, InsBlocksOf, [Next]_vars, variant = "lock_ins"
               PROVE  InsBlocksHeld'
    BY DEF InsBlocksOf, Next, vars
  <2>1. InsState /\ InsBlocksHeld
    BY DEF InsOf, InsInv, InsBlocksOf
  <2>2. CASE UNCHANGED vars
    BY <2>1, <2>2 DEF vars, calls, threads, InsBlocksHeld, InsBlocking
  <2>3. ASSUME NEW t \in Threads, InsStepOf(t) PROVE InsBlocksHeld'
    BY <2>1, <2>3, InsBlocksStep
  <2> QED BY <2>2, <2>3 DEF Next, Ins!Next, InsStepOf
<1> QED BY <1>1, <1>2, InsSteps, PTL DEF Spec

LEMMA InsSizeIs ==
  InsInv /\ InsBlocksHeld /\ Quiet => Ins!Size = Present(Ins!Store)
<1> SUFFICES ASSUME InsInv, InsBlocksHeld, Quiet
             PROVE  Ins!Size = Present(Ins!Store)
  OBVIOUS
<1> DEFINE S == DOMAIN cells \ Ins!Having(NoKey)
           keyOf == [i \in DOMAIN cells |-> cells[i].key]
<1>1. /\ InsLocalType /\ InsSharedType /\ InsKeysOk /\ InsStoreFacts
      /\ \A t \in Threads : InsControl(t)
  BY InsStateParts, InsStoreIs DEF InsInv
<1>2. /\ Len(cells) \in Nat /\ DOMAIN cells = 1 .. Len(cells)
      /\ \A i \in DOMAIN cells : cells[i].key \in InsKeys
  BY <1>1, InsCellType
<1>3. ASSUME NEW i \in DOMAIN cells PROVE cells[i].key # KeyBlck
  <2>1. ASSUME NEW t \in Threads PROVE ~InsBlocking(t)
    BY <1>1 DEF InsControl, InsBlocking, Quiet
  <2> QED BY <2>1 DEF InsBlocksHeld
<1>4. S \in SUBSET (1 .. Len(cells)) /\ \A i \in S : keyOf[i] \in Keys
  BY <1>2, <1>3 DEF Ins!Having, InsKeys
<1>5. \A i, j \in S : keyOf[i] = keyOf[j] => i = j
  BY <1>1, <1>4 DEF InsKeysOk
<1>6. Shown(S, keyOf, Ins!Store)
  <2> SUFFICES ASSUME NEW k \in Keys
               PROVE  Ins!Store[k] # NoVal <=> \E i \in S : keyOf[i] = k
    BY DEF Shown
  <2>1. NoVal = Ins!NoVal /\ NoKey \notin Keys
    BY CallsAssumption DEF NoVal, Ins!NoVal
  <2>2. ASSUME NEW i \in S, keyOf[i] = k PROVE Ins!Store[k] # NoVal
    <3>1. i \in DOMAIN cells /\ cells[i].key = k
      BY <2>2
    <3> QED BY <1>1, <2>1, <3>1 DEF InsStoreFacts, InsKeysOk
  <2>3. ASSUME Ins!Store[k] # NoVal PROVE \E i \in S : keyOf[i] = k
    <3>1. PICK i \in DOMAIN cells : cells[i].key = k
      BY <1>1, <2>1, <2>3 DEF InsStoreFacts
    <3>2. i \in S /\ keyOf[i] = k
      BY <2>1, <3>1 DEF Ins!Having
    <3> QED BY <3>2
  <2> QED BY <2>2, <2>3
<1>7. Ins!Size = Cardinality(S)
  BY SizeCardinality DEF Ins!Size
<1> DEFINE store == Ins!Store
<1>8. Shown(S, keyOf, store)
  BY <1>6
<1>9. PICK n \in Nat : S \in SUBSET (1 .. n)
  BY <1>2, <1>4
<1> HIDE DEF S, keyOf, store
<1>10. \A i \in S : keyOf[i] \in Keys
  BY <1>4
<1>11. Cardinality(S) = Present(store)
  BY <1>5, <1>8, <1>9, <1>10, CountedPresent
<1> QED BY <1>7, <1>11 DEF store

(* clht_size of the four tables is the number of keys in the map, whenever *)
(* no update is under way: src/clht_lb.c, src/clht_lb_lock_ins.c,          *)
(* src/clht_lb_packed.c and src/clht_lf_only_map_rem.c leave no key with   *)
(* two entries and none half put, half removed or half moved.              *)
THEOREM SizesMatch == Spec => []SizeRight
<1>1. /\ LbOf /\ InsOf /\ InsBlocksOf /\ PkOf /\ RemLinearOf /\ VariantOk
        => SizeRight
  <2> SUFFICES ASSUME LbOf, InsOf, InsBlocksOf, PkOf, RemLinearOf, VariantOk,
                      Quiet
               PROVE  CASE variant = "lb" -> Lb!Size = Present(Lb!Store)
                        [] variant = "lock_ins" ->
                             Ins!Size = Present(Ins!Store)
                        [] variant = "packed" ->
                             Pack!Size = Present(Pack!Store)
                        [] variant = "map_rem" -> Rem!Size = Present(Rem!Store)
                        [] variant = "rtm" -> TRUE
    BY DEF SizeRight
  <2>1. /\ variant = "lb" => Lb!Size = Present(Lb!Store)
        /\ variant = "lock_ins" => Ins!Size = Present(Ins!Store)
        /\ variant = "packed" => Pack!Size = Present(Pack!Store)
        /\ variant = "map_rem" => Rem!Size = Present(Rem!Store)
    BY LbSizeIs, InsSizeIs, PkSizeIs, RemSizeIs
    DEF LbOf, InsOf, InsBlocksOf, PkOf, RemLinearOf
  <2> QED BY <2>1, Zenon DEF VariantOk
<1> QED
  BY <1>1, LbSteps, InsSteps, InsBlocksAlways, PkSteps, RemLinearSteps,
     VariantKept, PTL
=============================================================================
