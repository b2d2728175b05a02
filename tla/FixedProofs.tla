---------------------------- MODULE FixedProofs -----------------------------
(***************************************************************************)
(* Proofs about tables of a fixed size, for every number of threads, keys, *)
(* entries and calls: the packed table and the table whose removes work on *)
(* the map alone implement the atomic map, but for what the properties     *)
(* name; a remove of the latter always has its own mark; and the           *)
(* transactions and the transactional lock exclude each other.             *)
(***************************************************************************)
EXTENDS MCFixed, NatFacts, SequenceTheorems, FiniteSetTheorems, TLAPS

(* Entries as sequences of records: a store to one field, and a bucket     *)
(* linked at the end.                                                      *)
LEMMA BucketLinked ==
  ASSUME NEW S, NEW c \in Seq(S), NEW n \in Nat, NEW e \in S
  PROVE  /\ c \o [i \in 1 .. n |-> e] \in Seq(S)
         /\ Len(c \o [i \in 1 .. n |-> e]) = Len(c) + n
         /\ \A j \in 1 .. Len(c) + n :
              (c \o [i \in 1 .. n |-> e])[j] = IF j <= Len(c) THEN c[j] ELSE e
<1> DEFINE d == [i \in 1 .. n |-> e]
<1>1. d \in Seq(S) /\ Len(d) = n
  OBVIOUS
<1>2. \A j \in 1 .. n : d[j] = e
  OBVIOUS
<1> HIDE DEF d
<1>3. /\ c \o d \in Seq(S) /\ Len(c \o d) = Len(c) + Len(d)
      /\ \A j \in 1 .. Len(c) + Len(d) :
           (c \o d)[j] = IF j <= Len(c) THEN c[j] ELSE d[j - Len(c)]
  BY <1>1, ConcatProperties
<1>4. Len(c) \in Nat
  BY LenProperties
<1> QED BY <1>1, <1>2, <1>3, <1>4 DEF d

-----------------------------------------------------------------------------
(* How many entries the buckets count: all are full but the last that is   *)
(* not empty.                                                              *)
PkCount == Cardinality(Pack!Live)
PkFill(n, b) ==
  IF n <= Pack!Start(b) THEN 0
  ELSE IF n >= Pack!Start(b) + Entries THEN Entries ELSE n - Pack!Start(b)
PkFilled(n) ==
  n \in 0 .. Len(cells) /\ \A b \in DOMAIN last : last[b] = PkFill(n, b)

(* A thread that holds the lock: it adds an entry behind the last one, or  *)
(* moves the last one into the gap.                                        *)
PkAdding == {"write_key", "count"}
PkMoving == {"move_val", "move_key", "uncount"}
PkGetting == {"get_last", "get_val", "get_key", "get_again"}

(* What a thread can be doing in which call.  What a search is at is       *)
(* counted, if nothing has moved since it began.                           *)
PkControl(t) ==
  /\ pc[t] \in {"idle"} \cup PkMoving <=> call[t] = Pack!Idle
  /\ pc[t] \in PkGetting => call[t].op = "get"
  /\ pc[t] \in {"exists_last", "exists", "lock"}
       => call[t].op \in {"put", "remove"}
  /\ pc[t] \in PkAdding => call[t].op = "put"
  /\ pc[t] \in {"get_val", "exists"} => idx[t] \in 0 .. Entries
  /\ pc[t] \in {"get_key", "get_again"} => idx[t] \in 1 .. Entries
PkCounted(t) ==
  ~moved[t] /\ pc[t] \in {"get_val", "get_key", "get_again", "exists"}
    => idx[t] = 0 \/ Pack!Here(t) <= PkCount

(* What the holder of the lock is writing.                                 *)
PkEntryOk(t) ==
  /\ pc[t] \in PkAdding \cup PkMoving => lock = t
  /\ pc[t] \in PkAdding =>
       /\ idx[t] = PkCount + 1 /\ idx[t] \in DOMAIN cells
       /\ \A i \in 1 .. PkCount : cells[i].key # call[t].key
       /\ cells[idx[t]].val = call[t].val
  /\ Pack!At(t, "count") => cells[idx[t]].key = call[t].key
  /\ pc[t] \in PkMoving => idx[t] \in 1 .. PkCount
  /\ pc[t] \in {"move_val", "move_key"} => cells[idx[t]].key = NoKey
  /\ pc[t] \in {"move_key", "uncount"} =>
       cells[idx[t]].val = cells[PkCount].val
  /\ Pack!At(t, "uncount") =>
       /\ cells[idx[t]].key = cells[PkCount].key
       /\ idx[t] = PkCount => cells[idx[t]].key = NoKey

(* A key has one entry, but for the two that a move leaves in between.     *)
PkGap(i) == \E t \in Threads : pc[t] \in PkMoving /\ idx[t] = i
PkTwice(i, j) ==
  \E t \in Threads : Pack!At(t, "uncount") /\ {i, j} = {idx[t], PkCount}
PkKeysOk ==
  \A i \in 1 .. PkCount :
    /\ cells[i].key \in Keys => cells[i].val \in Pack!Vals
    /\ cells[i].key \in Keys \/ PkGap(i)
    /\ \A j \in 1 .. PkCount :
         cells[i].key \in Keys /\ cells[j].key = cells[i].key
           => i = j \/ PkTwice(i, j)

PkState ==
  /\ Pack!TypeOK
  /\ PkFilled(PkCount)
  /\ PkKeysOk
  /\ \A t \in Threads : PkControl(t) /\ PkCounted(t) /\ PkEntryOk(t)

(* What a search has still to read, unless an entry is moved.              *)
PkAhead(t, j) ==
  /\ j > Pack!Start(bucket[t])
  /\ \/ pc[t] \in {"get_last", "exists_last"}
     \/ j <= Pack!Here(t)
     \/ full[t] /\ j > Pack!Start(bucket[t]) + Entries

(* What a call has seen of its key.                                        *)
PkSeenAbsent(t) == Pack!NoVal \in seen[t]
PkLooks(t) ==
  pc[t] \in {"get_last", "get_val", "get_key", "exists_last", "exists"}
PkSearchOk(t) ==
  /\ PkLooks(t) =>
       PkSeenAbsent(t) \/ \E j \in 1 .. PkCount :
                            cells[j].key = call[t].key /\ PkAhead(t, j)
  /\ Pack!At(t, "get_key") /\ Pack!Found(t)
       => cells[Pack!Here(t)].val = cur[t]
  /\ Pack!At(t, "get_again") =>
       /\ cur[t] \in seen[t]
       /\ cells[Pack!Here(t)].val = cur[t] \/ PkSeenAbsent(t)
       /\ Pack!Found(t) \/ PkSeenAbsent(t)
PkCallOk(t) ==
  /\ call[t] # Pack!Idle => Pack!Store[call[t].key] \in seen[t]
  /\ call[t] = Pack!Idle => seen[t] = {}
  /\ ~moved[t] => PkSearchOk(t)

PkCalls == \A t \in Threads : PkCallOk(t)
PkInv == PkState /\ PkCalls
-----------------------------------------------------------------------------
PkKeys == Keys \cup {NoKey}
PkVals == Pack!Vals \cup {Pack!NoVal}

PkLocalType ==
  /\ call \in [Threads -> Pack!Calls]
  /\ pc \in [Threads -> Pack!Labels]
  /\ idx \in [Threads -> Nat]
  /\ cur \in [Threads -> PkVals]
  /\ ret \in [Threads -> PkVals \cup {0, 1}]
PkPlaceType ==
  /\ bucket \in [Threads -> 1 .. Len(last)]
  /\ full \in [Threads -> BOOLEAN] /\ moved \in [Threads -> BOOLEAN]
PkSharedType ==
  /\ cells \in Seq([key : PkKeys, val : PkVals])
  /\ lock \in Threads \cup {NoThread}
  /\ puts \in 0 .. MaxPuts
  /\ last \in Seq(0 .. Entries) /\ Len(cells) = Len(last) * Entries
PkSeenType == seen \in [Threads -> SUBSET PkVals]

LEMMA PkTypeParts ==
  Pack!TypeOK <=> PkLocalType /\ PkPlaceType /\ PkSharedType /\ PkSeenType
BY DEF Pack!TypeOK, Pack!CallsTypeOK, PkLocalType, PkPlaceType, PkSharedType,
       PkSeenType, PkKeys, PkVals

LEMMA PkStateParts ==
  ASSUME PkState
  PROVE  /\ PkLocalType /\ PkPlaceType /\ PkSharedType /\ PkSeenType
         /\ PkFilled(PkCount) /\ PkKeysOk
         /\ \A t \in Threads : PkControl(t) /\ PkCounted(t) /\ PkEntryOk(t)
BY PkTypeParts DEF PkState

LEMMA PkCallTypes ==
  /\ Pack!Idle \in Pack!Calls
  /\ \A k \in Keys, op \in {"get", "remove"} :
       [op |-> op, key |-> k, val |-> Pack!NoVal] \in Pack!Calls
  /\ \A k \in Keys, v \in Pack!Vals :
       [op |-> "put", key |-> k, val |-> v] \in Pack!Calls
  /\ \A c \in Pack!Calls :
       /\ c.val \in PkVals /\ c.key \in PkKeys
       /\ c # Pack!Idle => c.key \in Keys /\ c.op # "none"
       /\ c.op # "none" => c # Pack!Idle
       /\ c.op = "put" => c.val \in Pack!Vals /\ c.key \in Keys
  /\ Pack!Idle.op = "none" /\ Pack!Idle.val = Pack!NoVal
BY DEF Pack!Calls, Pack!Idle, PkKeys, PkVals

LEMMA PkValueFacts ==
  /\ Pack!NoVal = 0 /\ Pack!NoVal \notin Pack!Vals
  /\ Pack!Vals \subseteq Nat /\ Pack!Vals \subseteq PkVals
  /\ 0 \in PkVals /\ Pack!NoVal \in PkVals
  /\ MaxPuts \in Nat
BY CallsAssumption DEF Pack!Vals, Pack!NoVal, PkVals

(* The call of a thread.                                                   *)
LEMMA PkCallOf ==
  ASSUME PkLocalType, NEW t \in Threads, PkControl(t)
  PROVE  /\ pc[t] \notin {"idle"} \cup PkMoving
              => call[t].key \in Keys /\ call[t] # Pack!Idle
         /\ call[t].op = "put" => call[t].val \in Pack!Vals
         /\ call[t].val \in PkVals /\ call[t].key \in PkKeys
<1>1. call[t] \in Pack!Calls
  BY DEF PkLocalType
<1>2. pc[t] \notin {"idle"} \cup PkMoving => call[t] # Pack!Idle
  BY DEF PkControl
<1> QED BY <1>1, <1>2, PkCallTypes

(* The entries.                                                            *)
LEMMA PkCellType ==
  ASSUME PkSharedType
  PROVE  /\ Len(cells) \in Nat /\ DOMAIN cells = 1 .. Len(cells)
         /\ \A i \in DOMAIN cells :
              cells[i].key \in PkKeys /\ cells[i].val \in PkVals
<1>1. Len(cells) \in Nat /\ DOMAIN cells = 1 .. Len(cells)
  BY LenProperties DEF PkSharedType
<1>2. cells \in Seq([key : PkKeys, val : PkVals])
  BY DEF PkSharedType
<1>3. \A i \in 1 .. Len(cells) : cells[i] \in [key : PkKeys, val : PkVals]
  BY <1>2, ElementOfSeq
<1> QED
  BY <1>1, <1>3

PkKeyTo(i, k) ==
  /\ cells' \in Seq([key : PkKeys, val : PkVals])
  /\ Len(cells') = Len(cells) /\ DOMAIN cells' = DOMAIN cells
  /\ \A j \in DOMAIN cells :
       /\ cells'[j].key = IF j = i THEN k ELSE cells[j].key
       /\ cells'[j].val = cells[j].val
PkValTo(i, v) ==
  /\ cells' \in Seq([key : PkKeys, val : PkVals])
  /\ Len(cells') = Len(cells) /\ DOMAIN cells' = DOMAIN cells
  /\ \A j \in DOMAIN cells :
       /\ cells'[j].val = IF j = i THEN v ELSE cells[j].val
       /\ cells'[j].key = cells[j].key
PkLonger(k, v) ==
  /\ cells' \in Seq([key : PkKeys, val : PkVals])
  /\ Len(cells') = Len(cells) + Entries
  /\ DOMAIN cells' = 1 .. Len(cells) + Entries
  /\ \A j \in DOMAIN cells : cells'[j] = cells[j]
  /\ cells'[Len(cells) + 1].key = k /\ cells'[Len(cells) + 1].val = v

LEMMA PkSetKeyTo ==
  ASSUME PkSharedType, NEW i \in DOMAIN cells, NEW k \in PkKeys,
         cells' = Pack!SetKey(i, k)
  PROVE  PkKeyTo(i, k)
<1> DEFINE S == [key : PkKeys, val : PkVals]
           e == [cells[i] EXCEPT !.key = k]
           d == [cells EXCEPT ![i] = e]
<1>1. /\ i \in 1 .. Len(cells) /\ DOMAIN cells = 1 .. Len(cells)
      /\ cells \in Seq(S)
  BY PkCellType DEF PkSharedType
<1>2. cells[i] \in S
  BY <1>1, ElementOfSeq
<1>3. e \in S /\ e.key = k /\ e.val = cells[i].val
  BY <1>2
<1>4. cells' = d
  BY DEF Pack!SetKey
<1> HIDE DEF S, e
<1>5. /\ d \in Seq(S) /\ Len(d) = Len(cells)
      /\ \A j \in 1 .. Len(cells) : d[j] = IF j = i THEN e ELSE cells[j]
  BY <1>1, <1>3, ExceptSeq
<1> HIDE DEF d
<1>6. DOMAIN d = 1 .. Len(d)
  BY <1>5, LenProperties
<1> QED BY <1>1, <1>3, <1>4, <1>5, <1>6 DEF PkKeyTo, S

LEMMA PkSetValTo ==
  ASSUME PkSharedType, NEW i \in DOMAIN cells, NEW v \in PkVals,
         cells' = Pack!SetVal(i, v)
  PROVE  PkValTo(i, v)
<1> DEFINE S == [key : PkKeys, val : PkVals]
           e == [cells[i] EXCEPT !.val = v]
           d == [cells EXCEPT ![i] = e]
<1>1. /\ i \in 1 .. Len(cells) /\ DOMAIN cells = 1 .. Len(cells)
      /\ cells \in Seq(S)
  BY PkCellType DEF PkSharedType
<1>2. cells[i] \in S
  BY <1>1, ElementOfSeq
<1>3. e \in S /\ e.val = v /\ e.key = cells[i].key
  BY <1>2
<1>4. cells' = d
  BY DEF Pack!SetVal
<1> HIDE DEF S, e
<1>5. /\ d \in Seq(S) /\ Len(d) = Len(cells)
      /\ \A j \in 1 .. Len(cells) : d[j] = IF j = i THEN e ELSE cells[j]
  BY <1>1, <1>3, ExceptSeq
<1> HIDE DEF d
<1>6. DOMAIN d = 1 .. Len(d)
  BY <1>5, LenProperties
<1> QED BY <1>1, <1>3, <1>4, <1>5, <1>6 DEF PkValTo, S

LEMMA PkLinkedLonger ==
  ASSUME PkSharedType, NEW k \in PkKeys, NEW v \in PkVals,
         cells' = [Pack!Linked(Pack!NoVal) EXCEPT
                     ![Len(cells) + 1] = [key |-> k, val |-> v]]
  PROVE  PkLonger(k, v)
<1> DEFINE S == [key : PkKeys, val : PkVals]
           e == [key |-> NoKey, val |-> Pack!NoVal]
           f == [key |-> k, val |-> v]
           d == cells \o [i \in 1 .. Entries |-> e]
           g == [d EXCEPT ![Len(cells) + 1] = f]
<1>1. /\ DOMAIN cells = 1 .. Len(cells) /\ Len(cells) \in Nat
      /\ Entries \in Nat \ {0}
  BY PkCellType, CallsAssumption
<1>2. /\ e \in S /\ f \in S /\ cells \in Seq(S)
      /\ f.key = k /\ f.val = v
  BY PkValueFacts DEF PkKeys, PkSharedType
<1>3. cells' = g
  BY DEF Pack!Linked
<1> HIDE DEF e, f, S
<1>4. /\ d \in Seq(S) /\ Len(d) = Len(cells) + Entries
      /\ \A j \in 1 .. Len(cells) + Entries :
           d[j] = IF j <= Len(cells) THEN cells[j] ELSE e
  BY <1>1, <1>2, BucketLinked
<1> HIDE DEF d
<1>5. /\ g \in Seq(S) /\ Len(g) = Len(cells) + Entries
      /\ \A j \in 1 .. Len(d) :
           g[j] = IF j = Len(cells) + 1 THEN f ELSE d[j]
  BY <1>1, <1>2, <1>4, ExceptSeq
<1> HIDE DEF g
<1>6. DOMAIN g = 1 .. Len(g)
  BY <1>5, LenProperties
<1>7. Len(cells) + 1 \in 1 .. Len(cells) + Entries
  BY <1>1
<1>8. \A j \in 1 .. Len(cells) : j \in 1 .. Len(d) /\ j # Len(cells) + 1
                                 /\ g[j] = cells[j]
  BY <1>1, <1>4, <1>5
<1>9. g[Len(cells) + 1] = f
  BY <1>4, <1>5, <1>7
<1> QED BY <1>1, <1>2, <1>3, <1>5, <1>6, <1>8, <1>9 DEF PkLonger, S

-----------------------------------------------------------------------------
(* Where the buckets begin, and which one an entry belongs to.             *)
LEMMA PkStarts ==
  ASSUME NEW b \in Nat \ {0}
  PROVE  /\ Pack!Start(b) \in Nat /\ Entries \in Nat \ {0}
         /\ Pack!Start(b + 1) = Pack!Start(b) + Entries
         /\ \A c \in Nat : b < c => Pack!Start(b) + Entries <= Pack!Start(c)
<1>1. Entries \in Nat \ {0}
  BY CallsAssumption
<1>2. Pack!Start(b) \in Nat
  <2>1. b - 1 \in Nat
    OBVIOUS
  <2> QED BY <1>1, <2>1 DEF Pack!Start
<1>3. /\ Pack!Start(b + 1) = Pack!Start(b) + Entries
      /\ Pack!Start(b + 1) = b * Entries
  <2>1. (b + 1) - 1 = b /\ b * Entries = (b - 1) * Entries + Entries
    BY <1>1
  <2> QED BY <2>1 DEF Pack!Start
<1>4. ASSUME NEW c \in Nat, b < c
      PROVE  Pack!Start(b) + Entries <= Pack!Start(c)
  <2>1. b * Entries <= (c - 1) * Entries
    <3>1. c - 1 \in Nat /\ b <= c - 1
      BY <1>4
    <3> QED BY <1>1, <3>1, TimesMonotone
  <2> QED BY <1>3, <2>1 DEF Pack!Start
<1> QED BY <1>1, <1>2, <1>3, <1>4

LEMMA PkBuckets ==
  ASSUME NEW i \in Nat \ {0}
  PROVE  /\ Pack!Bucket(i) \in Nat \ {0}
         /\ Pack!Start(Pack!Bucket(i)) < i
         /\ i <= Pack!Start(Pack!Bucket(i)) + Entries
         /\ \A b \in Nat \ {0} :
              Pack!Start(b) < i /\ i <= Pack!Start(b) + Entries
                => b = Pack!Bucket(i)
<1> DEFINE q == (i - 1) \div Entries
           B == Pack!Bucket(i)
<1>1. Entries \in Nat \ {0}
  BY CallsAssumption
<1>2. q \in Nat /\ q * Entries <= i - 1 /\ i - 1 < q * Entries + Entries
  <2>1. i - 1 \in Nat
    OBVIOUS
  <2> QED BY <1>1, <2>1
<1> HIDE DEF q
<1>3. B \in Nat \ {0} /\ B - 1 = q
  BY <1>2 DEF Pack!Bucket, q
<1> HIDE DEF B
<1>4. Pack!Start(B) < i /\ i <= Pack!Start(B) + Entries
  BY <1>1, <1>2, <1>3 DEF Pack!Start
<1>5. ASSUME NEW b \in Nat \ {0},
             Pack!Start(b) < i, i <= Pack!Start(b) + Entries
      PROVE  b = B
  <2>1. Pack!Start(b) \in Nat /\ Pack!Start(B) \in Nat
    BY <1>3, PkStarts
  <2>2. ~(b < B)
    BY <1>1, <1>3, <1>4, <1>5, <2>1, PkStarts
  <2>3. ~(B < b)
    BY <1>1, <1>3, <1>4, <1>5, <2>1, PkStarts
  <2> QED BY <1>3, <2>2, <2>3
<1> QED BY <1>3, <1>4, <1>5 DEF B

(* The buckets of the chain.                                               *)
LEMMA PkChainType ==
  ASSUME PkSharedType
  PROVE  /\ Len(last) \in Nat /\ DOMAIN last = 1 .. Len(last)
         /\ Len(cells) \in Nat /\ DOMAIN cells = 1 .. Len(cells)
         /\ Len(cells) = Len(last) * Entries
         /\ \A b \in DOMAIN last : last[b] \in 0 .. Entries
         /\ \A b \in DOMAIN last : Pack!Start(b) + Entries <= Len(cells)
         /\ \A i \in DOMAIN cells : Pack!Bucket(i) \in DOMAIN last
<1>1. /\ Len(last) \in Nat /\ DOMAIN last = 1 .. Len(last)
      /\ Len(cells) \in Nat /\ DOMAIN cells = 1 .. Len(cells)
      /\ Len(cells) = Len(last) * Entries
  BY LenProperties, PkCellType DEF PkSharedType
<1>2. \A b \in DOMAIN last : last[b] \in 0 .. Entries
  BY <1>1, ElementOfSeq DEF PkSharedType
<1>3. Entries \in Nat \ {0}
  BY CallsAssumption
<1>4. ASSUME NEW b \in DOMAIN last
      PROVE  Pack!Start(b) + Entries <= Len(cells)
  <2>1. b \in Nat \ {0} /\ b <= Len(last)
    BY <1>1
  <2>2. Pack!Start(b) + Entries = b * Entries
    BY <1>3, <2>1 DEF Pack!Start
  <2>3. b * Entries <= Len(last) * Entries
    BY <1>1, <1>3, <2>1, TimesMonotone
  <2> QED BY <1>1, <2>2, <2>3
<1>5. ASSUME NEW i \in DOMAIN cells
      PROVE  Pack!Bucket(i) \in DOMAIN last
  <2>1. i \in Nat \ {0} /\ i <= Len(cells)
    BY <1>1
  <2>2. /\ Pack!Bucket(i) \in Nat \ {0}
        /\ Pack!Start(Pack!Bucket(i)) < i
    BY <2>1, PkBuckets
  <2>3. ASSUME Len(last) < Pack!Bucket(i) PROVE FALSE
    <3> DEFINE e == Len(last) + 1
               b == Pack!Bucket(i)
    <3>1. Pack!Start(e) = Len(cells)
      BY <1>1 DEF Pack!Start
    <3>2. e \in Nat \ {0} /\ b \in Nat \ {0} /\ e <= b
          /\ Pack!Start(b) < i
      BY <1>1, <2>2, <2>3
    <3> HIDE DEF e, b
    <3>3. Pack!Start(e) \in Nat /\ Pack!Start(b) \in Nat
      BY <3>2, PkStarts
    <3>4. Pack!Start(e) <= Pack!Start(b)
      <4>1. CASE e = b
        BY <3>3, <4>1
      <4>2. CASE e < b
        <5>1. Pack!Start(e) + Entries <= Pack!Start(b)
          BY <3>2, <4>2, PkStarts
        <5> QED BY <1>3, <3>3, <5>1
      <4> QED BY <3>2, <4>1, <4>2
    <3> QED BY <1>1, <2>1, <3>1, <3>2, <3>3, <3>4
  <2> QED BY <1>1, <2>2, <2>3
<1> QED BY <1>1, <1>2, <1>4, <1>5

(* The entries that are counted are the first ones of the chain.           *)
PkCountsTo(n) == PkFilled(n) => Pack!Live = 1 .. n /\ PkCount = n
PkAllCounts == \A n \in Nat : PkCountsTo(n)
LEMMA PkCounts == PkSharedType => PkAllCounts
<1> SUFFICES ASSUME PkSharedType, NEW n \in Nat, PkFilled(n)
             PROVE  Pack!Live = 1 .. n /\ PkCount = n
  BY DEF PkAllCounts, PkCountsTo
<1>1. /\ n \in 0 .. Len(cells)
      /\ \A b \in DOMAIN last : last[b] = PkFill(n, b)
      /\ Entries \in Nat \ {0}
      /\ Len(last) \in Nat /\ DOMAIN last = 1 .. Len(last)
      /\ Len(cells) \in Nat /\ DOMAIN cells = 1 .. Len(cells)
  BY CallsAssumption, PkChainType DEF PkFilled
<1>2. ASSUME NEW i \in Pack!Live PROVE i \in 1 .. n
  <2>1. PICK b \in DOMAIN last :
          i \in Pack!Start(b) + 1 .. Pack!Start(b) + last[b]
    BY <1>2 DEF Pack!Live
  <2>2. b \in Nat \ {0} /\ last[b] = PkFill(n, b)
    BY <1>1, <2>1
  <2>3. Pack!Start(b) \in Nat
    BY <2>2, PkStarts
  <2> QED BY <1>1, <2>1, <2>2, <2>3 DEF PkFill
<1>3. ASSUME NEW i \in 1 .. n PROVE i \in Pack!Live
  <2> DEFINE b == Pack!Bucket(i)
  <2>0. i \in Nat \ {0} /\ i \in DOMAIN cells
    BY <1>1, <1>3
  <2>1. /\ b \in DOMAIN last /\ b \in Nat \ {0}
        /\ Pack!Start(b) < i /\ i <= Pack!Start(b) + Entries
    BY <2>0, PkBuckets, PkChainType
  <2> HIDE DEF b
  <2>2. Pack!Start(b) \in Nat /\ last[b] = PkFill(n, b)
    BY <1>1, <2>1, PkStarts
  <2>3. i \in Pack!Start(b) + 1 .. Pack!Start(b) + last[b]
    BY <1>1, <1>3, <2>1, <2>2 DEF PkFill
  <2> QED BY <2>1, <2>3 DEF Pack!Live
<1>4. Pack!Live = 1 .. n
  BY <1>2, <1>3
<1>5. Cardinality(1 .. n) = n
  BY <1>1, FS_Interval
<1> QED BY <1>4, <1>5 DEF PkCount

LEMMA PkLive ==
  ASSUME PkSharedType, PkFilled(PkCount)
  PROVE  /\ PkCount \in Nat /\ PkCount <= Len(cells)
         /\ Pack!Live = 1 .. PkCount /\ 1 .. PkCount \subseteq DOMAIN cells
         /\ \A b \in DOMAIN last : last[b] = PkFill(PkCount, b)
<1>1. PkCount \in 0 .. Len(cells) /\ Len(cells) \in Nat
      /\ DOMAIN cells = 1 .. Len(cells)
  BY PkChainType DEF PkFilled
<1>2. PkCountsTo(PkCount)
  BY <1>1, PkCounts DEF PkAllCounts
<1> QED BY <1>1, <1>2 DEF PkCountsTo, PkFilled

-----------------------------------------------------------------------------
(* What the holder of the lock finds.                                      *)

(* The bucket of an entry: those before it are full if the entry counts,   *)
(* and those behind it are empty if the entry is the last that counts.     *)
LEMMA PkAround ==
  ASSUME PkSharedType, PkFilled(PkCount), NEW i \in DOMAIN cells
  PROVE  /\ Pack!Bucket(i) \in DOMAIN last
         /\ i <= PkCount + 1 => \A c \in DOMAIN last :
              c < Pack!Bucket(i) => last[c] = Entries
         /\ i >= PkCount => \A c \in DOMAIN last :
              c > Pack!Bucket(i) => last[c] = 0
         /\ i \in {PkCount, PkCount + 1} => last[Pack!Bucket(i)] =
                                   PkCount - Pack!Start(Pack!Bucket(i))
<1> DEFINE B == Pack!Bucket(i)
<1>1. /\ PkCount \in Nat /\ Entries \in Nat \ {0}
      /\ \A b \in DOMAIN last : last[b] = PkFill(PkCount, b)
      /\ DOMAIN last \subseteq Nat \ {0} /\ i \in Nat \ {0}
  BY CallsAssumption, PkLive, PkChainType
<1>2. B \in DOMAIN last /\ Pack!Start(B) < i /\ i <= Pack!Start(B) + Entries
  BY <1>1, PkBuckets, PkChainType
<1> HIDE DEF B
<1>3. B \in Nat \ {0}
  BY <1>1, <1>2
<1>4. Pack!Start(B) \in Nat
  BY <1>3, PkStarts
<1>5. ASSUME NEW c \in DOMAIN last, c < B, i <= PkCount + 1
      PROVE  last[c] = Entries
  <2>1. c \in Nat \ {0} /\ last[c] = PkFill(PkCount, c)
    BY <1>1
  <2>2. Pack!Start(c) \in Nat /\ Pack!Start(c) + Entries <= Pack!Start(B)
    BY <1>3, <1>5, <2>1, PkStarts
  <2> QED BY <1>1, <1>2, <1>4, <1>5, <2>1, <2>2 DEF PkFill
<1>6. ASSUME NEW c \in DOMAIN last, c > B, i >= PkCount
      PROVE  last[c] = 0
  <2>1. c \in Nat \ {0} /\ last[c] = PkFill(PkCount, c)
    BY <1>1
  <2>2. Pack!Start(c) \in Nat /\ Pack!Start(B) + Entries <= Pack!Start(c)
    BY <1>3, <1>6, <2>1, PkStarts
  <2> QED BY <1>1, <1>2, <1>4, <1>6, <2>1, <2>2 DEF PkFill
<1>7. i \in {PkCount, PkCount + 1} => last[B] = PkCount - Pack!Start(B)
  <2>1. last[B] = PkFill(PkCount, B)
    BY <1>1, <1>2
  <2> QED BY <1>1, <1>2, <1>4, <2>1 DEF PkFill
<1> QED BY <1>2, <1>5, <1>6, <1>7 DEF B

(* The entries that are counted are within what a search looks at.         *)
LEMMA PkAllSearched ==
  ASSUME PkSharedType, PkFilled(PkCount)
  PROVE  Pack!Live \subseteq
           UNION {Pack!Start(b) + 1 .. Pack!Start(b) + Entries :
                    b \in Pack!Searched}
<1>1. /\ PkCount \in Nat /\ Pack!Live = 1 .. PkCount
      /\ 1 .. PkCount \subseteq DOMAIN cells
      /\ DOMAIN last = 1 .. Len(last) /\ Len(last) \in Nat
  BY PkLive, PkChainType
<1>2. ASSUME NEW i \in 1 .. PkCount
      PROVE  i \in UNION {Pack!Start(b) + 1 .. Pack!Start(b) + Entries :
                            b \in Pack!Searched}
  <2> DEFINE b == Pack!Bucket(i)
  <2>1. i \in Nat \ {0} /\ i \in DOMAIN cells /\ i <= PkCount + 1
    BY <1>1
  <2>2. /\ b \in DOMAIN last
        /\ \A c \in DOMAIN last : c < b => last[c] = Entries
    BY <2>1, PkAround
  <2>3. Pack!Start(b) < i /\ i <= Pack!Start(b) + Entries
    BY <2>1, PkBuckets
  <2> HIDE DEF b
  <2>4. b \in Pack!Searched
    BY <1>1, <2>2 DEF Pack!Searched
  <2>5. i \in Pack!Start(b) + 1 .. Pack!Start(b) + Entries
    <3>1. b \in Nat \ {0}
      BY <1>1, <2>2
    <3>2. Pack!Start(b) \in Nat /\ Entries \in Nat
      BY <3>1, PkStarts
    <3> QED BY <2>1, <2>3, <3>2
  <2> QED BY <2>4, <2>5
<1> QED BY <1>1, <1>2

LEMMA PkMatch ==
  ASSUME PkSharedType, PkFilled(PkCount), NEW t
  PROVE  Pack!Match(t) = {i \in 1 .. PkCount : cells[i].key = call[t].key}
<1>1. Pack!Live = 1 .. PkCount /\ 1 .. PkCount \subseteq DOMAIN cells
  BY PkLive
<1> QED BY <1>1, PkAllSearched DEF Pack!Match, Pack!Having

(* The first bucket with room is that of the entry behind the last one.    *)
LEMMA PkRoom ==
  ASSUME PkSharedType, PkFilled(PkCount)
  PROVE  /\ Pack!Room = {} <=> PkCount = Len(cells)
         /\ PkCount < Len(cells) =>
              Pack!Start(Pack!Min(Pack!Room)) + last[Pack!Min(Pack!Room)] + 1
                = PkCount + 1
<1>1. /\ PkCount \in Nat /\ PkCount <= Len(cells)
      /\ \A b \in DOMAIN last : last[b] = PkFill(PkCount, b)
      /\ DOMAIN last = 1 .. Len(last) /\ Len(last) \in Nat
      /\ DOMAIN cells = 1 .. Len(cells) /\ Len(cells) \in Nat
      /\ Entries \in Nat \ {0}
  BY CallsAssumption, PkLive, PkChainType
<1>2. ASSUME PkCount = Len(cells), NEW b \in DOMAIN last
      PROVE  last[b] = Entries
  <2>1. b \in Nat \ {0} /\ Pack!Start(b) + Entries <= Len(cells)
    BY <1>1, PkChainType
  <2>2. Pack!Start(b) \in Nat
    BY <2>1, PkStarts
  <2> QED BY <1>1, <1>2, <2>1, <2>2 DEF PkFill
<1>3. PkCount = Len(cells) => Pack!Room = {}
  BY <1>1, <1>2 DEF Pack!Room, Pack!Searched
<1>4. ASSUME PkCount < Len(cells)
      PROVE  /\ Pack!Room # {}
             /\ Pack!Start(Pack!Min(Pack!Room)) + last[Pack!Min(Pack!Room)]
                  + 1 = PkCount + 1
  <2> DEFINE b == Pack!Bucket(PkCount + 1)
  <2>1. PkCount + 1 \in DOMAIN cells /\ PkCount + 1 \in Nat \ {0}
    BY <1>1, <1>4
  <2>2. /\ b \in DOMAIN last
        /\ \A c \in DOMAIN last : c < b => last[c] = Entries
        /\ last[b] = PkCount - Pack!Start(b)
    BY <1>1, <2>1, PkAround
  <2>3. /\ b \in Nat \ {0}
        /\ Pack!Start(b) < PkCount + 1
        /\ PkCount + 1 <= Pack!Start(b) + Entries
    BY <2>1, PkBuckets
  <2> HIDE DEF b
  <2>4. Pack!Start(b) \in Nat
    BY <2>3, PkStarts
  <2>5. last[b] < Entries
    BY <1>1, <2>2, <2>3, <2>4
  <2>6. b \in Pack!Room
    BY <1>1, <2>2, <2>5 DEF Pack!Room, Pack!Searched
  <2>7. ASSUME NEW c \in Pack!Room PROVE c = b
    <3>1. /\ c \in 1 .. Len(last) /\ last[c] < Entries
          /\ \A d \in 1 .. c - 1 : last[d] = Entries
      BY <1>1 DEF Pack!Room, Pack!Searched
    <3>2. ~(c < b)
      BY <1>1, <2>2, <3>1
    <3>3. ~(b < c)
      BY <1>1, <2>2, <2>3, <2>5, <3>1
    <3> QED BY <2>3, <3>1, <3>2, <3>3
  <2>8. Pack!Room = {b}
    BY <2>6, <2>7
  <2>9. Pack!Min(Pack!Room) = b
    BY <2>3, <2>8 DEF Pack!Min
  <2> QED BY <1>1, <2>2, <2>4, <2>8, <2>9
<1>5. PkCount < Len(cells) \/ PkCount = Len(cells)
  <2>1. PkCount \in Nat /\ Len(cells) \in Nat /\ PkCount <= Len(cells)
    BY <1>1
  <2> QED BY <2>1
<1>6. PkCount < Len(cells) => Pack!Room # {}
  BY <1>4
<1>7. PkCount < Len(cells) =>
        Pack!Start(Pack!Min(Pack!Room)) + last[Pack!Min(Pack!Room)] + 1
          = PkCount + 1
  BY <1>4
<1> QED BY <1>3, <1>5, <1>6, <1>7

(* The last entry of the chain is the last that is counted.                *)
LEMMA PkBlast ==
  ASSUME PkSharedType, PkFilled(PkCount), NEW i \in 1 .. PkCount
  PROVE  /\ Pack!Blast(i).bucket = Pack!Bucket(PkCount)
         /\ Pack!Blast(i).entry = PkCount
<1> DEFINE B == Pack!Bucket(PkCount)
           A == Pack!Bucket(i)
           L == Len(last)
<1>1. /\ PkCount \in Nat \ {0} /\ PkCount \in DOMAIN cells
      /\ i \in Nat \ {0} /\ i \in DOMAIN cells /\ i <= PkCount
      /\ \A b \in DOMAIN last : last[b] = PkFill(PkCount, b)
      /\ DOMAIN last = 1 .. L /\ L \in Nat
      /\ Entries \in Nat \ {0}
  BY CallsAssumption, PkLive, PkChainType
<1>2. /\ B \in DOMAIN last
      /\ \A c \in DOMAIN last : c < B => last[c] = Entries
      /\ \A c \in DOMAIN last : c > B => last[c] = 0
      /\ last[B] = PkCount - Pack!Start(B)
  BY <1>1, PkAround
<1>3. /\ B \in Nat \ {0} /\ A \in Nat \ {0}
      /\ Pack!Start(B) < PkCount
      /\ i <= Pack!Start(A) + Entries /\ Pack!Start(A) < i
      /\ PkCount <= Pack!Start(B) + Entries
  BY <1>1, PkBuckets
<1> HIDE DEF A, B
<1>4. Pack!Start(B) \in Nat /\ Pack!Start(A) \in Nat
  BY <1>3, PkStarts
<1>5. A <= B
  <2>1. ASSUME B < A PROVE FALSE
    <3>1. Pack!Start(B) + Entries <= Pack!Start(A)
      BY <1>3, <2>1, PkStarts
    <3> QED BY <1>1, <1>3, <1>4, <3>1
  <2> QED BY <1>3, <2>1
<1>6. last[B] # 0
  BY <1>1, <1>2, <1>3, <1>4
<1> DEFINE Ends(b) == /\ \A c \in A + 1 .. b : last[c] # 0
                      /\ b < L => last[b + 1] = 0
<1>7. B \in A .. L /\ Ends(B)
  BY <1>1, <1>2, <1>3, <1>5, <1>6
<1>8. ASSUME NEW b \in A .. L, Ends(b) PROVE b = B
  <2>1. ~(b < B)
    <3>1. ASSUME b < B PROVE FALSE
      <4>1. /\ b + 1 \in DOMAIN last /\ b + 1 <= B /\ b < L
        BY <1>1, <1>2, <1>3, <3>1
      <4>2. last[b + 1] # 0
        BY <1>1, <1>2, <1>3, <1>6, <4>1
      <4> QED BY <1>8, <4>1, <4>2
    <3> QED BY <3>1
  <2>2. ~(B < b)
    BY <1>1, <1>2, <1>3, <1>5, <1>8
  <2> QED BY <1>3, <2>1, <2>2
<1>9. (CHOOSE b \in A .. L : Ends(b)) = B
  <2> HIDE DEF Ends
  <2> QED BY <1>7, <1>8
<1>10. /\ Pack!Blast(i).bucket = B
       /\ Pack!Blast(i).entry = Pack!Start(B) + last[B]
  BY <1>9 DEF Pack!Blast, A
<1> QED BY <1>1, <1>2, <1>4, <1>10 DEF B

-----------------------------------------------------------------------------
(* The step of one thread leaves the others alone.                         *)
PkStepOf(t) == Pack!Get(t) \/ Pack!Put(t) \/ Pack!Remove(t) \/ Pack!Work(t)

PkOthersSame(t) ==
  \A u \in Threads \ {t} :
    /\ pc'[u] = pc[u] /\ call'[u] = call[u] /\ idx'[u] = idx[u]
    /\ cur'[u] = cur[u] /\ ret'[u] = ret[u]
    /\ bucket'[u] = bucket[u] /\ full'[u] = full[u]

LEMMA PkStepOthers ==
  ASSUME PkLocalType, PkPlaceType, NEW t \in Threads, PkStepOf(t)
  PROVE  PkOthersSame(t)
<1> USE DEF PkLocalType, PkPlaceType, PkOthersSame, Pack!Goto, Pack!SetIdx,
            Pack!Read, Pack!Decide, Pack!Return, Pack!Hold, Pack!Finish,
            Pack!chain
<1>1. CASE Pack!Get(t) \/ Pack!Put(t) \/ Pack!Remove(t)
  BY <1>1
  DEF Pack!Get, Pack!Put, Pack!Remove, Pack!Start1, Pack!Begin
<1>2. CASE Pack!ReadLast(t)
  BY <1>2 DEF Pack!ReadLast
<1>3. CASE Pack!GetVal(t)
  BY <1>3 DEF Pack!GetVal, Pack!NextBucket
<1>4. CASE Pack!GetKey(t) \/ Pack!GetAgain(t)
  BY <1>4 DEF Pack!GetKey, Pack!GetAgain
<1>5. CASE Pack!Exists(t)
  BY <1>5 DEF Pack!Exists, Pack!ExistsDone, Pack!NextBucket
<1>6. CASE Pack!PutLocked(t)
  BY <1>6 DEF Pack!PutLocked
<1>7. CASE Pack!WriteKey(t) \/ Pack!Count(t)
  BY <1>7 DEF Pack!WriteKey, Pack!Count
<1>8. CASE Pack!RemoveLocked(t)
  BY <1>8 DEF Pack!RemoveLocked
<1>9. CASE Pack!MoveVal(t) \/ Pack!MoveKey(t) \/ Pack!Uncount(t)
  BY <1>9 DEF Pack!MoveVal, Pack!MoveKey, Pack!Uncount
<1> QED
  BY <1>1, <1>2, <1>3, <1>4, <1>5, <1>6, <1>7, <1>8, <1>9
  DEF PkStepOf, Pack!Work

-----------------------------------------------------------------------------
(* What a step does to the entries, their number and the lock.             *)
PkUnder == PkAdding \cup PkMoving
PkFreeFor(t) ==
  /\ Pack!At(t, "lock") /\ lock = NoThread /\ call[t].op = "put"
  /\ \A i \in 1 .. PkCount : cells[i].key # call[t].key
PkStaysIn(t) == lock' = t /\ call'[t] = call[t] /\ ret'[t] = ret[t]
PkNoMove(t) == \A u \in Threads \ {t} : moved'[u] = moved[u]
PkMoves == \A u \in Threads : moved'[u] = (call[u] # Pack!Idle \/ moved[u])

PkKeeps(t) ==
  /\ UNCHANGED <<cells, lock, last>> /\ PkNoMove(t)
  /\ pc[t] \notin PkUnder /\ pc'[t] \notin PkUnder
PkFills(t) ==
  /\ PkFreeFor(t) /\ PkStaysIn(t) /\ pc'[t] = "write_key"
  /\ PkCount < Len(cells) /\ idx'[t] = PkCount + 1
  /\ PkValTo(PkCount + 1, call[t].val) /\ UNCHANGED <<last, moved>>
PkLinks(t) ==
  /\ PkFreeFor(t) /\ PkStaysIn(t) /\ pc'[t] = "count"
  /\ PkCount = Len(cells) /\ idx'[t] = PkCount + 1
  /\ PkLonger(call[t].key, call[t].val)
  /\ last' = Append(last, 0) /\ UNCHANGED moved
PkNames(t) ==
  /\ Pack!At(t, "write_key") /\ PkStaysIn(t) /\ pc'[t] = "count"
  /\ idx'[t] = idx[t]
  /\ PkKeyTo(idx[t], call[t].key) /\ UNCHANGED <<last, moved>>
PkEnters(t) ==
  /\ Pack!At(t, "count") /\ lock' = NoThread /\ pc'[t] = "idle"
  /\ last' = [last EXCEPT ![Pack!Bucket(PkCount + 1)] = @ + 1]
  /\ UNCHANGED <<cells, moved>>
PkTakes(t) ==
  /\ Pack!At(t, "lock") /\ lock = NoThread /\ lock' = t
  /\ call[t].op = "remove" /\ pc'[t] = "move_val"
  /\ idx'[t] \in 1 .. PkCount /\ cells[idx'[t]].key = call[t].key
  /\ PkKeyTo(idx'[t], NoKey)
  /\ call'[t] = Pack!Idle /\ ret'[t] = cells[idx'[t]].val
  /\ UNCHANGED <<last, moved>>
PkCopiesVal(t) ==
  /\ Pack!At(t, "move_val") /\ PkStaysIn(t) /\ pc'[t] = "move_key"
  /\ idx'[t] = idx[t]
  /\ PkValTo(idx[t], cells[PkCount].val) /\ UNCHANGED <<last, moved>>
PkCopiesKey(t) ==
  /\ Pack!At(t, "move_key") /\ PkStaysIn(t) /\ pc'[t] = "uncount"
  /\ idx'[t] = idx[t]
  /\ PkKeyTo(idx[t], cells[PkCount].key) /\ PkMoves /\ UNCHANGED last
PkDrops(t) ==
  /\ Pack!At(t, "uncount") /\ lock' = NoThread /\ pc'[t] = "idle"
  /\ call'[t] = call[t] /\ ret'[t] = ret[t]
  /\ last' = [last EXCEPT ![Pack!Bucket(PkCount)] = @ - 1]
  /\ PkMoves /\ UNCHANGED cells

PkEffect(t) ==
  \/ PkKeeps(t) \/ PkFills(t) \/ PkLinks(t) \/ PkNames(t) \/ PkEnters(t)
  \/ PkTakes(t) \/ PkCopiesVal(t) \/ PkCopiesKey(t) \/ PkDrops(t)
PkGood(t) ==
  /\ PkLocalType' /\ PkPlaceType' /\ PkSharedType'
  /\ PkEffect(t) /\ PkControl(t)'

(* What all actions start from.                                            *)
PkReady(t) ==
  /\ PkLocalType /\ PkPlaceType /\ PkSharedType /\ PkFilled(PkCount)
  /\ PkControl(t) /\ PkEntryOk(t)

LEMMA PkBeginGood ==
  ASSUME NEW t \in Threads, PkReady(t),
         Pack!Get(t) \/ Pack!Put(t) \/ Pack!Remove(t)
  PROVE  PkGood(t)
<1> USE DEF PkReady, PkLocalType, Pack!Goto, Pack!SetIdx, Pack!At
<1>1. PICK op \in {"get", "put", "remove"}, k \in Keys,
           v \in Pack!Vals \cup {Pack!NoVal} :
        /\ call' = [call EXCEPT ![t] = [op |-> op, key |-> k, val |-> v]]
        /\ IF op = "put" THEN v \in Pack!Vals ELSE v = Pack!NoVal
        /\ pc' = [pc EXCEPT ![t] = IF op = "get" THEN "get_last"
                                   ELSE "exists_last"]
  <2>1. puts \in 0 .. MaxPuts /\ MaxPuts \in Nat
    BY PkValueFacts DEF PkSharedType
  <2>2. Pack!Put(t) => puts + 1 \in Pack!Vals
    BY <2>1 DEF Pack!Put, Pack!Start1, Pack!Begin, Pack!Vals
  <2> QED
    BY <2>2 DEF Pack!Get, Pack!Put, Pack!Remove, Pack!Start1, Pack!Begin
<1>2. call' \in [Threads -> Pack!Calls] /\ call'[t].op = op
      /\ call'[t] # Pack!Idle
  BY <1>1, PkCallTypes
<1>3. /\ pc' \in [Threads -> Pack!Labels] /\ idx' \in [Threads -> Nat]
      /\ cur' \in [Threads -> PkVals]
      /\ ret' \in [Threads -> PkVals \cup {0, 1}]
  BY <1>1, PkValueFacts
  DEF Pack!Get, Pack!Put, Pack!Remove, Pack!Start1, Pack!Begin, Pack!Labels
<1>4. /\ pc[t] = "idle"
      /\ pc'[t] = (IF op = "get" THEN "get_last" ELSE "exists_last")
      /\ UNCHANGED <<cells, lock, last>>
      /\ bucket' = [bucket EXCEPT ![t] = 1]
      /\ full' = [full EXCEPT ![t] = FALSE]
      /\ moved' = [moved EXCEPT ![t] = FALSE]
  BY <1>1
  DEF Pack!Get, Pack!Put, Pack!Remove, Pack!Start1, Pack!Begin
<1>5. puts' \in 0 .. MaxPuts
  BY PkValueFacts
  DEF PkSharedType, Pack!Get, Pack!Put, Pack!Remove, Pack!Start1, Pack!Begin
<1>6. PkSharedType'
  BY <1>4, <1>5 DEF PkSharedType
<1>7. PkPlaceType'
  <2>1. 1 \in 1 .. Len(last)
    <3>1. bucket[t] \in 1 .. Len(last) /\ Len(last) \in Nat
      BY PkChainType DEF PkPlaceType
    <3> QED BY <3>1
  <2> QED BY <1>4, <2>1 DEF PkPlaceType
<1>8. PkControl(t)'
  BY <1>2, <1>4 DEF PkControl, PkAdding, PkMoving, PkGetting
<1>9. PkKeeps(t)
  BY <1>4
  DEF PkKeeps, PkUnder, PkAdding, PkMoving, PkNoMove, PkPlaceType
<1> QED BY <1>2, <1>3, <1>6, <1>7, <1>8, <1>9 DEF PkGood, PkEffect

LEMMA PkReturnGood ==
  ASSUME PkLocalType, NEW t \in Threads, NEW r \in PkVals \cup {0, 1},
         Pack!Return(t, r)
  PROVE  /\ PkLocalType' /\ PkControl(t)'
         /\ pc'[t] = "idle" /\ pc'[t] \notin PkUnder
<1>1. /\ Pack!Idle \in Pack!Calls /\ Pack!Idle.op = "none"
      /\ Pack!NoVal \in PkVals /\ 1 \in Nat
  BY PkCallTypes, PkValueFacts
<1>2. PkLocalType' /\ pc'[t] = "idle" /\ call'[t] = Pack!Idle
  BY <1>1 DEF PkLocalType, Pack!Return, Pack!Decide, Pack!Goto, Pack!Read,
              Pack!SetIdx, Pack!Labels
<1> QED
  BY <1>2 DEF PkControl, Pack!At, PkUnder, PkAdding, PkMoving, PkGetting

(* The searches, with and without the lock.                                *)
PkSearching == PkGetting \cup {"exists_last", "exists"}
PkSearchGood(t) ==
  PkLocalType' /\ PkPlaceType' /\ PkControl(t)' /\ pc'[t] \notin PkUnder

LEMMA PkHereIn ==
  ASSUME NEW t \in Threads, PkReady(t), idx[t] \in 1 .. Entries
  PROVE  Pack!Here(t) \in DOMAIN cells
<1>1. /\ bucket[t] \in DOMAIN last /\ bucket[t] \in Nat \ {0}
      /\ DOMAIN cells = 1 .. Len(cells) /\ Len(cells) \in Nat
      /\ Pack!Start(bucket[t]) + Entries <= Len(cells)
  <2>1. bucket[t] \in 1 .. Len(last) /\ DOMAIN last = 1 .. Len(last)
        /\ Len(last) \in Nat
    BY PkChainType DEF PkReady, PkPlaceType
  <2> QED BY <2>1, PkChainType DEF PkReady
<1>2. Pack!Start(bucket[t]) \in Nat /\ Entries \in Nat \ {0}
  BY <1>1, PkStarts
<1> QED BY <1>1, <1>2 DEF Pack!Here

LEMMA PkReadLastGood ==
  ASSUME NEW t \in Threads, PkReady(t), Pack!ReadLast(t)
  PROVE  PkSearchGood(t)
<1>1. /\ last[bucket[t]] \in 0 .. Entries /\ 0 .. Entries \subseteq Nat
  <2>1. bucket[t] \in 1 .. Len(last) /\ DOMAIN last = 1 .. Len(last)
    BY PkChainType DEF PkReady, PkPlaceType
  <2> QED BY <2>1, PkChainType DEF PkReady
<1>2. /\ idx' = [idx EXCEPT ![t] = last[bucket[t]]]
      /\ full' = [full EXCEPT ![t] = last[bucket[t]] = Entries]
      /\ pc[t] \in {"get_last", "exists_last"}
      /\ pc' = [pc EXCEPT ![t] = IF pc[t] = "get_last" THEN "get_val"
                                 ELSE "exists"]
      /\ UNCHANGED <<call, cur, ret, bucket, moved, last>>
  BY DEF Pack!ReadLast, Pack!SetIdx, Pack!Goto, Pack!At
<1>3. PkLocalType' /\ PkPlaceType'
  BY <1>1, <1>2 DEF PkReady, PkLocalType, PkPlaceType, Pack!Labels
<1>4. /\ idx'[t] \in 0 .. Entries
      /\ pc'[t] = IF pc[t] = "get_last" THEN "get_val" ELSE "exists"
  BY <1>1, <1>2 DEF PkReady, PkLocalType
<1> QED
  BY <1>2, <1>3, <1>4
  DEF PkReady, PkControl, PkSearchGood, PkUnder, PkAdding, PkMoving,
      PkGetting

LEMMA PkNextGood ==
  ASSUME NEW t \in Threads, PkReady(t), Pack!Onward(t),
         NEW label \in {"get_last", "exists_last"},
         Pack!NextBucket(t, label), UNCHANGED <<last, full, moved>>,
         IF label = "get_last" THEN pc[t] = "get_val" ELSE pc[t] = "exists"
  PROVE  PkSearchGood(t)
<1>1. bucket[t] + 1 \in 1 .. Len(last)
  <2>1. /\ bucket[t] \in 1 .. Len(last) /\ Len(last) \in Nat
        /\ bucket[t] < Len(last)
    BY PkChainType DEF PkReady, PkPlaceType, Pack!Onward
  <2> QED BY <2>1
<1>2. /\ bucket' = [bucket EXCEPT ![t] = bucket[t] + 1]
      /\ pc' = [pc EXCEPT ![t] = label]
      /\ UNCHANGED <<call, idx, cur, ret>>
  BY DEF Pack!NextBucket, Pack!Goto
<1>3. PkLocalType' /\ PkPlaceType' /\ pc'[t] = label
  BY <1>1, <1>2 DEF PkReady, PkLocalType, PkPlaceType, Pack!Labels
<1> QED
  BY <1>2, <1>3
  DEF PkReady, PkControl, PkSearchGood, PkUnder, PkAdding, PkMoving,
      PkGetting

LEMMA PkScanGood ==
  ASSUME NEW t \in Threads, PkReady(t),
         \/ Pack!ReadLast(t) \/ Pack!GetVal(t) \/ Pack!GetKey(t)
         \/ Pack!GetAgain(t) \/ Pack!Exists(t)
  PROVE  PkGood(t)
<1>1. /\ UNCHANGED <<cells, lock, puts, last, moved>>
      /\ pc[t] \in PkSearching /\ pc[t] \notin PkUnder
  BY DEF Pack!ReadLast, Pack!GetVal, Pack!GetKey, Pack!GetAgain, Pack!Exists,
         Pack!At, Pack!chain, PkSearching, PkGetting, PkUnder, PkAdding,
         PkMoving
<1>2. PkSharedType'
  BY <1>1 DEF PkSharedType, PkReady
<1>3. SUFFICES PkSearchGood(t)
  BY <1>1, <1>2
  DEF PkGood, PkEffect, PkKeeps, PkNoMove, PkSearchGood
<1>4. /\ 0 \in PkVals \cup {0, 1} /\ PkVals \subseteq PkVals \cup {0, 1}
      /\ Pack!NoVal \in PkVals /\ cur[t] \in PkVals
      /\ Entries \in Nat \ {0}
  BY PkValueFacts, CallsAssumption DEF PkReady, PkLocalType
<1>5. CASE /\ \E r \in PkVals \cup {0, 1} : Pack!Return(t, r)
           /\ UNCHANGED <<bucket, full>>
  <2>1. PkPlaceType'
    BY <1>1, <1>5 DEF PkPlaceType, PkReady
  <2> QED BY <1>5, <2>1, PkReturnGood DEF PkReady, PkSearchGood
<1>6. CASE Pack!ReadLast(t)
  BY <1>6, PkReadLastGood
<1>7. CASE Pack!GetVal(t)
  <2>1. Pack!At(t, "get_val") /\ idx[t] \in 0 .. Entries
        /\ call[t].op = "get" /\ UNCHANGED full
    BY <1>7 DEF Pack!GetVal, PkReady, PkControl, PkGetting, Pack!At
  <2>2. CASE Pack!Onward(t) /\ Pack!NextBucket(t, "get_last")
    BY <1>1, <2>1, <2>2, PkNextGood DEF Pack!At
  <2>3. CASE Pack!Return(t, 0) /\ UNCHANGED bucket
    BY <1>4, <1>5, <2>1, <2>3
  <2>4. CASE /\ idx[t] > 0 /\ Pack!Read(t, cells[Pack!Here(t)].val)
             /\ Pack!Goto(t, "get_key") /\ UNCHANGED <<call, idx, ret, bucket>>
    <3>1. idx[t] \in 1 .. Entries
      BY <1>4, <2>1, <2>4
    <3>2. cells[Pack!Here(t)].val \in PkVals
      BY <3>1, PkHereIn, PkCellType DEF PkReady
    <3>3. PkLocalType' /\ PkPlaceType' /\ pc'[t] = "get_key"
      BY <1>1, <2>1, <2>4, <3>2
      DEF PkReady, PkLocalType, PkPlaceType, Pack!Goto, Pack!Read,
          Pack!Labels
    <3> QED
      BY <2>1, <2>4, <3>1, <3>3
      DEF PkReady, PkControl, PkSearchGood, PkUnder, PkAdding, PkMoving,
          PkGetting, Pack!At
  <2> QED BY <1>7, <2>2, <2>3, <2>4 DEF Pack!GetVal
<1>8. CASE Pack!GetKey(t)
  <2>1. /\ Pack!At(t, "get_key") /\ idx[t] \in 1 .. Entries
        /\ call[t].op = "get" /\ UNCHANGED <<call, ret, bucket, full>>
    BY <1>8
    DEF Pack!GetKey, PkReady, PkControl, PkGetting, Pack!At, Pack!chain
  <2>2. CASE Pack!Goto(t, "get_again") /\ UNCHANGED <<idx, cur>>
    <3>1. PkLocalType' /\ PkPlaceType' /\ pc'[t] = "get_again"
      BY <1>1, <2>1, <2>2
      DEF PkReady, PkLocalType, PkPlaceType, Pack!Goto, Pack!Labels
    <3> QED
      BY <2>1, <2>2, <3>1
      DEF PkReady, PkControl, PkSearchGood, PkUnder, PkAdding, PkMoving,
          PkGetting, Pack!At
  <2>3. CASE /\ Pack!Goto(t, "get_val") /\ Pack!SetIdx(t, idx[t] - 1)
             /\ Pack!Read(t, Pack!NoVal)
    <3>1. idx[t] - 1 \in 0 .. Entries /\ idx[t] - 1 \in Nat
      BY <1>4, <2>1
    <3>2. PkLocalType' /\ PkPlaceType' /\ pc'[t] = "get_val"
          /\ idx'[t] = idx[t] - 1
      BY <1>1, <1>4, <2>1, <2>3, <3>1
      DEF PkReady, PkLocalType, PkPlaceType, Pack!Goto, Pack!Read,
          Pack!SetIdx, Pack!Labels
    <3> QED
      BY <2>1, <3>1, <3>2
      DEF PkReady, PkControl, PkSearchGood, PkUnder, PkAdding, PkMoving,
          PkGetting, Pack!At
  <2> QED BY <1>8, <2>2, <2>3 DEF Pack!GetKey
<1>9. CASE Pack!GetAgain(t)
  BY <1>4, <1>5, <1>9 DEF Pack!GetAgain, Pack!chain
<1>10. CASE Pack!Exists(t)
  <2>1. Pack!At(t, "exists") /\ idx[t] \in 0 .. Entries
        /\ call[t].op \in {"put", "remove"} /\ UNCHANGED full
    BY <1>10 DEF Pack!Exists, PkReady, PkControl, PkGetting, Pack!At
  <2>2. CASE Pack!Onward(t) /\ Pack!NextBucket(t, "exists_last")
    BY <1>1, <2>1, <2>2, PkNextGood DEF Pack!At
  <2>3. CASE Pack!Return(t, 0) /\ UNCHANGED bucket
    BY <1>4, <1>5, <2>1, <2>3
  <2>4. CASE /\ Pack!Goto(t, "lock") /\ Pack!SetIdx(t, 1)
             /\ UNCHANGED <<call, cur, ret, bucket>>
    <3>1. PkLocalType' /\ PkPlaceType' /\ pc'[t] = "lock"
      BY <1>1, <2>1, <2>4
      DEF PkReady, PkLocalType, PkPlaceType, Pack!Goto, Pack!SetIdx,
          Pack!Labels
    <3> QED
      BY <2>1, <2>4, <3>1
      DEF PkReady, PkControl, PkSearchGood, PkUnder, PkAdding, PkMoving,
          PkGetting, Pack!At
  <2>5. CASE /\ idx[t] > 0 /\ Pack!SetIdx(t, idx[t] - 1)
             /\ UNCHANGED <<call, pc, cur, ret, bucket>>
    <3>1. idx[t] - 1 \in 0 .. Entries /\ idx[t] - 1 \in Nat
      BY <1>4, <2>1, <2>5
    <3>2. PkLocalType' /\ PkPlaceType' /\ idx'[t] = idx[t] - 1
      BY <1>1, <2>1, <2>5, <3>1
      DEF PkReady, PkLocalType, PkPlaceType, Pack!SetIdx
    <3> QED
      BY <2>1, <2>5, <3>1, <3>2
      DEF PkReady, PkControl, PkSearchGood, PkUnder, PkAdding, PkMoving,
          PkGetting, Pack!At
  <2> QED
    BY <1>10, <2>2, <2>3, <2>4, <2>5 DEF Pack!Exists, Pack!ExistsDone
<1> QED BY <1>6, <1>7, <1>8, <1>9, <1>10

(* Under the lock.                                                         *)
LEMMA PkHoldGood ==
  ASSUME PkLocalType, NEW t \in Threads, PkControl(t),
         NEW i \in Nat, NEW label \in PkUnder,
         Pack!Hold(t, i, label), pc[t] \notin {"idle"},
         label \in PkAdding =>
           call[t].op = "put" /\ pc[t] \notin PkMoving,
         label \in PkMoving => pc[t] \in PkMoving
  PROVE  /\ PkLocalType' /\ PkControl(t)'
         /\ PkStaysIn(t) /\ pc'[t] = label /\ idx'[t] = i /\ puts' = puts
<1>1. /\ label \in Pack!Labels
      /\ label \notin {"idle", "exists_last", "exists", "lock"} \cup PkGetting
      /\ label \in PkAdding => label \notin PkMoving
  BY DEF PkUnder, PkAdding, PkMoving, PkGetting, Pack!Labels
<1>2. /\ pc' = [pc EXCEPT ![t] = label] /\ idx' = [idx EXCEPT ![t] = i]
      /\ UNCHANGED <<call, cur, puts, ret>> /\ lock' = t
  BY DEF Pack!Hold, Pack!Goto, Pack!SetIdx
<1>3. PkLocalType' /\ pc'[t] = label /\ idx'[t] = i
  BY <1>1, <1>2 DEF PkLocalType
<1>4. label \in {"idle"} \cup PkMoving <=> call[t] = Pack!Idle
  BY <1>1 DEF PkControl, PkUnder
<1> QED
  BY <1>1, <1>2, <1>3, <1>4
  DEF PkControl, PkStaysIn, PkUnder, PkGetting

LEMMA PkAppended ==
  ASSUME PkSharedType
  PROVE  /\ Append(last, 0) \in Seq(0 .. Entries)
         /\ Len(Append(last, 0)) = Len(last) + 1
         /\ Len(cells) + Entries = (Len(last) + 1) * Entries
<1>1. /\ Len(last) \in Nat /\ Len(cells) = Len(last) * Entries
      /\ Entries \in Nat \ {0} /\ last \in Seq(0 .. Entries)
  BY PkChainType, CallsAssumption DEF PkSharedType
<1>2. 0 \in 0 .. Entries
  BY <1>1
<1>3. Append(last, 0) \in Seq(0 .. Entries)
      /\ Len(Append(last, 0)) = Len(last) + 1
  BY <1>1, <1>2, AppendProperties
<1>4. (Len(last) + 1) * Entries = Len(last) * Entries + Entries
  BY <1>1
<1> QED BY <1>1, <1>3, <1>4

LEMMA PkPutGood ==
  ASSUME NEW t \in Threads, PkReady(t), Pack!PutLocked(t)
  PROVE  PkGood(t)
<1>1. /\ PkLocalType /\ PkPlaceType /\ PkSharedType /\ PkFilled(PkCount)
      /\ PkControl(t) /\ PkEntryOk(t)
      /\ pc[t] = "lock" /\ lock = NoThread /\ call[t].op = "put"
      /\ UNCHANGED <<bucket, full, moved>>
  BY DEF PkReady, Pack!PutLocked, Pack!CanLock, Pack!At
<1>2. /\ PkCount \in Nat /\ PkCount <= Len(cells) /\ Len(cells) \in Nat
      /\ DOMAIN cells = 1 .. Len(cells)
      /\ NoThread \in Threads \cup {NoThread} /\ Entries \in Nat \ {0}
  BY <1>1, PkLive, PkChainType, CallsAssumption
<1>3. /\ call[t].key \in PkKeys /\ call[t].val \in PkVals
  BY <1>1, PkCallOf
<1>4. pc[t] \notin {"idle"} /\ pc[t] \notin PkMoving /\ pc[t] \notin PkUnder
  BY <1>1 DEF PkMoving, PkUnder, PkAdding
<1>5. CASE Pack!Match(t) # {}
  <2>1. Pack!Return(t, 0) /\ UNCHANGED <<cells, last, lock, puts>>
    BY <1>1, <1>5 DEF Pack!PutLocked, Pack!Finish
  <2>2. 0 \in PkVals \cup {0, 1}
    OBVIOUS
  <2>3. /\ PkLocalType' /\ PkControl(t)' /\ pc'[t] \notin PkUnder
    BY <1>1, <2>1, <2>2, PkReturnGood
  <2>4. PkPlaceType' /\ PkSharedType'
    BY <1>1, <2>1 DEF PkPlaceType, PkSharedType
  <2>5. PkKeeps(t)
    BY <1>1, <1>4, <2>1, <2>3 DEF PkKeeps, PkNoMove
  <2> QED BY <2>3, <2>4, <2>5 DEF PkGood, PkEffect
<1>6. CASE Pack!Match(t) = {}
  <2>1. PkFreeFor(t)
    BY <1>1, <1>6, PkMatch DEF PkFreeFor, Pack!At
  <2>2. CASE Pack!Room # {}
    <3> DEFINE i == Pack!Start(Pack!Min(Pack!Room))
                      + last[Pack!Min(Pack!Room)] + 1
    <3>1. PkCount < Len(cells) /\ i = PkCount + 1
      <4>1. PkCount # Len(cells)
        BY <1>1, <2>2, PkRoom
      <4>2. PkCount < Len(cells)
        <5>1. PkCount \in Nat /\ Len(cells) \in Nat /\ PkCount <= Len(cells)
          BY <1>2
        <5> QED BY <4>1, <5>1
      <4> QED BY <1>1, <4>2, PkRoom
    <3>2. /\ cells' = Pack!SetVal(i, call[t].val)
          /\ Pack!Hold(t, i, "write_key") /\ UNCHANGED last
      BY <1>6, <2>2 DEF Pack!PutLocked
    <3> HIDE DEF i
    <3>3. i \in DOMAIN cells /\ i \in Nat
      BY <1>2, <3>1
    <3>4. PkValTo(i, call[t].val)
      BY <1>1, <1>3, <3>2, <3>3, PkSetValTo
    <3>5. /\ PkLocalType' /\ PkControl(t)' /\ PkStaysIn(t)
          /\ pc'[t] = "write_key" /\ idx'[t] = i /\ puts' = puts
      BY <1>1, <1>4, <3>2, <3>3, PkHoldGood DEF PkUnder, PkAdding, PkMoving
    <3>6. PkFills(t)
      BY <1>1, <2>1, <3>1, <3>2, <3>4, <3>5 DEF PkFills
    <3>7. PkSharedType' /\ PkPlaceType'
      BY <1>1, <3>2, <3>4, <3>5
      DEF PkSharedType, PkPlaceType, PkValTo, PkStaysIn
    <3> QED BY <3>5, <3>6, <3>7 DEF PkGood, PkEffect
  <2>3. CASE Pack!Room = {}
    <3>1. PkCount = Len(cells)
      BY <1>1, <2>3, PkRoom
    <3>2. /\ cells' = [Pack!Linked(Pack!NoVal) EXCEPT ![Len(cells) + 1] =
                         [key |-> call[t].key, val |-> call[t].val]]
          /\ last' = Append(last, 0)
          /\ Pack!Hold(t, Len(cells) + 1, "count")
      BY <1>6, <2>3 DEF Pack!PutLocked
    <3>3. PkLonger(call[t].key, call[t].val)
      BY <1>1, <1>3, <3>2, PkLinkedLonger
    <3>4. Len(cells) + 1 \in Nat
      BY <1>2
    <3>5. /\ PkLocalType' /\ PkControl(t)' /\ PkStaysIn(t)
          /\ pc'[t] = "count" /\ idx'[t] = Len(cells) + 1 /\ puts' = puts
      BY <1>1, <1>4, <3>2, <3>4, PkHoldGood DEF PkUnder, PkAdding, PkMoving
    <3>6. PkLinks(t)
      BY <1>1, <2>1, <3>1, <3>2, <3>3, <3>5 DEF PkLinks
    <3>7. /\ last' \in Seq(0 .. Entries) /\ Len(last') = Len(last) + 1
          /\ Len(cells) + Entries = (Len(last) + 1) * Entries
      BY <1>1, <3>2, PkAppended
    <3>8. PkSharedType'
      BY <1>1, <3>3, <3>5, <3>7 DEF PkSharedType, PkLonger, PkStaysIn
    <3>9. PkPlaceType'
      <4>1. Len(last) \in Nat
        BY <1>1, PkChainType
      <4>2. 1 .. Len(last) \subseteq 1 .. Len(last')
        BY <3>7, <4>1
      <4> QED BY <1>1, <4>2 DEF PkPlaceType
    <3> QED BY <3>5, <3>6, <3>8, <3>9 DEF PkGood, PkEffect
  <2> QED BY <2>2, <2>3
<1> QED BY <1>5, <1>6

LEMMA PkAddGood ==
  ASSUME NEW t \in Threads, PkReady(t), Pack!WriteKey(t) \/ Pack!Count(t)
  PROVE  PkGood(t)
<1>1. /\ PkLocalType /\ PkPlaceType /\ PkSharedType /\ PkFilled(PkCount)
      /\ PkControl(t) /\ PkEntryOk(t)
      /\ pc[t] \in PkAdding /\ call[t].op = "put"
  BY DEF PkReady, Pack!WriteKey, Pack!Count, Pack!At, PkAdding, PkControl
<1>2. /\ idx[t] = PkCount + 1 /\ idx[t] \in DOMAIN cells /\ lock = t
      /\ idx[t] \in Nat /\ NoThread \in Threads \cup {NoThread}
      /\ Entries \in Nat \ {0} /\ PkCount \in Nat
  BY <1>1, CallsAssumption, PkLive DEF PkEntryOk, PkLocalType
<1>3. call[t].key \in PkKeys
  BY <1>1, PkCallOf
<1>4. pc[t] \notin {"idle"} /\ pc[t] \notin PkMoving
  BY <1>1 DEF PkMoving, PkAdding
<1>5. CASE Pack!WriteKey(t)
  <2>1. /\ Pack!At(t, "write_key")
        /\ cells' = Pack!SetKey(idx[t], call[t].key)
        /\ Pack!Hold(t, idx[t], "count")
        /\ UNCHANGED <<last, bucket, full, moved>>
    BY <1>5 DEF Pack!WriteKey, Pack!chain
  <2>2. PkKeyTo(idx[t], call[t].key)
    BY <1>1, <1>2, <1>3, <2>1, PkSetKeyTo
  <2>3. /\ PkLocalType' /\ PkControl(t)' /\ PkStaysIn(t)
        /\ pc'[t] = "count" /\ idx'[t] = idx[t] /\ puts' = puts
    BY <1>1, <1>2, <1>4, <2>1, PkHoldGood DEF PkUnder, PkAdding, PkMoving
  <2>4. PkNames(t)
    BY <2>1, <2>2, <2>3 DEF PkNames
  <2>5. PkSharedType' /\ PkPlaceType'
    BY <1>1, <2>1, <2>2, <2>3
    DEF PkSharedType, PkPlaceType, PkKeyTo, PkStaysIn
  <2> QED BY <2>3, <2>4, <2>5 DEF PkGood, PkEffect
<1>6. CASE Pack!Count(t)
  <2> DEFINE b == Pack!Bucket(PkCount + 1)
  <2>1. /\ Pack!At(t, "count") /\ last' = [last EXCEPT ![b] = @ + 1]
        /\ Pack!Return(t, 1) /\ lock' = NoThread /\ puts' = puts
        /\ UNCHANGED <<cells, bucket, full, moved>>
    BY <1>2, <1>6 DEF Pack!Count, Pack!Finish
  <2>2. PkLocalType' /\ PkControl(t)' /\ pc'[t] = "idle"
    <3>1. 1 \in PkVals \cup {0, 1}
      OBVIOUS
    <3> QED BY <1>1, <2>1, <3>1, PkReturnGood
  <2>3. PkEnters(t)
    BY <2>1, <2>2 DEF PkEnters
  <2>4. b \in DOMAIN last /\ last[b] + 1 \in 0 .. Entries
    <3>1. /\ b \in DOMAIN last /\ last[b] = PkCount - Pack!Start(b)
      BY <1>1, <1>2, PkAround
    <3>2. PkCount + 1 \in Nat \ {0}
      BY <1>2
    <3>3. /\ PkCount + 1 <= Pack!Start(b) + Entries
          /\ b \in Nat \ {0} /\ Pack!Start(b) < PkCount + 1
      BY <3>2, PkBuckets
    <3> HIDE DEF b
    <3>4. Pack!Start(b) \in Nat
      BY <3>3, PkStarts
    <3> QED BY <1>2, <3>1, <3>3, <3>4
  <2> HIDE DEF b
  <2>5. last' \in Seq(0 .. Entries) /\ Len(last') = Len(last)
    <3>1. last \in Seq(0 .. Entries) /\ b \in 1 .. Len(last)
      BY <1>1, <2>4, PkChainType DEF PkSharedType
    <3> QED BY <2>1, <2>4, <3>1, ExceptSeq
  <2>6. PkSharedType' /\ PkPlaceType'
    BY <1>1, <1>2, <2>1, <2>5 DEF PkSharedType, PkPlaceType
  <2> QED BY <2>2, <2>3, <2>6 DEF PkGood, PkEffect
<1> QED BY <1>5, <1>6

LEMMA PkRemoveGood ==
  ASSUME NEW t \in Threads, PkReady(t), Pack!RemoveLocked(t)
  PROVE  PkGood(t)
<1>1. /\ PkLocalType /\ PkPlaceType /\ PkSharedType /\ PkFilled(PkCount)
      /\ PkControl(t) /\ PkEntryOk(t)
      /\ pc[t] = "lock" /\ lock = NoThread /\ call[t].op = "remove"
      /\ puts' = puts /\ UNCHANGED <<last, bucket, full, moved>>
  BY DEF PkReady, Pack!RemoveLocked, Pack!CanLock, Pack!At, Pack!Finish,
         Pack!chain
<1>2. /\ PkCount \in Nat /\ 1 .. PkCount \subseteq DOMAIN cells
      /\ NoThread \in Threads \cup {NoThread}
  BY <1>1, PkLive
<1>3. PkPlaceType'
  BY <1>1 DEF PkPlaceType
<1>4. CASE Pack!Match(t) = {}
  <2>1. Pack!Return(t, 0) /\ UNCHANGED cells /\ lock' = lock
    BY <1>1, <1>4 DEF Pack!RemoveLocked, Pack!Finish
  <2>2. 0 \in PkVals \cup {0, 1}
    OBVIOUS
  <2>3. /\ PkLocalType' /\ PkControl(t)' /\ pc'[t] \notin PkUnder
    BY <1>1, <2>1, <2>2, PkReturnGood
  <2>4. PkSharedType'
    BY <1>1, <2>1 DEF PkSharedType
  <2>5. PkKeeps(t)
    BY <1>1, <2>1, <2>3
    DEF PkKeeps, PkNoMove, PkUnder, PkAdding, PkMoving
  <2> QED BY <1>3, <2>3, <2>4, <2>5 DEF PkGood, PkEffect
<1>5. CASE Pack!Match(t) # {}
  <2> DEFINE i == Pack!Min(Pack!Match(t))
  <2>1. i \in 1 .. PkCount /\ cells[i].key = call[t].key
    <3>1. Pack!Match(t) = {j \in 1 .. PkCount : cells[j].key = call[t].key}
      BY <1>1, PkMatch
    <3>2. Pack!Match(t) \in SUBSET Nat
      BY <1>2, <3>1
    <3>3. i \in Pack!Match(t)
      BY <1>5, <3>2, LeastNumber DEF Pack!Min
    <3> QED BY <3>1, <3>3
  <2>2. /\ cells' = Pack!SetKey(i, NoKey) /\ lock' = t
        /\ Pack!Decide(t, cells[i].val, "move_val") /\ Pack!SetIdx(t, i)
    BY <1>5 DEF Pack!RemoveLocked
  <2> HIDE DEF i
  <2>3. i \in DOMAIN cells /\ NoKey \in PkKeys /\ cells[i].val \in PkVals
        /\ i \in Nat
    BY <1>1, <1>2, <2>1, PkCellType DEF PkKeys
  <2>4. PkKeyTo(i, NoKey)
    BY <1>1, <2>2, <2>3, PkSetKeyTo
  <2>5. /\ pc' = [pc EXCEPT ![t] = "move_val"]
        /\ call' = [call EXCEPT ![t] = Pack!Idle]
        /\ ret' = [ret EXCEPT ![t] = cells[i].val]
        /\ idx' = [idx EXCEPT ![t] = i]
        /\ cur' = [cur EXCEPT ![t] = Pack!NoVal]
    BY <2>2 DEF Pack!Decide, Pack!SetIdx, Pack!Goto, Pack!Read
  <2>6. /\ PkLocalType' /\ pc'[t] = "move_val" /\ idx'[t] = i
        /\ call'[t] = Pack!Idle /\ ret'[t] = cells[i].val
    <3>1. Pack!Idle \in Pack!Calls /\ Pack!NoVal \in PkVals
      BY PkCallTypes, PkValueFacts
    <3> QED
      BY <1>1, <2>3, <2>5, <3>1 DEF PkLocalType, Pack!Labels
  <2>7. PkControl(t)'
    BY <2>6 DEF PkControl, PkAdding, PkMoving, PkGetting
  <2>8. PkTakes(t)
    BY <1>1, <2>1, <2>2, <2>4, <2>6 DEF PkTakes, Pack!At
  <2>9. PkSharedType'
    BY <1>1, <2>2, <2>4 DEF PkSharedType, PkKeyTo
  <2> QED BY <1>3, <2>6, <2>7, <2>8, <2>9 DEF PkGood, PkEffect
<1> QED BY <1>4, <1>5

LEMMA PkMoveGood ==
  ASSUME NEW t \in Threads, PkReady(t),
         Pack!MoveVal(t) \/ Pack!MoveKey(t) \/ Pack!Uncount(t)
  PROVE  PkGood(t)
<1>1. /\ PkLocalType /\ PkPlaceType /\ PkSharedType /\ PkFilled(PkCount)
      /\ PkControl(t) /\ PkEntryOk(t) /\ pc[t] \in PkMoving
  BY DEF PkReady, Pack!MoveVal, Pack!MoveKey, Pack!Uncount, Pack!At, PkMoving
<1>2. /\ idx[t] \in 1 .. PkCount /\ lock = t
      /\ PkCount \in Nat /\ 1 .. PkCount \subseteq DOMAIN cells
      /\ Entries \in Nat \ {0} /\ NoThread \in Threads \cup {NoThread}
      /\ idx[t] \in Nat
  BY <1>1, PkLive, CallsAssumption DEF PkEntryOk
<1>3. /\ PkCount \in 1 .. PkCount /\ PkCount \in DOMAIN cells
      /\ idx[t] \in DOMAIN cells
  BY <1>2
<1>4. /\ Pack!Blast(idx[t]).bucket = Pack!Bucket(PkCount)
      /\ Pack!Blast(idx[t]).entry = PkCount
  BY <1>1, <1>2, PkBlast
<1>5. cells[PkCount].key \in PkKeys /\ cells[PkCount].val \in PkVals
  BY <1>1, <1>3, PkCellType
<1>6. pc[t] \notin {"idle"} /\ pc[t] \notin PkAdding
  BY <1>1 DEF PkMoving, PkAdding
<1>7. CASE Pack!MoveVal(t)
  <2>1. /\ Pack!At(t, "move_val")
        /\ cells' = Pack!SetVal(idx[t], cells[PkCount].val)
        /\ Pack!Hold(t, idx[t], "move_key")
        /\ UNCHANGED <<last, bucket, full, moved>>
    BY <1>4, <1>7 DEF Pack!MoveVal, Pack!chain
  <2>2. PkValTo(idx[t], cells[PkCount].val)
    BY <1>1, <1>3, <1>5, <2>1, PkSetValTo
  <2>3. /\ PkLocalType' /\ PkControl(t)' /\ PkStaysIn(t)
        /\ pc'[t] = "move_key" /\ idx'[t] = idx[t] /\ puts' = puts
    BY <1>1, <1>2, <1>6, <2>1, PkHoldGood DEF PkUnder, PkAdding, PkMoving
  <2>4. PkCopiesVal(t)
    BY <2>1, <2>2, <2>3 DEF PkCopiesVal
  <2>5. PkSharedType' /\ PkPlaceType'
    BY <1>1, <2>1, <2>2, <2>3
    DEF PkSharedType, PkPlaceType, PkValTo, PkStaysIn
  <2> QED BY <2>3, <2>4, <2>5 DEF PkGood, PkEffect
<1>8. ASSUME Pack!Moves PROVE PkMoves /\ moved' \in [Threads -> BOOLEAN]
  BY <1>1, <1>8 DEF Pack!Moves, PkMoves, PkPlaceType
<1>9. CASE Pack!MoveKey(t)
  <2>1. /\ Pack!At(t, "move_key")
        /\ cells' = Pack!SetKey(idx[t], cells[PkCount].key)
        /\ Pack!Hold(t, idx[t], "uncount") /\ Pack!Moves
        /\ UNCHANGED <<last, bucket, full>>
    BY <1>4, <1>9 DEF Pack!MoveKey
  <2>2. PkKeyTo(idx[t], cells[PkCount].key)
    BY <1>1, <1>3, <1>5, <2>1, PkSetKeyTo
  <2>3. /\ PkLocalType' /\ PkControl(t)' /\ PkStaysIn(t)
        /\ pc'[t] = "uncount" /\ idx'[t] = idx[t] /\ puts' = puts
    BY <1>1, <1>2, <1>6, <2>1, PkHoldGood DEF PkUnder, PkAdding, PkMoving
  <2>4. PkCopiesKey(t)
    BY <1>8, <2>1, <2>2, <2>3 DEF PkCopiesKey
  <2>5. PkSharedType' /\ PkPlaceType'
    BY <1>1, <1>8, <2>1, <2>2, <2>3
    DEF PkSharedType, PkPlaceType, PkKeyTo, PkStaysIn
  <2> QED BY <2>3, <2>4, <2>5 DEF PkGood, PkEffect
<1>10. CASE Pack!Uncount(t)
  <2> DEFINE b == Pack!Bucket(PkCount)
  <2>1. /\ Pack!At(t, "uncount") /\ last' = [last EXCEPT ![b] = @ - 1]
        /\ pc' = [pc EXCEPT ![t] = "idle"] /\ idx' = [idx EXCEPT ![t] = 1]
        /\ lock' = NoThread /\ Pack!Moves
        /\ UNCHANGED <<cells, call, cur, puts, ret, bucket, full>>
    BY <1>4, <1>10 DEF Pack!Uncount, Pack!Goto, Pack!SetIdx
  <2>2. /\ PkLocalType' /\ pc'[t] = "idle" /\ call'[t] = Pack!Idle
    <3>1. call[t] = Pack!Idle
      BY <1>1 DEF PkControl
    <3> QED BY <1>1, <2>1, <3>1 DEF PkLocalType, Pack!Labels
  <2>3. PkControl(t)'
    BY <2>2 DEF PkControl, PkAdding, PkMoving, PkGetting
  <2>4. PkDrops(t)
    BY <1>8, <2>1, <2>2 DEF PkDrops
  <2>5. b \in DOMAIN last /\ last[b] - 1 \in 0 .. Entries
    <3>1. /\ b \in DOMAIN last /\ last[b] = PkCount - Pack!Start(b)
      BY <1>1, <1>2, <1>3, PkAround
    <3>2. PkCount \in Nat \ {0}
      BY <1>2
    <3>3. /\ PkCount <= Pack!Start(b) + Entries
          /\ b \in Nat \ {0} /\ Pack!Start(b) < PkCount
      BY <3>2, PkBuckets
    <3> HIDE DEF b
    <3>4. Pack!Start(b) \in Nat
      BY <3>3, PkStarts
    <3> QED BY <1>2, <3>1, <3>3, <3>4
  <2> HIDE DEF b
  <2>6. last' \in Seq(0 .. Entries) /\ Len(last') = Len(last)
    <3>1. last \in Seq(0 .. Entries) /\ b \in 1 .. Len(last)
      BY <1>1, <2>5, PkChainType DEF PkSharedType
    <3> QED BY <2>1, <2>5, <3>1, ExceptSeq
  <2>7. PkSharedType' /\ PkPlaceType'
    BY <1>1, <1>2, <1>8, <2>1, <2>6 DEF PkSharedType, PkPlaceType
  <2> QED BY <2>2, <2>3, <2>4, <2>7 DEF PkGood, PkEffect
<1> QED BY <1>7, <1>9, <1>10

LEMMA PkStepGood ==
  ASSUME NEW t \in Threads, PkReady(t), PkStepOf(t)
  PROVE  PkGood(t)
BY PkBeginGood, PkScanGood, PkPutGood, PkAddGood, PkRemoveGood, PkMoveGood
DEF PkStepOf, Pack!Work

-----------------------------------------------------------------------------
(* How many entries count after a step.                                    *)

LEMMA PkStepFacts ==
  ASSUME PkState, NEW t \in Threads, PkStepOf(t)
  PROVE  /\ PkLocalType /\ PkPlaceType /\ PkSharedType /\ PkFilled(PkCount)
         /\ PkKeysOk /\ PkControl(t) /\ PkCounted(t) /\ PkEntryOk(t)
         /\ PkLocalType' /\ PkPlaceType' /\ PkSharedType'
         /\ PkEffect(t) /\ PkControl(t)' /\ PkOthersSame(t)
<1>1. /\ PkLocalType /\ PkPlaceType /\ PkSharedType /\ PkFilled(PkCount)
      /\ PkKeysOk /\ PkControl(t) /\ PkCounted(t) /\ PkEntryOk(t)
  BY PkStateParts
<1>2. PkGood(t) /\ PkOthersSame(t)
  BY <1>1, PkStepGood, PkStepOthers DEF PkReady
<1> QED BY <1>1, <1>2 DEF PkGood

LEMMA PkFilledNext ==
  ASSUME PkSharedType', NEW n \in Nat, n <= Len(cells'),
         \A b \in DOMAIN last' : last'[b] = PkFill(n, b)
  PROVE  PkFilled(PkCount)' /\ PkCount' = n
<1>1. PkAllCounts'
  BY PkCounts, PTL
<1>2. Len(cells') \in Nat
  BY LenProperties DEF PkSharedType
<1>3. PkFilled(n)'
  BY <1>2 DEF PkFilled
<1>4. PkCount' = n
  BY <1>1, <1>3 DEF PkAllCounts, PkCountsTo
<1> QED BY <1>3, <1>4 DEF PkFilled

LEMMA PkCountStep ==
  ASSUME PkState, NEW t \in Threads, PkStepOf(t)
  PROVE  /\ PkFilled(PkCount)'
         /\ IF PkEnters(t) THEN PkCount' = PkCount + 1
            ELSE IF PkDrops(t) THEN PkCount' = PkCount - 1
            ELSE PkCount' = PkCount
<1>1. /\ PkSharedType /\ PkFilled(PkCount) /\ PkEntryOk(t)
      /\ PkEffect(t) /\ PkSharedType'
  BY PkStepFacts
<1>2. /\ PkCount \in Nat /\ PkCount <= Len(cells) /\ Len(cells) \in Nat
      /\ \A b \in DOMAIN last : last[b] = PkFill(PkCount, b)
      /\ Entries \in Nat \ {0}
  BY <1>1, PkLive, PkChainType, CallsAssumption
<1>3. Len(last) \in Nat /\ DOMAIN last = 1 .. Len(last)
  BY <1>1, PkChainType
<1>4. CASE /\ UNCHANGED last
           /\ Len(cells') = Len(cells)
           /\ ~PkEnters(t) /\ ~PkDrops(t)
  BY <1>1, <1>2, <1>4, PkFilledNext
<1>5. CASE PkLinks(t)
  <2>1. /\ last' = Append(last, 0) /\ PkCount = Len(cells)
        /\ Len(cells') = Len(cells) + Entries
        /\ pc[t] = "lock"
    BY <1>5 DEF PkLinks, PkLonger, PkFreeFor, Pack!At
  <2>2. /\ DOMAIN last' = 1 .. Len(last) + 1
        /\ \A b \in 1 .. Len(last) : last'[b] = last[b]
        /\ last'[Len(last) + 1] = 0
    <3>1. last \in Seq(0 .. Entries) /\ 0 \in 0 .. Entries
      BY <1>1, <1>2 DEF PkSharedType
    <3> QED BY <2>1, <3>1, AppendProperties
  <2>3. PkFill(PkCount, Len(last) + 1) = 0
    <3>1. Pack!Start(Len(last) + 1) = Len(cells)
      <4>1. (Len(last) + 1) - 1 = Len(last)
        BY <1>3
      <4>2. Len(cells) = Len(last) * Entries
        BY <1>1 DEF PkSharedType
      <4> QED BY <4>1, <4>2 DEF Pack!Start
    <3> QED BY <1>2, <2>1, <3>1 DEF PkFill
  <2>4. \A b \in DOMAIN last' : last'[b] = PkFill(PkCount, b)
    <3> TAKE b \in DOMAIN last'
    <3>1. b \in DOMAIN last \/ b = Len(last) + 1
      BY <1>3, <2>2
    <3> QED BY <1>2, <1>3, <2>2, <2>3, <3>1
  <2>5. PkCount <= Len(cells')
    BY <1>2, <2>1
  <2>6. ~PkEnters(t) /\ ~PkDrops(t)
    BY <2>1 DEF PkEnters, PkDrops, Pack!At
  <2> QED BY <1>1, <1>2, <2>4, <2>5, <2>6, PkFilledNext
<1>6. CASE PkEnters(t)
  <2> DEFINE n == PkCount
             B == Pack!Bucket(n + 1)
  <2>1. /\ UNCHANGED cells /\ last' = [last EXCEPT ![B] = @ + 1]
        /\ n + 1 \in DOMAIN cells
    BY <1>1, <1>6 DEF PkEnters, PkEntryOk, PkAdding, Pack!At
  <2>2. n + 1 \in Nat \ {0} /\ n + 1 <= Len(cells')
    <3>1. DOMAIN cells = 1 .. Len(cells)
      BY <1>1, PkChainType
    <3> QED BY <1>2, <2>1, <3>1
  <2>3. /\ B \in DOMAIN last /\ last[B] = n - Pack!Start(B)
        /\ \A c \in DOMAIN last : c < B => last[c] = Entries
        /\ \A c \in DOMAIN last : c > B => last[c] = 0
    BY <1>1, <1>2, <2>1, PkAround
  <2>4. /\ B \in Nat \ {0}
        /\ Pack!Start(B) < n + 1 /\ n + 1 <= Pack!Start(B) + Entries
    BY <2>2, PkBuckets
  <2> HIDE DEF B, n
  <2>5. Pack!Start(B) \in Nat
    BY <2>4, PkStarts
  <2>6. ASSUME NEW b \in DOMAIN last' PROVE last'[b] = PkFill(n + 1, b)
    <3>1. b \in DOMAIN last /\ b \in Nat \ {0}
      BY <1>3, <2>1, <2>6
    <3>2. Pack!Start(b) \in Nat
      BY <3>1, PkStarts
    <3>3. CASE b = B
      <4>1. last'[b] = n - Pack!Start(B) + 1
        BY <2>1, <2>3, <3>1, <3>3
      <4> QED BY <1>2, <2>2, <2>4, <2>5, <3>3, <4>1 DEF PkFill, n
    <3>4. CASE b < B
      <4>1. last'[b] = Entries
        BY <2>1, <2>3, <3>1, <3>4
      <4>2. Pack!Start(b) + Entries <= Pack!Start(B)
        BY <2>4, <3>1, <3>4, PkStarts
      <4> QED BY <1>2, <2>2, <2>4, <2>5, <3>2, <4>1, <4>2 DEF PkFill
    <3>5. CASE b > B
      <4>1. last'[b] = 0
        BY <2>1, <2>3, <3>1, <3>5
      <4>2. Pack!Start(B) + Entries <= Pack!Start(b)
        BY <2>4, <3>1, <3>5, PkStarts
      <4> QED BY <1>2, <2>2, <2>4, <2>5, <3>2, <4>1, <4>2 DEF PkFill
    <3> QED BY <2>4, <3>1, <3>3, <3>4, <3>5
  <2>7. PkFilled(PkCount)' /\ PkCount' = n + 1
    BY <1>1, <2>2, <2>6, PkFilledNext
  <2> QED BY <1>6, <2>7 DEF n
<1>7. CASE PkDrops(t)
  <2> DEFINE n == PkCount
             B == Pack!Bucket(n)
  <2>1. /\ UNCHANGED cells /\ last' = [last EXCEPT ![B] = @ - 1]
        /\ idx[t] \in 1 .. n /\ pc[t] = "uncount"
    BY <1>1, <1>7 DEF PkDrops, PkEntryOk, PkMoving, Pack!At
  <2>2. n \in Nat \ {0} /\ n - 1 \in Nat /\ n - 1 <= Len(cells')
        /\ n \in DOMAIN cells
    <3>1. DOMAIN cells = 1 .. Len(cells)
      BY <1>1, PkChainType
    <3> QED BY <1>2, <2>1, <3>1
  <2>3. /\ B \in DOMAIN last /\ last[B] = n - Pack!Start(B)
        /\ \A c \in DOMAIN last : c < B => last[c] = Entries
        /\ \A c \in DOMAIN last : c > B => last[c] = 0
    BY <1>1, <1>2, <2>2, PkAround
  <2>4. /\ B \in Nat \ {0}
        /\ Pack!Start(B) < n /\ n <= Pack!Start(B) + Entries
    BY <2>2, PkBuckets
  <2> HIDE DEF B, n
  <2>5. Pack!Start(B) \in Nat
    BY <2>4, PkStarts
  <2>6. ASSUME NEW b \in DOMAIN last' PROVE last'[b] = PkFill(n - 1, b)
    <3>1. b \in DOMAIN last /\ b \in Nat \ {0}
      BY <1>3, <2>1, <2>6
    <3>2. Pack!Start(b) \in Nat
      BY <3>1, PkStarts
    <3>3. CASE b = B
      <4>1. last'[b] = n - Pack!Start(B) - 1
        BY <2>1, <2>3, <3>1, <3>3
      <4> QED BY <1>2, <2>2, <2>4, <2>5, <3>3, <4>1 DEF PkFill
    <3>4. CASE b < B
      <4>1. last'[b] = Entries
        BY <2>1, <2>3, <3>1, <3>4
      <4>2. Pack!Start(b) + Entries <= Pack!Start(B)
        BY <2>4, <3>1, <3>4, PkStarts
      <4> QED BY <1>2, <2>2, <2>4, <2>5, <3>2, <4>1, <4>2 DEF PkFill
    <3>5. CASE b > B
      <4>1. last'[b] = 0
        BY <2>1, <2>3, <3>1, <3>5
      <4>2. Pack!Start(B) + Entries <= Pack!Start(b)
        BY <2>4, <3>1, <3>5, PkStarts
      <4> QED BY <1>2, <2>2, <2>4, <2>5, <3>2, <4>1, <4>2 DEF PkFill
    <3> QED BY <2>4, <3>1, <3>3, <3>4, <3>5
  <2>7. PkFilled(PkCount)' /\ PkCount' = n - 1
    BY <1>1, <2>2, <2>6, PkFilledNext
  <2>8. ~PkEnters(t)
    BY <2>1 DEF PkEnters, Pack!At
  <2> QED BY <1>7, <2>7, <2>8 DEF n
<1>8. PkEnters(t) \/ PkDrops(t) \/ PkLinks(t)
        \/ (UNCHANGED last /\ Len(cells') = Len(cells))
  BY <1>1
  DEF PkEffect, PkKeeps, PkFills, PkNames, PkTakes, PkCopiesVal,
      PkCopiesKey, PkValTo, PkKeyTo
<1> QED BY <1>4, <1>5, <1>6, <1>7, <1>8

-----------------------------------------------------------------------------
(* One thread at most is under the lock.                                   *)
LEMMA PkLabels ==
  ASSUME NEW t \in Threads, PkEffect(t)
  PROVE  /\ PkFills(t) \/ PkLinks(t) \/ PkTakes(t)
              => pc[t] = "lock" /\ pc[t] \notin PkUnder
         /\ PkNames(t) => pc[t] = "write_key"
         /\ PkEnters(t) => pc[t] = "count" /\ pc'[t] \notin PkUnder
         /\ PkCopiesVal(t) => pc[t] = "move_val"
         /\ PkCopiesKey(t) => pc[t] = "move_key"
         /\ PkDrops(t) => pc[t] = "uncount" /\ pc'[t] \notin PkUnder
BY DEF PkFills, PkLinks, PkTakes, PkNames, PkEnters, PkCopiesVal, PkCopiesKey,
       PkDrops, PkFreeFor, Pack!At, PkUnder, PkAdding, PkMoving

LEMMA PkOnlyOne ==
  ASSUME PkState, NEW t \in Threads, PkStepOf(t), ~PkKeeps(t)
  PROVE  \A u \in Threads \ {t} : pc[u] \notin PkUnder /\ pc'[u] \notin PkUnder
<1>1. PkEffect(t) /\ PkEntryOk(t) /\ PkOthersSame(t)
  BY PkStepFacts
<1>2. lock \in {NoThread, t}
  <2>1. CASE PkFills(t) \/ PkLinks(t) \/ PkTakes(t)
    BY <2>1 DEF PkFills, PkLinks, PkTakes, PkFreeFor
  <2>2. CASE pc[t] \in PkUnder
    BY <1>1, <2>2 DEF PkEntryOk, PkUnder
  <2> QED
    BY <1>1, <2>1, <2>2, PkLabels
    DEF PkEffect, PkUnder, PkAdding, PkMoving
<1>3. \A u \in Threads : pc[u] \in PkUnder => lock = u
  BY PkStateParts DEF PkEntryOk, PkUnder
<1>4. NoThread \notin Threads
  BY CallsAssumption
<1> QED BY <1>1, <1>2, <1>3, <1>4 DEF PkOthersSame

(* Which entries a move is at.                                             *)
LEMMA PkGapStep ==
  ASSUME PkState, NEW t \in Threads, PkStepOf(t), ~PkKeeps(t)
  PROVE  /\ \A i : PkGap(i) <=> pc[t] \in PkMoving /\ idx[t] = i
         /\ \A i : PkGap(i)' <=> pc'[t] \in PkMoving /\ idx'[t] = i
         /\ \A i, j : PkTwice(i, j) <=>
              pc[t] = "uncount" /\ {i, j} = {idx[t], PkCount}
         /\ \A i, j : PkTwice(i, j)' <=>
              pc'[t] = "uncount" /\ {i, j} = {idx'[t], PkCount'}
<1>1. \A u \in Threads \ {t} : pc[u] \notin PkMoving /\ pc'[u] \notin PkMoving
  BY PkOnlyOne DEF PkUnder
<1>2. "uncount" \in PkMoving
  BY DEF PkMoving
<1> QED BY <1>1, <1>2 DEF PkGap, PkTwice, Pack!At

-----------------------------------------------------------------------------
(* Every step keeps the entries in order.                                  *)

LEMMA PkKeysStep ==
  ASSUME PkState, NEW t \in Threads, PkStepOf(t)
  PROVE  PkKeysOk'
<1> DEFINE n == PkCount
           myKey == call[t].key
<1>1. /\ PkSharedType /\ PkFilled(PkCount) /\ PkKeysOk
      /\ PkControl(t) /\ PkEntryOk(t) /\ PkEffect(t) /\ PkOthersSame(t)
  BY PkStepFacts
<1>2. /\ n \in Nat /\ n <= Len(cells) /\ Len(cells) \in Nat
      /\ DOMAIN cells = 1 .. Len(cells) /\ 1 .. n \subseteq DOMAIN cells
      /\ Entries \in Nat \ {0} /\ NoKey \notin Keys
  BY <1>1, PkLive, PkChainType, CallsAssumption
<1>3. IF PkEnters(t) THEN PkCount' = n + 1
      ELSE IF PkDrops(t) THEN PkCount' = n - 1 ELSE PkCount' = n
  BY PkCountStep
<1>4. call[t].op = "put" => call[t].val \in Pack!Vals /\ myKey \in Keys
  BY <1>1, PkCallOf, PkCallTypes, PkStepFacts DEF PkLocalType
<1>5. CASE PkKeeps(t)
  <2>1. UNCHANGED cells /\ pc[t] \notin PkMoving /\ pc'[t] \notin PkMoving
    BY <1>5 DEF PkKeeps, PkUnder
  <2>2. PkCount' = n
    BY <1>3, <1>5, PkLabels
    DEF PkKeeps, PkUnder, PkAdding, PkMoving, PkEnters, PkDrops, Pack!At
  <2>3. \A i : PkGap(i)' <=> PkGap(i)
    BY <1>1, <2>1 DEF PkGap, PkOthersSame
  <2>4. \A i, j : PkTwice(i, j)' <=> PkTwice(i, j)
    BY <1>1, <2>1, <2>2 DEF PkTwice, PkOthersSame, PkMoving, Pack!At
  <2> QED BY <1>1, <2>1, <2>2, <2>3, <2>4 DEF PkKeysOk
<1>6. ASSUME ~PkKeeps(t)
      PROVE  /\ \A i : PkGap(i) <=> pc[t] \in PkMoving /\ idx[t] = i
             /\ \A i : PkGap(i)' <=> pc'[t] \in PkMoving /\ idx'[t] = i
             /\ \A i, j : PkTwice(i, j) <=>
                  pc[t] = "uncount" /\ {i, j} = {idx[t], n}
             /\ \A i, j : PkTwice(i, j)' <=>
                  pc'[t] = "uncount" /\ {i, j} = {idx'[t], PkCount'}
  BY <1>6, PkGapStep
<1>7. ASSUME ~PkKeeps(t), pc[t] \notin PkMoving
      PROVE  \A i \in 1 .. n :
               /\ cells[i].key \in Keys /\ cells[i].val \in Pack!Vals
               /\ \A j \in 1 .. n : cells[j].key = cells[i].key => j = i
  BY <1>1, <1>6, <1>7 DEF PkKeysOk, PkMoving
<1>8. CASE PkFills(t) \/ PkLinks(t) \/ PkNames(t)
  <2>1. /\ PkCount' = n /\ ~PkKeeps(t)
        /\ pc[t] \notin PkMoving /\ pc'[t] \notin PkMoving
    BY <1>3, <1>8, PkLabels
    DEF PkKeeps, PkEnters, PkDrops, PkFills, PkLinks, PkNames, PkFreeFor,
        Pack!At, PkUnder, PkAdding, PkMoving
  <2>2. \A i \in 1 .. n : /\ cells'[i].key = cells[i].key
                          /\ cells'[i].val = cells[i].val
    <3>1. CASE PkFills(t)
      BY <1>2, <3>1 DEF PkFills, PkValTo
    <3>2. CASE PkLinks(t)
      BY <1>2, <3>2 DEF PkLinks, PkLonger
    <3>3. CASE PkNames(t)
      <4>1. idx[t] = n + 1
        BY <1>1, <3>3 DEF PkNames, PkEntryOk, PkAdding, Pack!At
      <4> QED BY <1>2, <3>3, <4>1 DEF PkNames, PkKeyTo
    <3> QED BY <1>8, <3>1, <3>2, <3>3
  <2> QED BY <1>7, <2>1, <2>2 DEF PkKeysOk
<1>9. CASE PkEnters(t)
  <2>1. /\ PkCount' = n + 1 /\ ~PkKeeps(t) /\ UNCHANGED cells
        /\ pc[t] \notin PkMoving /\ call[t].op = "put"
        /\ cells[n + 1].key = myKey /\ cells[n + 1].val = call[t].val
        /\ \A i \in 1 .. n : cells[i].key # myKey
    BY <1>1, <1>3, <1>9
    DEF PkEnters, PkKeeps, PkUnder, PkAdding, PkMoving, PkEntryOk, Pack!At,
        PkControl
  <2>2. \A i \in 1 .. n + 1 : i \in 1 .. n \/ i = n + 1
    BY <1>2
  <2>3. \A i \in 1 .. n + 1 :
          /\ cells[i].key \in Keys /\ cells[i].val \in Pack!Vals
          /\ \A j \in 1 .. n + 1 : cells[j].key = cells[i].key => j = i
    BY <1>4, <1>7, <2>1, <2>2
  <2> QED BY <2>1, <2>3 DEF PkKeysOk
<1>10. CASE PkTakes(t)
  <2>1. /\ PkCount' = n /\ ~PkKeeps(t) /\ pc[t] \notin PkMoving
        /\ idx'[t] \in 1 .. n /\ pc'[t] \in PkMoving
        /\ PkKeyTo(idx'[t], NoKey)
    BY <1>3, <1>10
    DEF PkKeeps, PkEnters, PkDrops, PkTakes, Pack!At, PkUnder, PkMoving,
        PkAdding
  <2>2. \A i \in 1 .. n :
          /\ cells'[i].key = IF i = idx'[t] THEN NoKey ELSE cells[i].key
          /\ cells'[i].val = cells[i].val
    BY <1>2, <2>1 DEF PkKeyTo
  <2>3. \A i : i = idx'[t] => PkGap(i)'
    BY <1>6, <2>1
  <2>4. ASSUME NEW i \in 1 .. n
        PROVE  /\ cells'[i].key \in Keys => cells'[i].val \in Pack!Vals
               /\ cells'[i].key \in Keys \/ PkGap(i)'
               /\ \A j \in 1 .. n :
                    cells'[i].key \in Keys /\ cells'[j].key = cells'[i].key
                      => i = j
    <3>1. CASE i = idx'[t]
      BY <1>2, <2>2, <2>3, <3>1
    <3>2. CASE i # idx'[t]
      BY <1>2, <1>6, <1>7, <2>1, <2>2, <3>2
    <3> QED BY <3>1, <3>2
  <2> QED BY <2>1, <2>4 DEF PkKeysOk
<1>11. CASE PkCopiesVal(t)
  <2>1. /\ PkCount' = n /\ ~PkKeeps(t)
        /\ pc[t] = "move_val" /\ pc'[t] = "move_key" /\ idx'[t] = idx[t]
        /\ idx[t] \in 1 .. n /\ cells[idx[t]].key = NoKey
        /\ PkValTo(idx[t], cells[n].val)
    BY <1>1, <1>3, <1>11
    DEF PkKeeps, PkEnters, PkDrops, PkCopiesVal, Pack!At, PkUnder,
        PkMoving, PkAdding, PkEntryOk
  <2>2. \A i \in 1 .. n :
          /\ cells'[i].key = cells[i].key
          /\ cells[i].key \in Keys => cells'[i].val = cells[i].val
    BY <1>2, <2>1 DEF PkValTo
  <2>3. \A i : PkGap(i)' <=> PkGap(i)
    BY <1>6, <2>1 DEF PkMoving
  <2>4. \A i, j : ~PkTwice(i, j)
    BY <1>6, <2>1
  <2> QED BY <1>1, <2>1, <2>2, <2>3, <2>4 DEF PkKeysOk
<1>12. CASE PkCopiesKey(t)
  <2>1. /\ PkCount' = n /\ ~PkKeeps(t)
        /\ pc[t] = "move_key" /\ pc'[t] = "uncount" /\ idx'[t] = idx[t]
        /\ idx[t] \in 1 .. n /\ cells[idx[t]].key = NoKey
        /\ cells[idx[t]].val = cells[n].val /\ n \in 1 .. n
        /\ PkKeyTo(idx[t], cells[n].key)
    <3>1. /\ pc[t] = "move_key" /\ pc'[t] = "uncount" /\ idx'[t] = idx[t]
          /\ ~PkKeeps(t) /\ PkKeyTo(idx[t], cells[n].key)
      BY <1>12 DEF PkKeeps, PkCopiesKey, Pack!At, PkUnder, PkMoving, PkAdding
    <3>2. PkCount' = n
      BY <1>3, <3>1 DEF PkEnters, PkDrops, Pack!At
    <3>3. /\ idx[t] \in 1 .. n /\ cells[idx[t]].key = NoKey
          /\ cells[idx[t]].val = cells[n].val
      BY <1>1, <3>1 DEF PkEntryOk, PkMoving
    <3> QED BY <1>2, <3>1, <3>2, <3>3
  <2>2. \A i \in 1 .. n :
          /\ cells'[i].key = IF i = idx[t] THEN cells[n].key ELSE cells[i].key
          /\ cells'[i].val = cells[i].val
    BY <1>2, <2>1 DEF PkKeyTo
  <2>3. \A i : PkGap(i)' <=> PkGap(i)
    BY <1>6, <2>1 DEF PkMoving
  <2>4. \A i, j \in 1 .. n :
          cells[i].key \in Keys /\ cells[j].key = cells[i].key => i = j
    BY <1>1, <1>6, <2>1 DEF PkKeysOk
  <2>5. \A i, j : PkTwice(i, j)' <=> {i, j} = {idx[t], n}
    BY <1>6, <2>1
  <2>6. ASSUME NEW i \in 1 .. n, NEW j \in 1 .. n,
               cells'[i].key \in Keys, cells'[j].key = cells'[i].key, i # j
        PROVE  {i, j} = {idx[t], n}
    <3>1. CASE i # idx[t] /\ j # idx[t]
      BY <2>2, <2>4, <2>6, <3>1
    <3>2. CASE i = idx[t] /\ j # idx[t]
      <4>1. cells[n].key \in Keys /\ cells[j].key = cells[n].key
        BY <2>2, <2>6, <3>2
      <4>2. j = n
        BY <2>1, <2>4, <4>1
      <4> QED BY <3>2, <4>2
    <3>3. CASE i # idx[t] /\ j = idx[t]
      <4>1. cells[i].key \in Keys /\ cells[i].key = cells[n].key
        BY <2>2, <2>6, <3>3
      <4>2. i = n
        BY <2>1, <2>4, <4>1
      <4> QED BY <3>3, <4>2
    <3> QED BY <2>6, <3>1, <3>2, <3>3
  <2>7. \A i \in 1 .. n :
          /\ cells'[i].key \in Keys => cells'[i].val \in Pack!Vals
          /\ cells'[i].key \in Keys \/ PkGap(i)
    BY <1>1, <1>6, <2>1, <2>2 DEF PkKeysOk, PkMoving
  <2> QED BY <2>1, <2>3, <2>5, <2>6, <2>7 DEF PkKeysOk
<1>13. CASE PkDrops(t)
  <2>1. /\ PkCount' = n - 1 /\ ~PkKeeps(t) /\ UNCHANGED cells
        /\ pc[t] = "uncount" /\ pc'[t] = "idle"
        /\ idx[t] \in 1 .. n /\ cells[idx[t]].key = cells[n].key
        /\ n \in 1 .. n
    <3>1. /\ pc[t] = "uncount" /\ pc'[t] = "idle" /\ UNCHANGED cells
          /\ ~PkKeeps(t)
      BY <1>13 DEF PkKeeps, PkDrops, Pack!At, PkUnder, PkMoving, PkAdding
    <3>2. PkCount' = n - 1
      BY <1>3, <1>13, <3>1 DEF PkEnters, Pack!At
    <3>3. idx[t] \in 1 .. n /\ cells[idx[t]].key = cells[n].key
      BY <1>1, <3>1 DEF PkEntryOk, PkMoving, Pack!At
    <3> QED BY <1>2, <3>1, <3>2, <3>3
  <2>2. \A i \in 1 .. n - 1 : i \in 1 .. n /\ i # n
    BY <1>2
  <2>3. \A i \in 1 .. n - 1 : cells[i].key \in Keys
    <3> TAKE i \in 1 .. n - 1
    <3>1. CASE i # idx[t]
      BY <1>1, <1>6, <2>1, <2>2, <3>1 DEF PkKeysOk
    <3>2. CASE i = idx[t]
      <4>1. n # idx[t]
        BY <2>2, <3>2
      <4>2. cells[n].key \in Keys
        BY <1>1, <1>6, <2>1, <4>1 DEF PkKeysOk
      <4> QED BY <2>1, <3>2, <4>2
    <3> QED BY <3>1, <3>2
  <2>4. \A i, j \in 1 .. n - 1 : cells[j].key = cells[i].key => i = j
    <3> TAKE i, j \in 1 .. n - 1
    <3>1. {i, j} # {idx[t], n}
      BY <2>2
    <3> QED BY <1>1, <1>6, <2>1, <2>2, <2>3, <3>1 DEF PkKeysOk
  <2> QED BY <1>1, <2>1, <2>2, <2>3, <2>4 DEF PkKeysOk
<1> QED
  BY <1>1, <1>5, <1>8, <1>9, <1>10, <1>11, <1>12, <1>13 DEF PkEffect

LEMMA PkActorEntry ==
  ASSUME PkState, NEW t \in Threads, PkStepOf(t)
  PROVE  PkEntryOk(t)'
<1>1. /\ PkSharedType /\ PkFilled(PkCount)
      /\ PkControl(t) /\ PkEntryOk(t) /\ PkEffect(t)
  BY PkStepFacts
<1>2. /\ PkCount \in Nat /\ PkCount <= Len(cells) /\ Len(cells) \in Nat
      /\ DOMAIN cells = 1 .. Len(cells)
      /\ 1 .. PkCount \subseteq DOMAIN cells
      /\ Entries \in Nat \ {0}
  BY <1>1, PkLive, PkChainType, CallsAssumption
<1>3. IF PkEnters(t) THEN PkCount' = PkCount + 1
      ELSE IF PkDrops(t) THEN PkCount' = PkCount - 1 ELSE PkCount' = PkCount
  BY PkCountStep
<1>4. CASE pc'[t] \notin PkUnder
  BY <1>4 DEF PkEntryOk, PkUnder, PkAdding, PkMoving, Pack!At
<1>5. CASE PkFills(t)
  <2>1. /\ PkCount' = PkCount /\ lock' = t /\ call'[t] = call[t]
        /\ pc'[t] = "write_key" /\ idx'[t] = PkCount + 1
        /\ PkCount < Len(cells) /\ PkValTo(PkCount + 1, call[t].val)
        /\ \A i \in 1 .. PkCount : cells[i].key # call[t].key
    BY <1>3, <1>5
    DEF PkFills, PkFreeFor, PkStaysIn, PkEnters, PkDrops, Pack!At
  <2>2. PkCount + 1 \in DOMAIN cells
    BY <1>2, <2>1
  <2>3. /\ idx'[t] \in DOMAIN cells'
        /\ \A i \in 1 .. PkCount : cells'[i].key # call[t].key
        /\ cells'[idx'[t]].val = call[t].val
    BY <1>2, <2>1, <2>2 DEF PkValTo
  <2> QED BY <2>1, <2>3 DEF PkEntryOk, PkAdding, PkMoving, Pack!At
<1>6. CASE PkLinks(t)
  <2>1. /\ PkCount' = PkCount /\ lock' = t /\ call'[t] = call[t]
        /\ pc'[t] = "count" /\ idx'[t] = PkCount + 1
        /\ PkCount = Len(cells) /\ PkLonger(call[t].key, call[t].val)
        /\ \A i \in 1 .. PkCount : cells[i].key # call[t].key
    BY <1>3, <1>6
    DEF PkLinks, PkFreeFor, PkStaysIn, PkEnters, PkDrops, Pack!At
  <2>2. /\ idx'[t] \in DOMAIN cells'
        /\ \A i \in 1 .. PkCount : cells'[i].key # call[t].key
        /\ cells'[idx'[t]].val = call[t].val
        /\ cells'[idx'[t]].key = call[t].key
    BY <1>2, <2>1 DEF PkLonger
  <2> QED BY <2>1, <2>2 DEF PkEntryOk, PkAdding, PkMoving, Pack!At
<1>7. CASE PkNames(t)
  <2>1. /\ PkCount' = PkCount /\ lock' = t /\ call'[t] = call[t]
        /\ pc[t] = "write_key" /\ pc'[t] = "count" /\ idx'[t] = idx[t]
        /\ PkKeyTo(idx[t], call[t].key)
    BY <1>3, <1>7 DEF PkNames, PkStaysIn, PkEnters, PkDrops, Pack!At
  <2>2. /\ idx[t] = PkCount + 1 /\ idx[t] \in DOMAIN cells
        /\ \A i \in 1 .. PkCount : cells[i].key # call[t].key
        /\ cells[idx[t]].val = call[t].val
    BY <1>1, <2>1 DEF PkEntryOk, PkAdding
  <2>3. /\ idx'[t] = idx[t] /\ DOMAIN cells' = DOMAIN cells
        /\ \A j \in DOMAIN cells :
             /\ cells'[j].key = IF j = idx[t] THEN call[t].key
                               ELSE cells[j].key
             /\ cells'[j].val = cells[j].val
    BY <2>1 DEF PkKeyTo
  <2>4. \A i \in 1 .. PkCount : i \in DOMAIN cells /\ i # idx[t]
    BY <1>2, <2>2
  <2>5. /\ idx'[t] \in DOMAIN cells'
        /\ \A i \in 1 .. PkCount : cells'[i].key # call[t].key
        /\ cells'[idx'[t]].val = call[t].val
        /\ cells'[idx'[t]].key = call[t].key
    BY <2>2, <2>3, <2>4
  <2> QED BY <2>1, <2>2, <2>5 DEF PkEntryOk, PkAdding, PkMoving, Pack!At
<1>8. CASE PkTakes(t)
  <2>1. /\ PkCount' = PkCount /\ lock' = t /\ pc'[t] = "move_val"
        /\ idx'[t] \in 1 .. PkCount /\ PkKeyTo(idx'[t], NoKey)
    BY <1>3, <1>8 DEF PkTakes, PkEnters, PkDrops, Pack!At
  <2>2. cells'[idx'[t]].key = NoKey
    BY <1>2, <2>1 DEF PkKeyTo
  <2> QED BY <2>1, <2>2 DEF PkEntryOk, PkAdding, PkMoving, Pack!At
<1>9. CASE PkCopiesVal(t)
  <2>1. /\ PkCount' = PkCount /\ lock' = t /\ pc[t] = "move_val"
        /\ pc'[t] = "move_key"
        /\ idx'[t] = idx[t] /\ PkValTo(idx[t], cells[PkCount].val)
    BY <1>3, <1>9 DEF PkCopiesVal, PkStaysIn, PkEnters, PkDrops, Pack!At
  <2>2. idx[t] \in 1 .. PkCount /\ cells[idx[t]].key = NoKey
    BY <1>1, <2>1 DEF PkEntryOk, PkMoving
  <2>3. PkCount \in DOMAIN cells
    BY <1>2, <2>2
  <2>4. /\ cells'[idx[t]].key = NoKey
        /\ cells'[idx[t]].val = cells'[PkCount].val
    BY <1>2, <2>1, <2>2, <2>3 DEF PkValTo
  <2> QED BY <2>1, <2>2, <2>4 DEF PkEntryOk, PkAdding, PkMoving, Pack!At
<1>10. CASE PkCopiesKey(t)
  <2>1. /\ PkCount' = PkCount /\ lock' = t /\ pc[t] = "move_key"
        /\ pc'[t] = "uncount"
        /\ idx'[t] = idx[t] /\ PkKeyTo(idx[t], cells[PkCount].key)
    BY <1>3, <1>10 DEF PkCopiesKey, PkStaysIn, PkEnters, PkDrops, Pack!At
  <2>2. /\ idx[t] \in 1 .. PkCount /\ cells[idx[t]].key = NoKey
        /\ cells[idx[t]].val = cells[PkCount].val
    BY <1>1, <2>1 DEF PkEntryOk, PkMoving
  <2>3. PkCount \in DOMAIN cells
    BY <1>2, <2>2
  <2>4. /\ cells'[idx[t]].key = cells'[PkCount].key
        /\ idx[t] = PkCount => cells'[idx[t]].key = NoKey
        /\ cells'[idx[t]].val = cells'[PkCount].val
    BY <1>2, <2>1, <2>2, <2>3 DEF PkKeyTo
  <2> QED BY <2>1, <2>2, <2>4 DEF PkEntryOk, PkAdding, PkMoving, Pack!At
<1> QED
  BY <1>1, <1>4, <1>5, <1>6, <1>7, <1>8, <1>9, <1>10, PkLabels
  DEF PkEffect, PkKeeps

LEMMA PkOtherEntry ==
  ASSUME PkState, NEW t \in Threads, NEW u \in Threads \ {t}, PkStepOf(t)
  PROVE  PkControl(u)' /\ PkEntryOk(u)'
<1>1. /\ PkOthersSame(t) /\ PkControl(u) /\ PkEntryOk(u) /\ PkEffect(t)
  BY PkStepFacts, PkStateParts
<1>2. pc'[u] = pc[u] /\ call'[u] = call[u] /\ idx'[u] = idx[u]
  BY <1>1 DEF PkOthersSame
<1>3. PkControl(u)'
  BY <1>1, <1>2 DEF PkControl, PkGetting, PkAdding, PkMoving
<1>4. CASE pc[u] \in PkUnder
  <2>1. PkKeeps(t)
    BY <1>4, PkOnlyOne
  <2>2. PkCount' = PkCount /\ UNCHANGED <<cells, lock>>
    BY <2>1, PkCountStep
    DEF PkKeeps, PkUnder, PkAdding, PkMoving, PkEnters, PkDrops, Pack!At
  <2> QED
    BY <1>1, <1>2, <1>3, <2>2 DEF PkEntryOk, PkAdding, PkMoving, Pack!At
<1>5. CASE pc[u] \notin PkUnder
  BY <1>2, <1>3, <1>5 DEF PkEntryOk, PkUnder, PkAdding, PkMoving, Pack!At
<1> QED BY <1>4, <1>5

-----------------------------------------------------------------------------
(* The searches stay among the entries that count.                         *)

LEMMA PkActorCounted ==
  ASSUME PkState, NEW t \in Threads, PkStepOf(t)
  PROVE  PkCounted(t)'
<1>1. PkReady(t) /\ PkCounted(t)
  BY PkStepFacts DEF PkReady
<1>2. SUFFICES ASSUME ~moved'[t],
                      pc'[t] \in {"get_val", "get_key", "get_again", "exists"}
               PROVE  idx'[t] = 0 \/ Pack!Here(t)' <= PkCount'
  BY DEF PkCounted
<1>3. /\ PkLocalType /\ PkPlaceType /\ PkSharedType /\ PkFilled(PkCount)
  BY <1>1 DEF PkReady
<1>4. \/ Pack!ReadLast(t) \/ Pack!GetVal(t) \/ Pack!GetKey(t)
      \/ Pack!GetAgain(t) \/ Pack!Exists(t)
  <2>1. ASSUME Pack!Get(t) \/ Pack!Put(t) \/ Pack!Remove(t)
        PROVE  pc'[t] \in {"get_last", "exists_last"}
    BY <1>3, <2>1
    DEF Pack!Get, Pack!Put, Pack!Remove, Pack!Start1, Pack!Begin, Pack!Goto,
        PkLocalType
  <2>2. ASSUME \/ Pack!PutLocked(t) \/ Pack!WriteKey(t) \/ Pack!Count(t)
               \/ Pack!RemoveLocked(t) \/ Pack!MoveVal(t)
               \/ Pack!MoveKey(t) \/ Pack!Uncount(t)
        PROVE  pc'[t] \in {"idle", "write_key", "count", "move_val",
                           "move_key", "uncount"}
    BY <1>3, <2>2
    DEF Pack!PutLocked, Pack!WriteKey, Pack!Count, Pack!RemoveLocked,
        Pack!MoveVal, Pack!MoveKey, Pack!Uncount, Pack!Hold, Pack!Finish,
        Pack!Return, Pack!Decide, Pack!Goto, PkLocalType
  <2> QED BY <1>2, <2>1, <2>2 DEF PkStepOf, Pack!Work
<1>5. /\ PkCount' = PkCount /\ moved' = moved
  <2>1. pc[t] \in PkSearching /\ moved' = moved
    BY <1>4
    DEF Pack!ReadLast, Pack!GetVal, Pack!GetKey, Pack!GetAgain, Pack!Exists,
        Pack!At, Pack!chain, PkSearching, PkGetting
  <2> QED
    BY <2>1, PkCountStep
    DEF PkEnters, PkDrops, PkSearching, PkGetting, Pack!At
<1>6. /\ bucket[t] \in DOMAIN last /\ bucket[t] \in Nat \ {0}
      /\ PkCount \in Nat /\ idx[t] \in Nat
      /\ last[bucket[t]] = PkFill(PkCount, bucket[t])
  <2>1. bucket[t] \in 1 .. Len(last) /\ DOMAIN last = 1 .. Len(last)
        /\ Len(last) \in Nat
    BY <1>3, PkChainType DEF PkPlaceType
  <2> QED BY <1>3, <2>1, PkLive DEF PkLocalType
<1>7. Pack!Start(bucket[t]) \in Nat /\ Entries \in Nat \ {0}
  BY <1>6, PkStarts
<1>8. CASE Pack!ReadLast(t)
  <2>1. idx'[t] = last[bucket[t]] /\ bucket'[t] = bucket[t]
    BY <1>3, <1>8 DEF Pack!ReadLast, Pack!SetIdx, PkLocalType
  <2>2. Pack!Here(t)' = Pack!Start(bucket[t]) + last[bucket[t]]
    BY <2>1 DEF Pack!Here
  <2> QED BY <1>5, <1>6, <1>7, <2>1, <2>2 DEF PkFill
<1>9. CASE bucket'[t] = bucket[t] /\ idx'[t] \in {idx[t], idx[t] - 1}
           /\ idx[t] > 0 /\ ~Pack!ReadLast(t)
  <2>1. /\ Pack!Here(t)' = Pack!Start(bucket[t]) + idx'[t]
        /\ Pack!Here(t) = Pack!Start(bucket[t]) + idx[t]
    BY <1>9 DEF Pack!Here
  <2>2. pc[t] \in {"get_val", "get_key", "get_again", "exists"} /\ ~moved[t]
    BY <1>2, <1>4, <1>5, <1>9
    DEF Pack!GetVal, Pack!GetKey, Pack!GetAgain, Pack!Exists, Pack!At
  <2>3. Pack!Here(t) <= PkCount
    BY <1>1, <1>6, <1>9, <2>2 DEF PkCounted
  <2> QED BY <1>5, <1>6, <1>7, <1>9, <2>1, <2>3
<1>10. ASSUME Pack!GetVal(t) \/ Pack!GetKey(t) \/ Pack!GetAgain(t)
                \/ Pack!Exists(t), ~Pack!ReadLast(t)
       PROVE  /\ bucket'[t] = bucket[t] /\ idx'[t] \in {idx[t], idx[t] - 1}
              /\ idx[t] > 0
  <2>1. ASSUME NEW r PROVE ~Pack!Return(t, r)
    <3>1. Pack!Return(t, r) => pc'[t] = "idle"
      BY <1>3 DEF Pack!Return, Pack!Decide, Pack!Goto, PkLocalType
    <3> QED BY <1>2, <3>1
  <2>2. ASSUME NEW label \in {"get_last", "exists_last"}
        PROVE  ~Pack!NextBucket(t, label)
    <3>1. Pack!NextBucket(t, label) => pc'[t] = label
      BY <1>3 DEF Pack!NextBucket, Pack!Goto, PkLocalType
    <3> QED BY <1>2, <3>1
  <2>3. ASSUME Pack!Goto(t, "lock") PROVE FALSE
    BY <1>2, <1>3, <2>3 DEF Pack!Goto, PkLocalType
  <2>4. CASE Pack!GetVal(t)
    BY <2>1, <2>2, <2>4 DEF Pack!GetVal
  <2>5. CASE Pack!GetKey(t)
    <3>1. idx[t] \in 1 .. Entries
      BY <1>1, <2>5 DEF PkReady, PkControl, Pack!GetKey, Pack!At
    <3>2. bucket' = bucket /\ (idx' = idx \/ Pack!SetIdx(t, idx[t] - 1))
      BY <2>5 DEF Pack!GetKey, Pack!chain
    <3> QED BY <1>3, <1>7, <3>1, <3>2 DEF Pack!SetIdx, PkLocalType
  <2>6. CASE Pack!GetAgain(t)
    BY <2>1, <2>6 DEF Pack!GetAgain
  <2>7. CASE Pack!Exists(t)
    <3>1. /\ UNCHANGED bucket /\ idx[t] > 0 /\ Pack!SetIdx(t, idx[t] - 1)
      BY <2>1, <2>2, <2>3, <2>7 DEF Pack!Exists, Pack!ExistsDone
    <3> QED BY <1>3, <3>1 DEF Pack!SetIdx, PkLocalType
  <2> QED BY <1>10, <2>4, <2>5, <2>6, <2>7
<1> QED BY <1>4, <1>8, <1>9, <1>10

(* What another thread is at is where it was; and if it counts no more,    *)
(* the thread knows that an entry has moved.                               *)
LEMMA PkOtherCounted ==
  ASSUME PkState, NEW t \in Threads, NEW u \in Threads \ {t}, PkStepOf(t)
  PROVE  PkCounted(u)'
<1>1. /\ PkOthersSame(t) /\ PkCounted(u) /\ PkControl(u) /\ PkEffect(t)
      /\ PkLocalType /\ PkPlaceType /\ PkFilled(PkCount) /\ PkSharedType
  BY PkStepFacts, PkStateParts
<1>2. /\ pc'[u] = pc[u] /\ idx'[u] = idx[u] /\ bucket'[u] = bucket[u]
      /\ Pack!Here(u)' = Pack!Here(u)
  BY <1>1 DEF PkOthersSame, Pack!Here
<1>3. SUFFICES ASSUME ~moved'[u],
                      pc[u] \in {"get_val", "get_key", "get_again", "exists"}
               PROVE  idx[u] = 0 \/ Pack!Here(u) <= PkCount'
  BY <1>2 DEF PkCounted
<1>4. call[u] # Pack!Idle
  BY <1>1, <1>3 DEF PkControl, PkMoving
<1>5. ~moved[u] /\ ~PkDrops(t)
  BY <1>1, <1>3, <1>4
  DEF PkEffect, PkKeeps, PkFills, PkLinks, PkNames, PkEnters, PkTakes,
      PkCopiesVal, PkCopiesKey, PkDrops, PkMoves, PkNoMove
<1>6. PkCount' \in {PkCount, PkCount + 1} /\ PkCount \in Nat
  BY <1>1, <1>5, PkCountStep, PkLive
<1>7. idx[u] = 0 \/ Pack!Here(u) <= PkCount
  BY <1>1, <1>3, <1>5 DEF PkCounted
<1>8. Pack!Here(u) \in Nat
  <2>1. bucket[u] \in Nat \ {0} /\ idx[u] \in Nat
    BY <1>1, PkChainType DEF PkPlaceType, PkLocalType
  <2>2. Pack!Start(bucket[u]) \in Nat
    BY <2>1, PkStarts
  <2> QED BY <2>1, <2>2 DEF Pack!Here
<1> QED BY <1>6, <1>7, <1>8

-----------------------------------------------------------------------------
(* The map that the entries stand for.                                     *)
PkTyped ==
  /\ PkSharedType /\ PkFilled(PkCount) /\ PkKeysOk
  /\ \A t \in Threads : PkEntryOk(t)
PkStoreFacts ==
  \A k \in Keys :
    /\ Pack!Store[k] \in PkVals
    /\ (\A i \in 1 .. PkCount : cells[i].key # k)
         => Pack!Store[k] = Pack!NoVal
    /\ \A i \in 1 .. PkCount : cells[i].key = k =>
         Pack!Store[k] = cells[i].val /\ cells[i].val \in Pack!Vals

LEMMA PkStoreIs == PkTyped => PkStoreFacts
<1> SUFFICES ASSUME PkTyped, NEW k \in Keys
             PROVE  /\ Pack!Store[k] \in PkVals
                    /\ (\A i \in 1 .. PkCount : cells[i].key # k)
                         => Pack!Store[k] = Pack!NoVal
                    /\ \A i \in 1 .. PkCount : cells[i].key = k =>
                         /\ Pack!Store[k] = cells[i].val
                         /\ cells[i].val \in Pack!Vals
  BY DEF PkStoreFacts
<1> DEFINE found == Pack!Having(k) \cap Pack!Live
           m == Pack!Min(found)
<1>1. /\ PkCount \in Nat /\ Pack!Live = 1 .. PkCount
      /\ 1 .. PkCount \subseteq DOMAIN cells /\ PkKeysOk
  BY PkLive DEF PkTyped
<1>2. found = {i \in 1 .. PkCount : cells[i].key = k}
  BY <1>1 DEF Pack!Having
<1>3. Pack!Store[k] = IF found = {} THEN Pack!NoVal ELSE cells[m].val
  BY DEF Pack!Store
<1>4. CASE found = {}
  BY <1>2, <1>3, <1>4, PkValueFacts
<1>5. CASE found # {}
  <2>1. m \in found
    <3>1. found \subseteq Nat
      BY <1>1, <1>2
    <3> HIDE DEF found
    <3>2. \E x \in found : \A y \in found : x <= y
      BY <1>5, <3>1, LeastNumber
    <3> QED BY <3>2 DEF Pack!Min
  <2>2. m \in 1 .. PkCount /\ cells[m].key = k
    BY <1>2, <2>1
  <2> HIDE DEF m
  <2>3. cells[m].val \in Pack!Vals
    BY <1>1, <2>2 DEF PkKeysOk
  <2>4. ASSUME NEW i \in 1 .. PkCount, cells[i].key = k
        PROVE  cells[i].val = cells[m].val
    <3>1. CASE i = m
      BY <3>1
    <3>2. CASE i # m
      <4>1. PkTwice(m, i)
        BY <1>1, <2>2, <2>4, <3>2 DEF PkKeysOk
      <4>2. PICK t \in Threads :
              Pack!At(t, "uncount") /\ {m, i} = {idx[t], PkCount}
        BY <4>1 DEF PkTwice
      <4>3. cells[idx[t]].val = cells[PkCount].val
        BY <4>2 DEF PkTyped, PkEntryOk, Pack!At
      <4>4. (m = idx[t] /\ i = PkCount) \/ (m = PkCount /\ i = idx[t])
        BY <3>2, <4>2
      <4> QED BY <4>3, <4>4
    <3> QED BY <3>1, <3>2
  <2> QED BY <1>2, <1>3, <1>5, <2>2, <2>3, <2>4, PkValueFacts
<1> QED BY <1>4, <1>5

LEMMA PkNextStoreIs == PkTyped' => PkStoreFacts'
BY PkStoreIs, PTL

LEMMA PkStoreSame ==
  ASSUME PkStoreFacts, PkStoreFacts', NEW k \in Keys,
         \A i \in 1 .. PkCount : cells[i].key = k =>
           \E j \in 1 .. PkCount' :
             cells'[j].key = k /\ cells'[j].val = cells[i].val,
         \A i \in 1 .. PkCount' : cells'[i].key = k =>
           \E j \in 1 .. PkCount : cells[j].key = k
  PROVE  Pack!Store'[k] = Pack!Store[k]
<1>1. CASE \E i \in 1 .. PkCount : cells[i].key = k
  <2>1. PICK i \in 1 .. PkCount : cells[i].key = k
    BY <1>1
  <2>2. PICK j \in 1 .. PkCount' :
          cells'[j].key = k /\ cells'[j].val = cells[i].val
    BY <2>1
  <2>3. Pack!Store[k] = cells[i].val
    BY <2>1 DEF PkStoreFacts
  <2>4. Pack!Store'[k] = cells'[j].val
    BY <2>2 DEF PkStoreFacts
  <2> QED BY <2>2, <2>3, <2>4
<1>2. CASE \A i \in 1 .. PkCount : cells[i].key # k
  <2>1. \A i \in 1 .. PkCount' : cells'[i].key # k
    BY <1>2
  <2> QED BY <1>2, <2>1 DEF PkStoreFacts
<1> QED BY <1>1, <1>2

-----------------------------------------------------------------------------
(* The state of the table is good, always.                                 *)

LEMMA PkTypedStep ==
  ASSUME PkState, NEW t \in Threads, PkStepOf(t)
  PROVE  /\ PkTyped /\ PkStoreFacts /\ PkTyped' /\ PkStoreFacts'
         /\ \A u \in Threads : PkControl(u)' /\ PkCounted(u)' /\ PkEntryOk(u)'
<1>1. PkTyped
  BY PkStateParts DEF PkTyped
<1>2. PkSharedType' /\ PkFilled(PkCount)' /\ PkKeysOk' /\ PkControl(t)'
  BY PkStepFacts, PkCountStep, PkKeysStep
<1>3. \A u \in Threads : PkControl(u)' /\ PkCounted(u)' /\ PkEntryOk(u)'
  BY <1>2, PkActorEntry, PkOtherEntry, PkActorCounted, PkOtherCounted
<1>4. PkTyped'
  BY <1>2, <1>3 DEF PkTyped
<1> QED BY <1>1, <1>3, <1>4, PkStoreIs, PkNextStoreIs

LEMMA PkStepState ==
  ASSUME PkState, NEW t \in Threads, PkStepOf(t),
         Pack!Observe(Pack!Store', call')
  PROVE  PkState'
<1>1. /\ PkLocalType' /\ PkPlaceType' /\ PkSharedType' /\ PkSeenType
      /\ PkStoreFacts' /\ PkTyped'
      /\ \A u \in Threads : PkControl(u)' /\ PkCounted(u)' /\ PkEntryOk(u)'
  BY PkStepFacts, PkStateParts, PkTypedStep
<1>2. PkSeenType'
  <2> SUFFICES ASSUME NEW u \in Threads, call'[u] # Pack!Idle
               PROVE  seen[u] \cup {Pack!Store'[call'[u].key]}
                        \in SUBSET PkVals
    BY DEF PkSeenType, Pack!Observe
  <2>1. call'[u] \in Pack!Calls
    BY <1>1 DEF PkLocalType
  <2> QED BY <1>1, <2>1, PkCallTypes DEF PkSeenType, PkStoreFacts
<1>3. Pack!TypeOK'
  BY <1>1, <1>2, PkTypeParts, PTL
<1>4. PkFilled(PkCount)' /\ PkKeysOk'
  BY <1>1 DEF PkTyped
<1> QED BY <1>1, <1>3, <1>4 DEF PkState

LEMMA PkInitState ==
  Pack!Init => PkState /\ PkCount = 0
<1> SUFFICES ASSUME Pack!Init PROVE PkState /\ PkCount = 0
  OBVIOUS
<1>1. /\ Entries \in Nat \ {0} /\ MaxPuts \in Nat \ {0}
      /\ Pack!NoVal = 0 /\ 0 \in PkVals
  BY CallsAssumption, PkValueFacts
<1>2. /\ Pack!Unused \in [key : PkKeys, val : PkVals]
      /\ cells = [i \in 1 .. Entries |-> Pack!Unused]
  BY <1>1 DEF Pack!Init, Pack!CallsInit, Pack!Unused, PkKeys
<1> HIDE DEF Pack!Unused
<1>3. cells \in Seq([key : PkKeys, val : PkVals]) /\ Len(cells) = Entries
  BY <1>1, <1>2
<1>4. /\ last \in Seq(0 .. Entries) /\ Len(last) = 1
      /\ DOMAIN last = {1} /\ last[1] = 0
  BY <1>1 DEF Pack!Init
<1>5. PkSharedType
  BY <1>1, <1>3, <1>4 DEF PkSharedType, Pack!Init, Pack!CallsInit
<1>6. PkLocalType /\ PkPlaceType /\ PkSeenType
  BY <1>1, <1>4, PkCallTypes
  DEF Pack!Init, Pack!CallsInit, PkLocalType, PkPlaceType, PkSeenType,
      Pack!Labels
<1>7. PkFilled(0)
  <2>1. \A b \in DOMAIN last : last[b] = PkFill(0, b)
    BY <1>1, <1>4 DEF PkFill, Pack!Start
  <2> QED BY <1>1, <1>3, <2>1 DEF PkFilled
<1>8. PkCount = 0
  BY <1>5, <1>7, PkCounts DEF PkAllCounts, PkCountsTo
<1>9. \A t \in Threads : pc[t] = "idle" /\ call[t] = Pack!Idle
  BY DEF Pack!Init, Pack!CallsInit
<1>10. \A t \in Threads : PkControl(t) /\ PkCounted(t) /\ PkEntryOk(t)
  BY <1>9
  DEF PkControl, PkCounted, PkEntryOk, PkAdding, PkMoving, PkGetting,
      Pack!At
<1>11. PkKeysOk
  BY <1>8 DEF PkKeysOk
<1>12. Pack!TypeOK
  BY <1>5, <1>6, PkTypeParts
<1> QED BY <1>7, <1>8, <1>10, <1>11, <1>12 DEF PkState

-----------------------------------------------------------------------------
(* What a step does to the map.                                            *)

PkAlters(t) == PkEnters(t) \/ PkTakes(t)

LEMMA PkStoreStays ==
  ASSUME PkState, NEW t \in Threads, PkStepOf(t), ~PkAlters(t)
  PROVE  Pack!Store' = Pack!Store
<1> DEFINE n == PkCount
<1>1. /\ PkSharedType /\ PkFilled(PkCount) /\ PkKeysOk
      /\ PkEntryOk(t) /\ PkEffect(t) /\ PkStoreFacts /\ PkStoreFacts'
  BY PkStepFacts, PkTypedStep
<1>2. /\ n \in Nat /\ n <= Len(cells) /\ Len(cells) \in Nat
      /\ DOMAIN cells = 1 .. Len(cells) /\ 1 .. n \subseteq DOMAIN cells
      /\ n + 1 \notin 1 .. n /\ NoKey \notin Keys
  BY <1>1, PkLive, PkChainType, CallsAssumption
<1>3. IF PkDrops(t) THEN n' = n - 1 ELSE n' = n
  BY PkCountStep DEF PkAlters
<1>4. CASE \A i \in 1 .. n : /\ n' = n /\ cells'[i].key = cells[i].key
                             /\ cells[i].key \in Keys
                                  => cells'[i].val = cells[i].val
  <2>1. ASSUME NEW k \in Keys PROVE Pack!Store'[k] = Pack!Store[k]
    <3>1. CASE n = 0
      <4>1. n' = 0
        BY <1>2, <1>3, <3>1, PkStateParts, <1>1
        DEF PkDrops, PkEntryOk, PkMoving, Pack!At
      <4> HIDE DEF n
      <4>2. 1 .. n = {} /\ 1 .. n' = {}
        BY <3>1, <4>1
      <4> QED BY <1>1, <4>2 DEF PkStoreFacts, n
    <3>2. CASE n # 0
      <4>1. n' = n
        BY <1>2, <1>4, <3>2
      <4> QED BY <1>1, <1>4, <4>1, PkStoreSame
    <3> QED BY <3>1, <3>2
  <2> QED BY <2>1 DEF Pack!Store
<1>5. CASE PkKeeps(t)
  <2>1. n' = n
    BY <1>3, <1>5, PkLabels, <1>1
    DEF PkKeeps, PkUnder, PkMoving, PkDrops, Pack!At
  <2> QED BY <1>4, <1>5, <2>1 DEF PkKeeps
<1>6. CASE PkFills(t)
  <2>1. n' = n
    BY <1>3, <1>6 DEF PkFills, PkFreeFor, PkDrops, Pack!At
  <2> QED BY <1>2, <1>4, <1>6, <2>1 DEF PkFills, PkValTo
<1>7. CASE PkLinks(t)
  <2>1. n' = n
    BY <1>3, <1>7 DEF PkLinks, PkFreeFor, PkDrops, Pack!At
  <2> QED BY <1>2, <1>4, <1>7, <2>1 DEF PkLinks, PkLonger
<1>8. CASE PkNames(t)
  <2>1. n' = n /\ idx[t] = n + 1
    BY <1>1, <1>3, <1>8
    DEF PkNames, PkDrops, Pack!At, PkEntryOk, PkAdding
  <2> QED BY <1>2, <1>4, <1>8, <2>1 DEF PkNames, PkKeyTo
<1>9. CASE PkCopiesVal(t)
  <2>1. n' = n /\ cells[idx[t]].key = NoKey
    BY <1>1, <1>3, <1>9
    DEF PkCopiesVal, PkDrops, Pack!At, PkEntryOk, PkMoving
  <2> QED BY <1>2, <1>4, <1>9, <2>1 DEF PkCopiesVal, PkValTo
<1>10. CASE PkCopiesKey(t)
  <2>1. /\ n' = n /\ cells[idx[t]].key = NoKey /\ idx[t] \in 1 .. n
        /\ cells[idx[t]].val = cells[n].val
        /\ PkKeyTo(idx[t], cells[n].key)
    BY <1>1, <1>3, <1>10
    DEF PkCopiesKey, PkDrops, Pack!At, PkEntryOk, PkMoving
  <2>2. n \in 1 .. n
    BY <1>2, <2>1
  <2>3. \A i \in 1 .. n :
          /\ cells'[i].key = IF i = idx[t] THEN cells[n].key ELSE cells[i].key
          /\ cells'[i].val = cells[i].val
    BY <1>2, <2>1 DEF PkKeyTo
  <2>4. ASSUME NEW k \in Keys PROVE Pack!Store'[k] = Pack!Store[k]
    <3>1. \A i \in 1 .. n : cells[i].key = k =>
            cells'[i].key = k /\ cells'[i].val = cells[i].val
      BY <1>2, <2>1, <2>3
    <3>2. \A i \in 1 .. n : cells'[i].key = k =>
            \E j \in 1 .. n : cells[j].key = k
      BY <2>2, <2>3
    <3> QED BY <1>1, <2>1, <3>1, <3>2, PkStoreSame
  <2> QED BY <2>4 DEF Pack!Store
<1>11. CASE PkDrops(t)
  <2>1. /\ n' = n - 1 /\ UNCHANGED cells /\ idx[t] \in 1 .. n
        /\ cells[idx[t]].key = cells[n].key
        /\ cells[idx[t]].val = cells[n].val
        /\ idx[t] = n => cells[idx[t]].key = NoKey
    BY <1>1, <1>3, <1>11 DEF PkDrops, Pack!At, PkEntryOk, PkMoving
  <2>2. /\ 1 .. n - 1 \subseteq 1 .. n
        /\ \A i \in 1 .. n : i = n \/ i \in 1 .. n - 1
    BY <1>2
  <2>3. ASSUME NEW k \in Keys PROVE Pack!Store'[k] = Pack!Store[k]
    <3>1. \A i \in 1 .. n : cells[i].key = k =>
            \E j \in 1 .. n - 1 :
              cells'[j].key = k /\ cells'[j].val = cells[i].val
      BY <1>2, <2>1, <2>2
    <3>2. \A i \in 1 .. n - 1 : cells'[i].key = k =>
            \E j \in 1 .. n : cells[j].key = k
      BY <2>1, <2>2
    <3> QED BY <1>1, <2>1, <3>1, <3>2, PkStoreSame
  <2> QED BY <2>3 DEF Pack!Store
<1> QED
  BY <1>1, <1>5, <1>6, <1>7, <1>8, <1>9, <1>10, <1>11
  DEF PkEffect, PkAlters

LEMMA PkStoreEnters ==
  ASSUME PkState, NEW t \in Threads, PkStepOf(t), PkEnters(t)
  PROVE  /\ call[t].key \in Keys /\ Pack!Store[call[t].key] = Pack!NoVal
         /\ Pack!Store' = [Pack!Store EXCEPT ![call[t].key] = call[t].val]
<1> DEFINE n == PkCount
           k == call[t].key
<1>1. /\ PkSharedType /\ PkFilled(PkCount) /\ PkEntryOk(t)
      /\ PkControl(t) /\ PkLocalType /\ PkStoreFacts /\ PkStoreFacts'
  BY PkStepFacts, PkTypedStep
<1>2. /\ n \in Nat /\ n' = n + 1 /\ UNCHANGED cells
      /\ \A i \in 1 .. n : cells[i].key # k
      /\ cells[n + 1].key = k /\ cells[n + 1].val = call[t].val
      /\ pc[t] = "count"
  BY <1>1, PkLive, PkCountStep
  DEF PkEnters, PkEntryOk, PkAdding, Pack!At
<1>3. k \in Keys
  BY <1>1, <1>2, PkCallOf DEF PkMoving
<1>4. Pack!Store[k] = Pack!NoVal
  BY <1>1, <1>2, <1>3 DEF PkStoreFacts
<1>5. n + 1 \in 1 .. n + 1 /\ \A i \in 1 .. n + 1 : i \in 1 .. n \/ i = n + 1
  BY <1>2
<1>6. Pack!Store'[k] = call[t].val
  BY <1>1, <1>2, <1>3, <1>5 DEF PkStoreFacts
<1>7. ASSUME NEW c \in Keys \ {k} PROVE Pack!Store'[c] = Pack!Store[c]
  <2>1. \A i \in 1 .. n : i \in 1 .. n + 1
    BY <1>2
  <2>2. \A i \in 1 .. n : cells[i].key = c =>
          \E j \in 1 .. n' : cells'[j].key = c /\ cells'[j].val = cells[i].val
    BY <1>2, <2>1
  <2>3. \A i \in 1 .. n' : cells'[i].key = c =>
          \E j \in 1 .. n : cells[j].key = c
    BY <1>2, <1>5, <1>7
  <2> QED BY <1>1, <2>2, <2>3, PkStoreSame
<1>8. /\ Pack!Store = [c \in Keys |-> Pack!Store[c]]
      /\ Pack!Store' = [c \in Keys |-> Pack!Store'[c]]
  BY DEF Pack!Store
<1> QED BY <1>3, <1>4, <1>6, <1>7, <1>8

LEMMA PkStoreTakes ==
  ASSUME PkState, NEW t \in Threads, PkStepOf(t), PkTakes(t)
  PROVE  /\ call[t].key \in Keys /\ Pack!Store[call[t].key] \in Pack!Vals
         /\ ret'[t] = Pack!Store[call[t].key]
         /\ Pack!Store' = [Pack!Store EXCEPT ![call[t].key] = Pack!NoVal]
<1> DEFINE n == PkCount
           k == call[t].key
           i == idx'[t]
<1>1. /\ PkSharedType /\ PkFilled(PkCount) /\ PkKeysOk
      /\ PkControl(t) /\ PkLocalType /\ PkStoreFacts /\ PkStoreFacts'
  BY PkStepFacts, PkTypedStep
<1>2. /\ n \in Nat /\ n' = n /\ 1 .. n \subseteq DOMAIN cells
      /\ i \in 1 .. n /\ cells[i].key = k /\ PkKeyTo(i, NoKey)
      /\ pc[t] = "lock" /\ ret'[t] = cells[i].val
  BY <1>1, PkLive, PkCountStep DEF PkEnters, PkDrops, PkTakes, Pack!At
<1>3. k \in Keys /\ NoKey \notin Keys
  BY <1>1, <1>2, PkCallOf, CallsAssumption DEF PkMoving
<1> HIDE DEF i
<1>4. /\ Pack!Store[k] = cells[i].val /\ cells[i].val \in Pack!Vals
  BY <1>1, <1>2, <1>3 DEF PkStoreFacts
<1>5. \A j \in 1 .. n : cells[j].key = k => j = i
  <2>1. ~PkKeeps(t)
    BY DEF PkKeeps, PkTakes, PkUnder, PkMoving
  <2>2. \A j : ~PkTwice(i, j)
    BY <1>2, <2>1, PkGapStep
  <2> QED BY <1>1, <1>2, <1>3, <2>2 DEF PkKeysOk
<1>6. \A j \in 1 .. n :
        /\ cells'[j].key = IF j = i THEN NoKey ELSE cells[j].key
        /\ cells'[j].val = cells[j].val
  BY <1>2 DEF PkKeyTo
<1>7. Pack!Store'[k] = Pack!NoVal
  <2>1. \A j \in 1 .. n' : cells'[j].key # k
    BY <1>2, <1>3, <1>5, <1>6
  <2> QED BY <1>1, <1>3, <2>1 DEF PkStoreFacts
<1>8. ASSUME NEW c \in Keys \ {k} PROVE Pack!Store'[c] = Pack!Store[c]
  <2>1. \A j \in 1 .. n : cells'[j].key = c <=> cells[j].key = c
    BY <1>2, <1>3, <1>6, <1>8
  <2> QED BY <1>1, <1>2, <1>6, <2>1, PkStoreSame
<1>9. /\ Pack!Store = [c \in Keys |-> Pack!Store[c]]
      /\ Pack!Store' = [c \in Keys |-> Pack!Store'[c]]
  BY DEF Pack!Store
<1> QED BY <1>2, <1>3, <1>4, <1>7, <1>8, <1>9

-----------------------------------------------------------------------------
(* What the calls of the other threads see of a step.                      *)

(* While no entry is moved, an entry that counts keeps its key and value,  *)
(* but for a key that is taken out of the map.                             *)
LEMMA PkEntriesStay ==
  ASSUME PkState, NEW t \in Threads, PkStepOf(t),
         ~PkCopiesKey(t), ~PkDrops(t)
  PROVE  /\ PkCount \in Nat /\ PkCount' \in Nat /\ PkCount <= PkCount'
         /\ \A i \in 1 .. PkCount :
              /\ cells'[i].key \in Keys =>
                   cells'[i].key = cells[i].key /\ cells'[i].val = cells[i].val
              /\ cells'[i].val # cells[i].val => cells[i].key \notin Keys
              /\ cells[i].key \in Keys /\ cells'[i].key # cells[i].key
                   => Pack!Store'[cells[i].key] = Pack!NoVal
<1> DEFINE n == PkCount
<1>1. /\ PkSharedType /\ PkFilled(PkCount) /\ PkEntryOk(t) /\ PkEffect(t)
  BY PkStepFacts
<1>2. /\ n \in Nat /\ DOMAIN cells = 1 .. Len(cells)
      /\ Len(cells) \in Nat /\ n <= Len(cells)
      /\ 1 .. n \subseteq DOMAIN cells /\ n + 1 \notin 1 .. n
      /\ NoKey \notin Keys
  BY <1>1, PkLive, PkChainType, CallsAssumption
<1>3. n' \in Nat /\ n <= n'
  <2>1. n' \in {n, n + 1}
    BY PkCountStep
  <2> QED BY <1>2, <2>1
<1>4. CASE UNCHANGED cells
  BY <1>2, <1>3, <1>4
<1>5. CASE PkFills(t)
  BY <1>2, <1>3, <1>5 DEF PkFills, PkValTo
<1>6. CASE PkLinks(t)
  BY <1>2, <1>3, <1>6 DEF PkLinks, PkLonger
<1>7. CASE PkNames(t)
  <2>1. idx[t] = n + 1
    BY <1>1, <1>7 DEF PkNames, PkEntryOk, PkAdding, Pack!At
  <2> QED BY <1>2, <1>3, <1>7, <2>1 DEF PkNames, PkKeyTo
<1>8. CASE PkCopiesVal(t)
  <2>1. cells[idx[t]].key = NoKey
    BY <1>1, <1>8 DEF PkCopiesVal, PkEntryOk, Pack!At
  <2> QED BY <1>2, <1>3, <1>8, <2>1 DEF PkCopiesVal, PkValTo
<1>9. CASE PkTakes(t)
  <2>1. /\ PkKeyTo(idx'[t], NoKey) /\ cells[idx'[t]].key = call[t].key
    BY <1>9 DEF PkTakes
  <2>2. Pack!Store'[call[t].key] = Pack!NoVal
    <3>1. /\ call[t].key \in Keys
          /\ Pack!Store' = [Pack!Store EXCEPT ![call[t].key] = Pack!NoVal]
      BY <1>9, PkStoreTakes
    <3> QED BY <3>1 DEF Pack!Store
  <2>3. \A i \in 1 .. n :
          /\ cells'[i].key = IF i = idx'[t] THEN NoKey ELSE cells[i].key
          /\ cells'[i].val = cells[i].val
    BY <1>2, <2>1 DEF PkKeyTo
  <2> QED BY <1>2, <1>3, <2>1, <2>2, <2>3
<1> QED
  BY <1>1, <1>4, <1>5, <1>6, <1>7, <1>8, <1>9
  DEF PkEffect, PkKeeps, PkEnters

LEMMA PkHereCounts ==
  ASSUME PkState, NEW u \in Threads, pc[u] \in {"get_key", "get_again"},
         ~moved[u]
  PROVE  Pack!Here(u) \in 1 .. PkCount
<1>1. /\ PkLocalType /\ PkPlaceType /\ PkSharedType /\ PkFilled(PkCount)
      /\ PkControl(u) /\ PkCounted(u)
  BY PkStateParts
<1>2. idx[u] \in 1 .. Entries /\ Entries \in Nat \ {0}
  BY <1>1, CallsAssumption DEF PkControl
<1>3. bucket[u] \in Nat \ {0}
  BY <1>1, PkChainType DEF PkPlaceType
<1>4. Pack!Start(bucket[u]) \in Nat
  BY <1>3, PkStarts
<1>5. Pack!Here(u) <= PkCount
  BY <1>1, <1>2 DEF PkCounted
<1> QED BY <1>1, <1>2, <1>4, <1>5, PkLive DEF Pack!Here

LEMMA PkOtherCall ==
  ASSUME PkState, PkCalls, NEW t \in Threads, PkStepOf(t),
         Pack!Observe(Pack!Store', call'), NEW u \in Threads \ {t}
  PROVE  PkCallOk(u)'
<1> DEFINE k == call[u].key
<1>1. /\ PkOthersSame(t) /\ PkEffect(t) /\ PkCallOk(u) /\ PkControl(u)
      /\ PkLocalType
  BY PkStepFacts, PkStateParts DEF PkCalls
<1>2. /\ pc'[u] = pc[u] /\ call'[u] = call[u] /\ idx'[u] = idx[u]
      /\ cur'[u] = cur[u] /\ bucket'[u] = bucket[u] /\ full'[u] = full[u]
      /\ Pack!Here(u)' = Pack!Here(u)
  BY <1>1 DEF PkOthersSame, Pack!Here
<1>3. CASE call[u] = Pack!Idle
  <2>1. seen'[u] = {}
    BY <1>2, <1>3 DEF Pack!Observe
  <2>2. pc[u] \in {"idle"} \cup PkMoving
    BY <1>1, <1>3 DEF PkControl
  <2> QED
    BY <1>2, <1>3, <2>1, <2>2
    DEF PkCallOk, PkSearchOk, PkLooks, PkMoving, Pack!At
<1>4. CASE call[u] # Pack!Idle
  <2>1. k \in Keys /\ NoKey \notin Keys
    BY <1>1, <1>4, PkCallTypes, CallsAssumption DEF PkLocalType
  <2>2. seen'[u] = seen[u] \cup {Pack!Store'[k]}
    BY <1>2, <1>4 DEF Pack!Observe
  <2>3. ASSUME ~moved'[u] PROVE PkSearchOk(u)'
    <3>1. ~moved[u] /\ ~PkCopiesKey(t) /\ ~PkDrops(t)
      BY <1>1, <1>4, <2>3
      DEF PkEffect, PkKeeps, PkFills, PkLinks, PkNames, PkEnters, PkTakes,
          PkCopiesVal, PkCopiesKey, PkDrops, PkMoves, PkNoMove
    <3>2. /\ PkCount \in Nat /\ PkCount' \in Nat /\ PkCount <= PkCount'
          /\ \A i \in 1 .. PkCount :
               /\ cells'[i].key \in Keys =>
                    /\ cells'[i].key = cells[i].key
                    /\ cells'[i].val = cells[i].val
               /\ cells'[i].val # cells[i].val => cells[i].key \notin Keys
               /\ cells[i].key \in Keys /\ cells'[i].key # cells[i].key
                    => Pack!Store'[cells[i].key] = Pack!NoVal
      BY <3>1, PkEntriesStay
    <3>3. PkSearchOk(u)
      BY <1>1, <3>1 DEF PkCallOk
    <3>4. PkSeenAbsent(u) => PkSeenAbsent(u)'
      BY <2>2 DEF PkSeenAbsent
    <3>5. \A j : PkAhead(u, j)' <=> PkAhead(u, j)
      BY <1>2 DEF PkAhead
    <3>6. \A i \in 1 .. PkCount : cells[i].key = k =>
            cells'[i].key = k \/ PkSeenAbsent(u)'
      BY <2>1, <2>2, <3>2 DEF PkSeenAbsent
    <3>7. PkLooks(u)' => PkSeenAbsent(u)' \/ \E j \in 1 .. PkCount' :
                           cells'[j].key = k /\ PkAhead(u, j)'
      <4> SUFFICES ASSUME PkLooks(u), ~PkSeenAbsent(u)'
                   PROVE  \E j \in 1 .. PkCount' :
                            cells'[j].key = k /\ PkAhead(u, j)'
        BY <1>2 DEF PkLooks
      <4>1. PICK j \in 1 .. PkCount : cells[j].key = k /\ PkAhead(u, j)
        BY <3>3, <3>4 DEF PkSearchOk
      <4>2. cells'[j].key = k /\ PkAhead(u, j)'
        BY <3>5, <3>6, <4>1
      <4>3. j \in 1 .. PkCount'
        BY <3>2
      <4> QED BY <4>2, <4>3
    <3>8. ASSUME pc[u] = "get_key", cells'[Pack!Here(u)].key = k
          PROVE  cells'[Pack!Here(u)].val = cur[u]
      <4>1. Pack!Here(u) \in 1 .. PkCount
        BY <3>1, <3>8, PkHereCounts
      <4>2. /\ cells[Pack!Here(u)].key = k
            /\ cells'[Pack!Here(u)].val = cells[Pack!Here(u)].val
        BY <2>1, <3>2, <3>8, <4>1
      <4> QED
        BY <3>3, <3>8, <4>2 DEF PkSearchOk, Pack!Found, Pack!At
    <3>9. ASSUME pc[u] = "get_again"
          PROVE  /\ cur[u] \in seen'[u]
                 /\ cells'[Pack!Here(u)].val = cur[u] \/ PkSeenAbsent(u)'
                 /\ cells'[Pack!Here(u)].key = k \/ PkSeenAbsent(u)'
      <4>1. Pack!Here(u) \in 1 .. PkCount
        BY <3>1, <3>9, PkHereCounts
      <4>2. /\ cur[u] \in seen[u]
            /\ cells[Pack!Here(u)].val = cur[u] \/ PkSeenAbsent(u)
            /\ cells[Pack!Here(u)].key = k \/ PkSeenAbsent(u)
        BY <3>3, <3>9 DEF PkSearchOk, Pack!Found, Pack!At
      <4>3. cur[u] \in seen'[u]
        BY <2>2, <4>2
      <4> QED BY <2>1, <3>2, <3>4, <3>6, <4>1, <4>2, <4>3
    <3>10. Pack!Found(u)' <=> cells'[Pack!Here(u)].key = k
      BY <1>2 DEF Pack!Found
    <3> QED
      BY <1>2, <3>7, <3>8, <3>9, <3>10 DEF PkSearchOk, Pack!At
  <2> QED BY <1>2, <1>4, <2>2, <2>3 DEF PkCallOk
<1> QED BY <1>3, <1>4

-----------------------------------------------------------------------------
(* The steps of the map, seen from the thread that takes them.             *)
PkAnswered(t, r) == call'[t] = Pack!Idle /\ ret'[t] = r

PkStays(t) ==
  call'[t] = call[t] /\ ret'[t] = ret[t] /\ Pack!Store' = Pack!Store
PkInvokes(t) ==
  /\ call[t] = Pack!Idle /\ call'[t] \in Pack!Calls \ {Pack!Idle}
  /\ ret'[t] = 0 /\ Pack!Store' = Pack!Store
PkInserts(t) ==
  /\ call[t].op = "put" /\ Pack!Store[call[t].key] = Pack!NoVal
  /\ Pack!Store' = [Pack!Store EXCEPT ![call[t].key] = call[t].val]
  /\ PkAnswered(t, 1)
PkDeletes(t) ==
  /\ call[t].op = "remove" /\ Pack!Store[call[t].key] # Pack!NoVal
  /\ Pack!Store' = [Pack!Store EXCEPT ![call[t].key] = Pack!NoVal]
  /\ PkAnswered(t, Pack!Store[call[t].key])
PkAnswers(t) ==
  /\ Pack!Store' = Pack!Store
  /\ \E v \in seen[t] :
       \/ call[t].op = "get" /\ PkAnswered(t, v)
       \/ call[t].op = "put" /\ v # Pack!NoVal /\ PkAnswered(t, 0)
       \/ call[t].op = "remove" /\ v = Pack!NoVal /\ PkAnswered(t, 0)
PkMisled(t) ==
  /\ moved[t] /\ call[t] # Pack!Idle /\ pc[t] # "lock"
  /\ Pack!Store' = Pack!Store
  /\ \E r \in PkVals : PkAnswered(t, r)
PkMapStepOf(t) ==
  \/ PkStays(t) \/ PkInvokes(t) \/ PkInserts(t) \/ PkDeletes(t)
  \/ PkAnswers(t) \/ PkMisled(t)

LEMMA PkMapStepIs ==
  ASSUME PkState, PkCalls, PkLocalType', NEW t \in Threads, PkMapStepOf(t),
         PkOthersSame(t), Pack!Observe(Pack!Store', call')
  PROVE  [Pack!MapStep]_(Pack!Map!vars)
<1>1. /\ Pack!Map!Idle = Pack!Idle
      /\ Pack!Map!NoVal = Pack!NoVal /\ Pack!Map!Calls = Pack!Calls
  BY DEF Pack!Map!Idle, Pack!Map!NoVal, Pack!Map!Calls, Pack!Idle,
         Pack!NoVal, Pack!Calls
<1>2. /\ call' = [call EXCEPT ![t] = call'[t]]
      /\ ret' = [ret EXCEPT ![t] = ret'[t]]
  BY PkStateParts DEF PkLocalType, PkOthersSame
<1>3. Pack!Map!Observe
  BY <1>1 DEF Pack!Observe, Pack!Map!Observe
<1>4. \A r : PkAnswered(t, r) => Pack!Map!Return(t, r)
  BY <1>1, <1>2 DEF PkAnswered, Pack!Map!Return
<1>5. CASE PkStays(t)
  <2>1. call' = call /\ ret' = ret
    BY <1>2, <1>5, PkStateParts DEF PkStays, PkLocalType
  <2>2. ASSUME NEW u \in Threads PROVE seen'[u] = seen[u]
    <3>1. /\ call[u] # Pack!Idle => Pack!Store[call[u].key] \in seen[u]
          /\ call[u] = Pack!Idle => seen[u] = {}
      BY DEF PkCalls, PkCallOk
    <3>2. seen'[u] = IF call[u] = Pack!Idle THEN {}
                     ELSE seen[u] \cup {Pack!Store[call[u].key]}
      BY <1>5, <2>1 DEF Pack!Observe, PkStays
    <3> QED BY <3>1, <3>2
  <2>3. seen' = seen
    <3>1. seen = [u \in Threads |-> seen[u]]
      BY PkStateParts DEF PkSeenType
    <3>2. seen' = [u \in Threads |-> seen'[u]]
      BY DEF Pack!Observe
    <3> QED BY <2>2, <3>1, <3>2
  <2> QED BY <1>5, <2>1, <2>3 DEF PkStays, Pack!Map!vars
<1>6. CASE PkInvokes(t)
  <2>1. Pack!Map!Invoke(t)
    BY <1>1, <1>2, <1>6 DEF PkInvokes, Pack!Map!Invoke
  <2> QED BY <1>3, <2>1 DEF Pack!Map!Next, Pack!MapStep
<1>7. CASE PkInserts(t)
  <2>1. Pack!Map!Insert(t)
    BY <1>1, <1>4, <1>7 DEF PkInserts, Pack!Map!Insert
  <2> QED BY <1>3, <2>1 DEF Pack!Map!Next, Pack!MapStep
<1>8. CASE PkDeletes(t)
  <2>1. Pack!Map!Delete(t)
    BY <1>1, <1>4, <1>8 DEF PkDeletes, Pack!Map!Delete
  <2> QED BY <1>3, <2>1 DEF Pack!Map!Next, Pack!MapStep
<1>9. CASE PkAnswers(t)
  <2>1. Pack!Map!Answer(t)
    BY <1>1, <1>4, <1>9 DEF PkAnswers, Pack!Map!Answer
  <2> QED BY <1>3, <2>1 DEF Pack!Map!Next, Pack!MapStep
<1>10. CASE PkMisled(t)
  <2>1. Pack!Misled(t)
    BY <1>3, <1>4, <1>10 DEF PkMisled, PkAnswered, PkVals, Pack!Misled
  <2> QED BY <2>1 DEF Pack!MapStep
<1> QED BY <1>5, <1>6, <1>7, <1>8, <1>9, <1>10 DEF PkMapStepOf

LEMMA PkReturnedCall ==
  ASSUME PkLocalType, NEW t \in Threads, NEW r,
         Pack!Observe(Pack!Store', call'), Pack!Return(t, r)
  PROVE  PkAnswered(t, r) /\ PkCallOk(t)' /\ pc'[t] = "idle"
<1>1. pc'[t] = "idle" /\ call'[t] = Pack!Idle /\ ret'[t] = r
  BY DEF Pack!Return, Pack!Decide, Pack!Goto, PkLocalType
<1>2. seen'[t] = {}
  BY <1>1 DEF Pack!Observe
<1> QED
  BY <1>1, <1>2 DEF PkCallOk, PkSearchOk, PkLooks, PkAnswered, Pack!At

(* A search that has seen a move may answer anything.                      *)
LEMMA PkMisledCall ==
  ASSUME PkLocalType, NEW t \in Threads, NEW r \in PkVals, moved[t],
         Pack!Observe(Pack!Store', call'), Pack!Return(t, r),
         call[t] # Pack!Idle, pc[t] # "lock", Pack!Store' = Pack!Store
  PROVE  PkMapStepOf(t) /\ PkCallOk(t)'
<1>1. PkAnswered(t, r) /\ PkCallOk(t)'
  BY PkReturnedCall
<1> QED BY <1>1 DEF PkMapStepOf, PkMisled

LEMMA PkGoesOn ==
  ASSUME PkState, NEW t \in Threads, Pack!Observe(Pack!Store', call'),
         call'[t] = call[t], call[t] # Pack!Idle
  PROVE  /\ call[t].key \in Keys
         /\ seen[t] \subseteq seen'[t]
         /\ Pack!Store'[call[t].key] \in seen'[t]
<1>1. call[t].key \in Keys
  BY PkStateParts, PkCallTypes DEF PkLocalType
<1>2. seen'[t] = seen[t] \cup {Pack!Store'[call[t].key]}
  BY DEF Pack!Observe
<1> QED BY <1>1, <1>2

-----------------------------------------------------------------------------
(* The actions, one by one.                                                *)

LEMMA PkLabelOf ==
  ASSUME NEW t \in Threads
  PROVE  /\ Pack!Get(t) \/ Pack!Put(t) \/ Pack!Remove(t) => pc[t] = "idle"
         /\ Pack!ReadLast(t) => pc[t] \in {"get_last", "exists_last"}
         /\ Pack!GetVal(t) => pc[t] = "get_val"
         /\ Pack!GetKey(t) => pc[t] = "get_key"
         /\ Pack!GetAgain(t) => pc[t] = "get_again"
         /\ Pack!Exists(t) => pc[t] = "exists"
         /\ Pack!PutLocked(t) \/ Pack!RemoveLocked(t) => pc[t] = "lock"
         /\ Pack!WriteKey(t) => pc[t] = "write_key"
         /\ Pack!Count(t) => pc[t] = "count"
         /\ Pack!MoveVal(t) => pc[t] = "move_val"
         /\ Pack!MoveKey(t) => pc[t] = "move_key"
         /\ Pack!Uncount(t) => pc[t] = "uncount"
BY DEF Pack!Get, Pack!Put, Pack!Remove, Pack!Start1, Pack!Begin,
       Pack!ReadLast, Pack!GetVal, Pack!GetKey, Pack!GetAgain, Pack!Exists,
       Pack!PutLocked, Pack!RemoveLocked, Pack!CanLock, Pack!WriteKey,
       Pack!Count, Pack!MoveVal, Pack!MoveKey, Pack!Uncount, Pack!At

LEMMA PkBeginCall ==
  ASSUME PkState, PkCalls, NEW t \in Threads,
         Pack!Get(t) \/ Pack!Put(t) \/ Pack!Remove(t),
         Pack!Observe(Pack!Store', call')
  PROVE  PkMapStepOf(t) /\ PkCallOk(t)'
<1>1. /\ PkStepOf(t) /\ PkLocalType /\ PkLocalType' /\ PkPlaceType
      /\ PkControl(t) /\ PkCallOk(t) /\ PkStoreFacts'
  BY PkStepFacts, PkTypedStep DEF PkStepOf, PkCalls
<1>2. pc[t] = "idle" /\ call[t] = Pack!Idle
  BY <1>1, PkLabelOf DEF PkControl
<1>3. Pack!Store' = Pack!Store
  BY <1>1, <1>2, PkStoreStays DEF PkAlters, PkEnters, PkTakes, Pack!At
<1>4. PICK op \in {"get", "put", "remove"}, k \in Keys,
           v \in {Pack!NoVal, puts + 1} :
        /\ call' = [call EXCEPT ![t] = [op |-> op, key |-> k, val |-> v]]
        /\ pc'[t] \in {"get_last", "exists_last"}
        /\ bucket'[t] = 1 /\ ret'[t] = 0
  BY <1>1
  DEF Pack!Get, Pack!Put, Pack!Remove, Pack!Start1, Pack!Begin, Pack!Goto,
      PkLocalType, PkPlaceType
<1>5. call'[t] \in Pack!Calls /\ call'[t].op = op /\ call'[t].key = k
  BY <1>1, <1>4 DEF PkLocalType
<1>6. call'[t] # Pack!Idle
  BY <1>5, PkCallTypes
<1>7. seen'[t] = {Pack!Store'[k]}
  BY <1>1, <1>2, <1>5, <1>6 DEF Pack!Observe, PkCallOk
<1>8. PkLooks(t)' => PkSeenAbsent(t)' \/ \E j \in 1 .. PkCount' :
                       cells'[j].key = call'[t].key /\ PkAhead(t, j)'
  <2>1. Pack!Start(1) = 0
    BY CallsAssumption DEF Pack!Start
  <2>2. \A j \in 1 .. PkCount' : PkAhead(t, j)'
    BY <1>4, <2>1 DEF PkAhead
  <2> QED BY <1>1, <1>5, <1>7, <2>2 DEF PkSeenAbsent, PkStoreFacts
<1>9. PkSearchOk(t)'
  BY <1>4, <1>8 DEF PkSearchOk, Pack!At
<1> QED
  BY <1>2, <1>3, <1>4, <1>5, <1>6, <1>7, <1>9
  DEF PkMapStepOf, PkInvokes, PkCallOk

LEMMA PkSearchFacts ==
  ASSUME PkState, PkCalls, NEW t \in Threads,
         \/ Pack!ReadLast(t) \/ Pack!GetVal(t) \/ Pack!GetKey(t)
         \/ Pack!GetAgain(t) \/ Pack!Exists(t)
  PROVE  /\ PkLocalType /\ PkPlaceType /\ PkSharedType /\ PkFilled(PkCount)
         /\ PkControl(t) /\ PkCounted(t) /\ PkCallOk(t) /\ PkStoreFacts
         /\ PkCount' = PkCount /\ UNCHANGED <<cells, last, moved>>
         /\ pc[t] # "lock" /\ Pack!Store' = Pack!Store
         /\ call[t] # Pack!Idle /\ call[t].key \in Keys
         /\ Pack!Store[call[t].key] \in seen[t]
<1>1. /\ PkStepOf(t) /\ PkLocalType /\ PkPlaceType /\ PkSharedType
      /\ PkFilled(PkCount)
      /\ PkControl(t) /\ PkCounted(t) /\ PkCallOk(t) /\ PkStoreFacts
  BY PkStepFacts, PkTypedStep DEF PkStepOf, Pack!Work, PkCalls
<1>2. /\ pc[t] \in {"get_last", "exists_last", "get_val", "get_key",
                    "get_again", "exists"}
      /\ UNCHANGED <<cells, last, moved>>
  BY PkLabelOf
  DEF Pack!ReadLast, Pack!GetVal, Pack!GetKey, Pack!GetAgain, Pack!Exists,
      Pack!chain
<1>3. /\ PkCount' = PkCount /\ Pack!Store' = Pack!Store
  BY <1>1, <1>2, PkCountStep, PkStoreStays
  DEF PkAlters, PkEnters, PkTakes, PkDrops, Pack!At
<1>4. call[t] # Pack!Idle /\ call[t].key \in Keys
  BY <1>1, <1>2, PkCallOf DEF PkMoving
<1> QED BY <1>1, <1>2, <1>3, <1>4 DEF PkCallOk

LEMMA PkPlaceFacts ==
  ASSUME PkPlaceType, PkSharedType, PkFilled(PkCount), NEW t \in Threads
  PROVE  /\ bucket[t] \in DOMAIN last /\ bucket[t] \in Nat \ {0}
         /\ bucket[t] <= Len(last) /\ Len(last) \in Nat
         /\ Pack!Start(bucket[t]) \in Nat /\ Entries \in Nat \ {0}
         /\ Pack!Start(bucket[t] + 1) = Pack!Start(bucket[t]) + Entries
         /\ PkCount \in Nat /\ PkCount <= Len(cells) /\ Len(cells) \in Nat
         /\ last[bucket[t]] = PkFill(PkCount, bucket[t])
         /\ bucket[t] = Len(last)
              => Len(cells) = Pack!Start(bucket[t]) + Entries
<1>1. /\ bucket[t] \in DOMAIN last /\ bucket[t] \in Nat \ {0}
      /\ bucket[t] <= Len(last) /\ Len(last) \in Nat
      /\ Len(cells) \in Nat /\ Len(cells) = Len(last) * Entries
  BY PkChainType DEF PkPlaceType
<1>2. /\ Pack!Start(bucket[t]) \in Nat /\ Entries \in Nat \ {0}
      /\ Pack!Start(bucket[t] + 1) = Pack!Start(bucket[t]) + Entries
  BY <1>1, PkStarts
<1>3. bucket[t] = Len(last)
        => Len(cells) = Pack!Start(bucket[t]) + Entries
  <2>1. Pack!Start(Len(last) + 1) = Len(last) * Entries
    <3>1. (Len(last) + 1) - 1 = Len(last)
      BY <1>1
    <3> QED BY <3>1 DEF Pack!Start
  <2> QED BY <1>1, <1>2, <2>1
<1> QED BY <1>1, <1>2, <1>3, PkLive

LEMMA PkReadLastCall ==
  ASSUME PkState, PkCalls, NEW t \in Threads, Pack!ReadLast(t),
         Pack!Observe(Pack!Store', call')
  PROVE  PkMapStepOf(t) /\ PkCallOk(t)'
<1> DEFINE k == call[t].key
           b == bucket[t]
<1>1. /\ PkLocalType /\ PkPlaceType /\ PkSharedType /\ PkFilled(PkCount)
      /\ PkCallOk(t) /\ PkCount' = PkCount
      /\ UNCHANGED <<cells, last, moved>> /\ Pack!Store' = Pack!Store
      /\ call[t] # Pack!Idle
  BY PkSearchFacts
<1>2. /\ idx'[t] = last[b] /\ full'[t] = (last[b] = Entries)
      /\ pc[t] \in {"get_last", "exists_last"}
      /\ pc'[t] \in {"get_val", "exists"}
      /\ call' = call /\ ret' = ret /\ bucket' = bucket
  BY <1>1
  DEF Pack!ReadLast, Pack!SetIdx, Pack!Goto, PkLocalType, PkPlaceType
<1>3. /\ seen[t] \subseteq seen'[t] /\ Pack!Store'[k] \in seen'[t]
  BY <1>1, <1>2, PkGoesOn
<1>4. ASSUME NEW j \in 1 .. PkCount, PkAhead(t, j) PROVE PkAhead(t, j)'
  <2>1. /\ Pack!Start(b) \in Nat /\ Entries \in Nat \ {0} /\ PkCount \in Nat
        /\ last[b] = PkFill(PkCount, b)
    BY <1>1, PkPlaceFacts
  <2>2. j > Pack!Start(b)
    BY <1>4 DEF PkAhead
  <2>3. j <= Pack!Start(b) + last[b]
          \/ (last[b] = Entries /\ j > Pack!Start(b) + Entries)
    BY <2>1, <2>2 DEF PkFill
  <2>4. Pack!Here(t)' = Pack!Start(b) + last[b]
    BY <1>2 DEF Pack!Here
  <2> QED BY <1>2, <2>2, <2>3, <2>4 DEF PkAhead
<1>5. ASSUME ~moved'[t] PROVE PkSearchOk(t)'
  <2>1. PkSeenAbsent(t) \/ \E j \in 1 .. PkCount :
                             cells[j].key = k /\ PkAhead(t, j)
    BY <1>1, <1>2, <1>5 DEF PkCallOk, PkSearchOk, PkLooks
  <2> QED
    BY <1>1, <1>2, <1>3, <1>4, <2>1 DEF PkSearchOk, PkSeenAbsent, Pack!At
<1> QED
  BY <1>1, <1>2, <1>3, <1>5 DEF PkMapStepOf, PkStays, PkCallOk

(* On to the next bucket, or not: the search of one bucket has ended.      *)
LEMMA PkNextCall ==
  ASSUME PkState, PkCalls, NEW t \in Threads, Pack!GetVal(t) \/ Pack!Exists(t),
         idx[t] = 0, Pack!Observe(Pack!Store', call'),
         NEW label \in {"get_last", "exists_last"},
         Pack!NextBucket(t, label)
  PROVE  PkMapStepOf(t) /\ PkCallOk(t)'
<1> DEFINE k == call[t].key
           b == bucket[t]
<1>1. /\ PkLocalType /\ PkPlaceType /\ PkSharedType /\ PkFilled(PkCount)
      /\ PkCallOk(t) /\ PkCount' = PkCount
      /\ UNCHANGED <<cells, last, moved>> /\ Pack!Store' = Pack!Store
      /\ call[t] # Pack!Idle /\ pc[t] \in {"get_val", "exists"}
  BY PkSearchFacts, PkLabelOf
<1>2. /\ bucket'[t] = b + 1 /\ pc'[t] = label
      /\ call' = call /\ ret' = ret
  BY <1>1 DEF Pack!NextBucket, Pack!Goto, PkLocalType, PkPlaceType
<1>3. /\ seen[t] \subseteq seen'[t] /\ Pack!Store'[k] \in seen'[t]
  BY <1>1, <1>2, PkGoesOn
<1>4. ASSUME NEW j \in 1 .. PkCount, PkAhead(t, j) PROVE PkAhead(t, j)'
  <2>1. /\ Pack!Start(b) \in Nat /\ Entries \in Nat \ {0} /\ PkCount \in Nat
        /\ Pack!Start(b + 1) = Pack!Start(b) + Entries
    BY <1>1, PkPlaceFacts
  <2>2. Pack!Here(t) = Pack!Start(b)
    BY <2>1 DEF Pack!Here
  <2>3. j > Pack!Start(b) + Entries
    BY <1>1, <1>4, <2>1, <2>2 DEF PkAhead
  <2> QED BY <1>2, <2>1, <2>3 DEF PkAhead
<1>5. ASSUME ~moved'[t] PROVE PkSearchOk(t)'
  <2>1. PkSeenAbsent(t) \/ \E j \in 1 .. PkCount :
                             cells[j].key = k /\ PkAhead(t, j)
    BY <1>1, <1>5 DEF PkCallOk, PkSearchOk, PkLooks
  <2> QED
    BY <1>1, <1>2, <1>3, <1>4, <2>1 DEF PkSearchOk, PkSeenAbsent, Pack!At
<1> QED
  BY <1>1, <1>2, <1>3, <1>5 DEF PkMapStepOf, PkStays, PkCallOk

LEMMA PkSearchedAll ==
  ASSUME PkState, PkCalls, NEW t \in Threads, Pack!GetVal(t) \/ Pack!Exists(t),
         idx[t] = 0, ~Pack!Onward(t), ~moved[t]
  PROVE  Pack!NoVal \in seen[t]
<1> DEFINE b == bucket[t]
<1>1. /\ PkLocalType /\ PkPlaceType /\ PkSharedType /\ PkFilled(PkCount)
      /\ PkCallOk(t) /\ pc[t] \in {"get_val", "exists"}
  BY PkSearchFacts, PkLabelOf
<1>2. /\ Pack!Start(b) \in Nat /\ Entries \in Nat \ {0} /\ PkCount \in Nat
      /\ PkCount <= Len(cells) /\ Len(cells) \in Nat
      /\ b \in Nat /\ b <= Len(last) /\ Len(last) \in Nat
      /\ b = Len(last) => Len(cells) = Pack!Start(b) + Entries
  BY <1>1, PkPlaceFacts
<1>3. Pack!Here(t) = Pack!Start(b)
  BY <1>2 DEF Pack!Here
<1>4. ASSUME NEW j \in 1 .. PkCount, PkAhead(t, j) PROVE FALSE
  <2>1. full[t] /\ j > Pack!Start(b) + Entries
    BY <1>1, <1>2, <1>3, <1>4 DEF PkAhead
  <2>2. b = Len(last)
    BY <1>2, <2>1 DEF Pack!Onward
  <2>3. j <= Len(cells) /\ j \in Nat
    BY <1>2
  <2> QED BY <1>2, <2>1, <2>2, <2>3
<1> QED
  BY <1>1, <1>4 DEF PkCallOk, PkSearchOk, PkLooks, PkSeenAbsent

(* A step under the lock that answers nothing.                             *)
LEMMA PkHeldCall ==
  ASSUME PkState, PkCalls, NEW t \in Threads,
         Pack!Observe(Pack!Store', call'), Pack!Store' = Pack!Store,
         call[t] # Pack!Idle, NEW label \in PkUnder, NEW i,
         Pack!Hold(t, i, label)
  PROVE  PkMapStepOf(t) /\ PkCallOk(t)'
<1>1. call' = call /\ ret' = ret /\ pc'[t] = label
  BY PkStateParts DEF Pack!Hold, Pack!Goto, PkLocalType
<1>2. Pack!Store'[call[t].key] \in seen'[t]
  BY <1>1, PkGoesOn
<1> QED
  BY <1>1, <1>2
  DEF PkMapStepOf, PkStays, PkCallOk, PkSearchOk, PkLooks, Pack!At, PkUnder,
      PkAdding, PkMoving

LEMMA PkGetValCall ==
  ASSUME PkState, PkCalls, NEW t \in Threads, Pack!GetVal(t),
         Pack!Observe(Pack!Store', call')
  PROVE  PkMapStepOf(t) /\ PkCallOk(t)'
<1> DEFINE k == call[t].key
<1>1. /\ PkLocalType /\ PkPlaceType /\ PkControl(t) /\ PkCallOk(t)
      /\ PkCount' = PkCount
      /\ UNCHANGED <<cells, last, moved>> /\ Pack!Store' = Pack!Store
      /\ call[t] # Pack!Idle /\ pc[t] = "get_val"
  BY PkSearchFacts, PkLabelOf
<1>2. call[t].op = "get" /\ 0 \in PkVals /\ Pack!NoVal = 0
  BY <1>1, PkValueFacts DEF PkControl, PkGetting
<1>3. CASE idx[t] = 0 /\ Pack!Onward(t) /\ Pack!NextBucket(t, "get_last")
  BY <1>3, PkNextCall
<1>4. CASE idx[t] = 0 /\ ~Pack!Onward(t) /\ Pack!Return(t, 0)
  <2>1. CASE moved[t]
    BY <1>1, <1>2, <1>4, <2>1, PkMisledCall
  <2>2. CASE ~moved[t]
    <3>1. Pack!NoVal \in seen[t]
      BY <1>4, <2>2, PkSearchedAll
    <3>2. PkAnswered(t, 0) /\ PkCallOk(t)'
      BY <1>1, <1>4, PkReturnedCall
    <3> QED BY <1>1, <1>2, <3>1, <3>2 DEF PkMapStepOf, PkAnswers
  <2> QED BY <2>1, <2>2
<1>5. CASE /\ idx[t] > 0 /\ Pack!Read(t, cells[Pack!Here(t)].val)
           /\ Pack!Goto(t, "get_key") /\ UNCHANGED <<call, idx, ret, bucket>>
  <2>1. /\ pc'[t] = "get_key" /\ cur'[t] = cells[Pack!Here(t)].val
        /\ call' = call /\ idx' = idx /\ ret' = ret /\ bucket' = bucket
        /\ full' = full
    BY <1>1, <1>5 DEF Pack!GetVal, Pack!Read, Pack!Goto, PkLocalType
  <2>2. /\ seen[t] \subseteq seen'[t] /\ Pack!Store'[k] \in seen'[t]
    BY <1>1, <2>1, PkGoesOn
  <2>3. /\ \A j : PkAhead(t, j) => PkAhead(t, j)'
        /\ Pack!Here(t)' = Pack!Here(t)
    BY <1>1, <2>1 DEF PkAhead, Pack!Here
  <2>4. ASSUME ~moved'[t] PROVE PkSearchOk(t)'
    <3>1. PkSeenAbsent(t) \/ \E j \in 1 .. PkCount :
                               cells[j].key = k /\ PkAhead(t, j)
      BY <1>1, <2>4 DEF PkCallOk, PkSearchOk, PkLooks
    <3> QED
      BY <1>1, <2>1, <2>2, <2>3, <3>1
      DEF PkSearchOk, PkSeenAbsent, Pack!At, Pack!Found
  <2> QED
    BY <1>1, <2>1, <2>2, <2>4 DEF PkMapStepOf, PkStays, PkCallOk
<1> QED BY <1>3, <1>4, <1>5 DEF Pack!GetVal

LEMMA PkGetKeyCall ==
  ASSUME PkState, PkCalls, NEW t \in Threads, Pack!GetKey(t),
         Pack!Observe(Pack!Store', call')
  PROVE  PkMapStepOf(t) /\ PkCallOk(t)'
<1> DEFINE k == call[t].key
<1>1. /\ PkLocalType /\ PkPlaceType /\ PkControl(t) /\ PkCallOk(t)
      /\ PkStoreFacts /\ PkCount' = PkCount
      /\ UNCHANGED <<cells, last, moved>> /\ Pack!Store' = Pack!Store
      /\ call[t] # Pack!Idle /\ pc[t] = "get_key"
      /\ k \in Keys /\ Pack!Store[k] \in seen[t]
  BY PkSearchFacts, PkLabelOf
<1>2. /\ call' = call /\ ret' = ret /\ bucket' = bucket /\ full' = full
  BY DEF Pack!GetKey, Pack!chain
<1>3. /\ seen[t] \subseteq seen'[t] /\ Pack!Store'[k] \in seen'[t]
  BY <1>1, <1>2, PkGoesOn
<1>4. ASSUME ~moved[t]
      PROVE  /\ Pack!Here(t) \in 1 .. PkCount
             /\ PkSeenAbsent(t) \/ \E j \in 1 .. PkCount :
                                     cells[j].key = k /\ PkAhead(t, j)
             /\ Pack!Found(t) => cells[Pack!Here(t)].val = cur[t]
  BY <1>1, <1>4, PkHereCounts
  DEF PkCallOk, PkSearchOk, PkLooks, Pack!At
<1>5. SUFFICES ASSUME ~moved'[t] PROVE PkSearchOk(t)'
  BY <1>1, <1>2, <1>3 DEF PkMapStepOf, PkStays, PkCallOk
<1>6. CASE Pack!Found(t)
  <2>1. pc'[t] = "get_again" /\ idx' = idx /\ cur' = cur
    BY <1>1, <1>6 DEF Pack!GetKey, Pack!Goto, PkLocalType
  <2>2. /\ Pack!Here(t)' = Pack!Here(t) /\ cells[Pack!Here(t)].key = k
    BY <1>2, <1>6, <2>1 DEF Pack!Here, Pack!Found
  <2>3. Pack!Store[k] = cur[t]
    BY <1>1, <1>4, <1>5, <1>6, <2>2 DEF PkStoreFacts
  <2> QED
    BY <1>1, <1>2, <1>3, <1>4, <1>5, <1>6, <2>1, <2>2, <2>3
    DEF PkSearchOk, PkLooks, Pack!At, Pack!Found
<1>7. CASE ~Pack!Found(t)
  <2>1. pc'[t] = "get_val" /\ idx'[t] = idx[t] - 1
    BY <1>1, <1>7
    DEF Pack!GetKey, Pack!Goto, Pack!SetIdx, PkLocalType
  <2>2. /\ Pack!Here(t) = Pack!Start(bucket[t]) + idx[t]
        /\ Pack!Here(t)' = Pack!Start(bucket[t]) + (idx[t] - 1)
    BY <1>2, <2>1 DEF Pack!Here
  <2>3. Pack!Start(bucket[t]) \in Nat /\ idx[t] \in Nat
    BY PkPlaceFacts, PkStateParts DEF PkLocalType
  <2>4. ASSUME NEW j \in 1 .. PkCount, cells[j].key = k, PkAhead(t, j)
        PROVE  PkAhead(t, j)'
    <3>1. j # Pack!Here(t)
      BY <1>7, <2>4 DEF Pack!Found
    <3>2. j \in Nat
      OBVIOUS
    <3>3. j <= Pack!Here(t) => j <= Pack!Start(bucket[t]) + (idx[t] - 1)
      BY <2>2, <2>3, <3>1, <3>2
    <3> QED
      BY <1>1, <1>2, <2>1, <2>2, <2>4, <3>3 DEF PkAhead
  <2> QED
    BY <1>1, <1>2, <1>3, <1>4, <1>5, <2>1, <2>4
    DEF PkSearchOk, PkSeenAbsent, Pack!At
<1> QED BY <1>6, <1>7

LEMMA PkGetAgainCall ==
  ASSUME PkState, PkCalls, NEW t \in Threads, Pack!GetAgain(t),
         Pack!Observe(Pack!Store', call')
  PROVE  PkMapStepOf(t) /\ PkCallOk(t)'
<1>1. /\ PkLocalType /\ PkControl(t) /\ PkCallOk(t)
      /\ Pack!Store' = Pack!Store
      /\ call[t] # Pack!Idle /\ pc[t] = "get_again"
  BY PkSearchFacts, PkLabelOf
<1>2. /\ call[t].op = "get" /\ 0 \in PkVals /\ Pack!NoVal = 0
      /\ cur[t] \in PkVals
  BY <1>1, PkValueFacts DEF PkControl, PkGetting, PkLocalType
<1>3. Pack!Return(t, IF cells[Pack!Here(t)].val = cur[t] THEN cur[t] ELSE 0)
  BY DEF Pack!GetAgain
<1>4. CASE moved[t]
  <2>1. PICK r \in PkVals : Pack!Return(t, r)
    BY <1>2, <1>3
  <2> QED BY <1>1, <1>4, <2>1, PkMisledCall
<1>5. CASE ~moved[t]
  <2>1. PICK r \in seen[t] : Pack!Return(t, r)
    BY <1>1, <1>2, <1>3, <1>5
    DEF PkCallOk, PkSearchOk, PkSeenAbsent, Pack!At
  <2>2. PkAnswered(t, r) /\ PkCallOk(t)'
    BY <1>1, <2>1, PkReturnedCall
  <2> QED BY <1>1, <1>2, <2>2 DEF PkMapStepOf, PkAnswers
<1> QED BY <1>4, <1>5

(* What bucket_exists answers, or that the call goes on to take the lock.  *)
LEMMA PkExistsDone ==
  ASSUME PkState, PkCalls, NEW t \in Threads, Pack!Exists(t),
         Pack!Observe(Pack!Store', call'), NEW found \in BOOLEAN,
         Pack!ExistsDone(t, found),
         ~moved[t] =>
           \E v \in seen[t] : found = (v # Pack!NoVal)
  PROVE  PkMapStepOf(t) /\ PkCallOk(t)'
<1>1. /\ PkLocalType /\ PkControl(t) /\ PkCallOk(t)
      /\ Pack!Store' = Pack!Store /\ moved' = moved
      /\ call[t] # Pack!Idle /\ pc[t] = "exists"
  BY PkSearchFacts, PkLabelOf
<1>2. call[t].op \in {"put", "remove"} /\ 0 \in PkVals
  BY <1>1, PkValueFacts DEF PkControl
<1>3. CASE (found <=> call[t].op = "put") /\ Pack!Return(t, 0)
  <2>1. CASE moved[t]
    BY <1>1, <1>2, <1>3, <2>1, PkMisledCall
  <2>2. CASE ~moved[t]
    <3>1. PkAnswered(t, 0) /\ PkCallOk(t)'
      BY <1>1, <1>3, PkReturnedCall
    <3> QED BY <1>1, <1>2, <1>3, <2>2, <3>1 DEF PkMapStepOf, PkAnswers
  <2> QED BY <2>1, <2>2
<1>4. CASE Pack!Goto(t, "lock") /\ UNCHANGED <<call, cur, ret>>
  <2>1. pc'[t] = "lock" /\ call' = call /\ ret' = ret
    BY <1>1, <1>4 DEF Pack!Goto, PkLocalType
  <2>2. Pack!Store'[call[t].key] \in seen'[t]
    BY <1>1, <2>1, PkGoesOn
  <2> QED
    BY <1>1, <2>1, <2>2
    DEF PkMapStepOf, PkStays, PkCallOk, PkSearchOk, PkLooks, Pack!At
<1> QED BY <1>3, <1>4 DEF Pack!ExistsDone

LEMMA PkExistsCall ==
  ASSUME PkState, PkCalls, NEW t \in Threads, Pack!Exists(t),
         Pack!Observe(Pack!Store', call')
  PROVE  PkMapStepOf(t) /\ PkCallOk(t)'
<1> DEFINE k == call[t].key
<1>1. /\ PkLocalType /\ PkPlaceType /\ PkSharedType /\ PkFilled(PkCount)
      /\ PkControl(t) /\ PkCounted(t) /\ PkCallOk(t) /\ PkStoreFacts
      /\ PkCount' = PkCount
      /\ UNCHANGED <<cells, last, moved>> /\ Pack!Store' = Pack!Store
      /\ call[t] # Pack!Idle /\ pc[t] = "exists"
      /\ k \in Keys /\ Pack!Store[k] \in seen[t]
  BY PkSearchFacts, PkLabelOf
<1>2. CASE idx[t] = 0 /\ Pack!Onward(t) /\ Pack!NextBucket(t, "exists_last")
  BY <1>2, PkNextCall
<1>3. CASE idx[t] = 0 /\ ~Pack!Onward(t) /\ Pack!ExistsDone(t, FALSE)
  <2>1. ~moved[t] => Pack!NoVal \in seen[t]
    BY <1>3, PkSearchedAll
  <2> QED BY <1>3, <2>1, PkExistsDone
<1>4. CASE idx[t] > 0 /\ Pack!Found(t) /\ Pack!ExistsDone(t, TRUE)
  <2>1. ~moved[t] => Pack!Store[k] # Pack!NoVal
    <3> SUFFICES ASSUME ~moved[t] PROVE Pack!Store[k] # Pack!NoVal
      OBVIOUS
    <3>1. Pack!Here(t) \in 1 .. PkCount
      <4>1. /\ Pack!Start(bucket[t]) \in Nat /\ idx[t] \in Nat
            /\ PkCount \in Nat
        BY <1>1, PkPlaceFacts DEF PkLocalType
      <4>2. Pack!Here(t) <= PkCount
        BY <1>1, <1>4, <4>1 DEF PkCounted
      <4> QED BY <1>4, <4>1, <4>2 DEF Pack!Here
    <3>2. cells[Pack!Here(t)].key = k
      BY <1>4 DEF Pack!Found
    <3>3. Pack!Store[k] \in Pack!Vals
      BY <1>1, <3>1, <3>2 DEF PkStoreFacts
    <3> QED BY <3>3, PkValueFacts
  <2> QED BY <1>1, <1>4, <2>1, PkExistsDone
<1>5. CASE /\ idx[t] > 0 /\ ~Pack!Found(t) /\ Pack!SetIdx(t, idx[t] - 1)
           /\ UNCHANGED <<call, pc, cur, ret, bucket>>
  <2>1. /\ pc'[t] = "exists" /\ idx'[t] = idx[t] - 1 /\ full' = full
        /\ call' = call /\ ret' = ret /\ bucket' = bucket
    BY <1>1, <1>5 DEF Pack!Exists, Pack!SetIdx, PkLocalType
  <2>2. /\ seen[t] \subseteq seen'[t] /\ Pack!Store'[k] \in seen'[t]
    BY <1>1, <2>1, PkGoesOn
  <2>3. /\ Pack!Here(t) = Pack!Start(bucket[t]) + idx[t]
        /\ Pack!Here(t)' = Pack!Start(bucket[t]) + (idx[t] - 1)
    BY <2>1 DEF Pack!Here
  <2>4. Pack!Start(bucket[t]) \in Nat /\ idx[t] \in Nat
    BY <1>1, PkPlaceFacts DEF PkLocalType
  <2>5. ASSUME NEW j \in 1 .. PkCount, cells[j].key = k, PkAhead(t, j)
        PROVE  PkAhead(t, j)'
    <3>1. j # Pack!Here(t)
      BY <1>5, <2>5 DEF Pack!Found
    <3>2. j \in Nat
      OBVIOUS
    <3>3. j <= Pack!Here(t) => j <= Pack!Start(bucket[t]) + (idx[t] - 1)
      BY <2>3, <2>4, <3>1, <3>2
    <3> QED
      BY <1>1, <2>1, <2>3, <2>5, <3>3 DEF PkAhead
  <2>6. ASSUME ~moved'[t] PROVE PkSearchOk(t)'
    <3>1. PkSeenAbsent(t) \/ \E j \in 1 .. PkCount :
                               cells[j].key = k /\ PkAhead(t, j)
      BY <1>1, <2>6 DEF PkCallOk, PkSearchOk, PkLooks
    <3> QED
      BY <1>1, <2>1, <2>2, <2>5, <3>1 DEF PkSearchOk, PkSeenAbsent, Pack!At
  <2> QED
    BY <1>1, <2>1, <2>2, <2>6 DEF PkMapStepOf, PkStays, PkCallOk
<1> QED BY <1>2, <1>3, <1>4, <1>5 DEF Pack!Exists

(* Under the lock.                                                         *)
LEMMA PkLockedFacts ==
  ASSUME PkState, PkCalls, NEW t \in Threads,
         Pack!PutLocked(t) \/ Pack!RemoveLocked(t)
  PROVE  /\ PkStepOf(t) /\ PkLocalType /\ PkSharedType /\ PkFilled(PkCount)
         /\ PkControl(t) /\ PkEffect(t) /\ PkStoreFacts
         /\ pc[t] = "lock" /\ call[t] # Pack!Idle /\ call[t].key \in Keys
         /\ Pack!Store[call[t].key] \in seen[t]
<1>1. /\ PkStepOf(t) /\ PkLocalType /\ PkSharedType /\ PkFilled(PkCount)
      /\ PkControl(t) /\ PkEffect(t) /\ PkStoreFacts /\ PkCallOk(t)
  BY PkStepFacts, PkTypedStep DEF PkStepOf, Pack!Work, PkCalls
<1>2. pc[t] = "lock"
  BY PkLabelOf
<1>3. call[t] # Pack!Idle /\ call[t].key \in Keys
  BY <1>1, <1>2, PkCallOf DEF PkMoving
<1> QED BY <1>1, <1>2, <1>3 DEF PkCallOk

LEMMA PkPutLockedCall ==
  ASSUME PkState, PkCalls, NEW t \in Threads, Pack!PutLocked(t),
         Pack!Observe(Pack!Store', call')
  PROVE  PkMapStepOf(t) /\ PkCallOk(t)'
<1> DEFINE k == call[t].key
<1>1. /\ PkStepOf(t) /\ PkLocalType /\ PkSharedType /\ PkFilled(PkCount)
      /\ PkStoreFacts /\ pc[t] = "lock" /\ call[t] # Pack!Idle
      /\ k \in Keys /\ Pack!Store[k] \in seen[t]
  BY PkLockedFacts
<1>2. call[t].op = "put"
  BY DEF Pack!PutLocked
<1>3. Pack!Store' = Pack!Store
  BY <1>1, <1>2, PkStoreStays
  DEF PkAlters, PkEnters, PkTakes, Pack!At
<1>4. CASE Pack!Match(t) # {} /\ Pack!Finish(t, 0)
  <2>1. PkAnswered(t, 0) /\ PkCallOk(t)'
    BY <1>1, <1>4, PkReturnedCall DEF Pack!Finish
  <2>2. \E i \in 1 .. PkCount : cells[i].key = k
    BY <1>1, <1>4, PkMatch
  <2>3. Pack!Store[k] \in Pack!Vals
    BY <1>1, <2>2 DEF PkStoreFacts
  <2>4. Pack!Store[k] # Pack!NoVal
    BY <2>3, PkValueFacts
  <2> QED BY <1>1, <1>2, <1>3, <2>1, <2>4 DEF PkMapStepOf, PkAnswers
<1>5. ASSUME NEW i, Pack!Hold(t, i, "write_key") \/ Pack!Hold(t, i, "count")
      PROVE  PkMapStepOf(t) /\ PkCallOk(t)'
  BY <1>1, <1>3, <1>5, PkHeldCall DEF PkUnder, PkAdding
<1> QED BY <1>4, <1>5 DEF Pack!PutLocked

LEMMA PkAddCall ==
  ASSUME PkState, PkCalls, NEW t \in Threads,
         Pack!WriteKey(t) \/ Pack!Count(t),
         Pack!Observe(Pack!Store', call')
  PROVE  PkMapStepOf(t) /\ PkCallOk(t)'
<1>1. /\ PkStepOf(t) /\ PkLocalType /\ PkControl(t) /\ PkEffect(t)
  BY PkStepFacts DEF PkStepOf, Pack!Work
<1>2. /\ pc[t] \in PkAdding /\ call[t].op = "put" /\ call[t] # Pack!Idle
  BY <1>1, PkLabelOf DEF PkControl, PkAdding, PkMoving
<1>3. CASE Pack!WriteKey(t)
  <2>1. pc[t] = "write_key" /\ Pack!Hold(t, idx[t], "count")
    BY <1>3, PkLabelOf DEF Pack!WriteKey
  <2>2. Pack!Store' = Pack!Store
    BY <1>1, <2>1, PkStoreStays DEF PkAlters, PkEnters, PkTakes, Pack!At
  <2> QED BY <1>2, <2>1, <2>2, PkHeldCall DEF PkUnder, PkAdding
<1>4. CASE Pack!Count(t)
  <2>1. pc[t] = "count" /\ Pack!Return(t, 1)
    BY <1>4, PkLabelOf DEF Pack!Count, Pack!Finish
  <2>2. PkAnswered(t, 1) /\ PkCallOk(t)'
    BY <1>1, <2>1, PkReturnedCall
  <2>3. PkEnters(t)
    BY <1>1, <2>1, PkLabels DEF PkEffect, PkKeeps, PkUnder, PkAdding
  <2>4. /\ Pack!Store[call[t].key] = Pack!NoVal
        /\ Pack!Store' = [Pack!Store EXCEPT ![call[t].key] = call[t].val]
    BY <1>1, <2>3, PkStoreEnters
  <2> QED BY <1>2, <2>2, <2>4 DEF PkMapStepOf, PkInserts
<1> QED BY <1>3, <1>4

LEMMA PkRemoveCall ==
  ASSUME PkState, PkCalls, NEW t \in Threads, Pack!RemoveLocked(t),
         Pack!Observe(Pack!Store', call')
  PROVE  PkMapStepOf(t) /\ PkCallOk(t)'
<1> DEFINE k == call[t].key
<1>1. /\ PkStepOf(t) /\ PkLocalType /\ PkSharedType /\ PkFilled(PkCount)
      /\ PkStoreFacts /\ pc[t] = "lock" /\ call[t] # Pack!Idle
      /\ k \in Keys /\ Pack!Store[k] \in seen[t] /\ PkEffect(t)
  BY PkLockedFacts
<1>2. call[t].op = "remove"
  BY DEF Pack!RemoveLocked
<1>3. CASE Pack!Match(t) = {}
  <2>1. Pack!Return(t, 0)
    BY <1>3 DEF Pack!RemoveLocked, Pack!Finish
  <2>2. PkAnswered(t, 0) /\ PkCallOk(t)' /\ pc'[t] = "idle"
    BY <1>1, <2>1, PkReturnedCall
  <2>3. \A i \in 1 .. PkCount : cells[i].key # k
    BY <1>1, <1>3, PkMatch
  <2>4. Pack!Store[k] = Pack!NoVal
    BY <1>1, <2>3 DEF PkStoreFacts
  <2>5. Pack!Store' = Pack!Store
    BY <1>1, <2>2, PkStoreStays DEF PkAlters, PkEnters, PkTakes, Pack!At
  <2> QED BY <1>1, <1>2, <2>2, <2>4, <2>5 DEF PkMapStepOf, PkAnswers
<1>4. CASE Pack!Match(t) # {}
  <2>1. /\ pc'[t] = "move_val" /\ call'[t] = Pack!Idle
    BY <1>1, <1>4 DEF Pack!RemoveLocked, Pack!Decide, Pack!Goto, PkLocalType
  <2>2. PkTakes(t)
    BY <1>1, <1>2, <2>1, PkLabels
    DEF PkEffect, PkKeeps, PkFills, PkLinks, PkFreeFor, PkUnder, PkMoving
  <2>3. /\ Pack!Store[k] \in Pack!Vals /\ ret'[t] = Pack!Store[k]
        /\ Pack!Store' = [Pack!Store EXCEPT ![k] = Pack!NoVal]
    BY <1>1, <2>2, PkStoreTakes
  <2>4. seen'[t] = {}
    BY <2>1 DEF Pack!Observe
  <2>5. PkCallOk(t)'
    BY <2>1, <2>4 DEF PkCallOk, PkSearchOk, PkLooks, Pack!At
  <2>6. Pack!Store[k] # Pack!NoVal
    BY <2>3, PkValueFacts
  <2> QED
    BY <1>2, <2>1, <2>3, <2>5, <2>6 DEF PkMapStepOf, PkDeletes, PkAnswered
<1> QED BY <1>3, <1>4

LEMMA PkMoveCall ==
  ASSUME PkState, PkCalls, NEW t \in Threads,
         Pack!MoveVal(t) \/ Pack!MoveKey(t) \/ Pack!Uncount(t),
         Pack!Observe(Pack!Store', call')
  PROVE  PkMapStepOf(t) /\ PkCallOk(t)'
<1>1. /\ PkStepOf(t) /\ PkLocalType /\ PkControl(t)
  BY PkStepFacts DEF PkStepOf, Pack!Work
<1>2. pc[t] \in PkMoving /\ call[t] = Pack!Idle
  BY <1>1, PkLabelOf DEF PkControl, PkMoving
<1>3. Pack!Store' = Pack!Store
  BY <1>1, <1>2, PkStoreStays
  DEF PkAlters, PkEnters, PkTakes, PkMoving, Pack!At
<1>4. /\ call' = call /\ ret' = ret
      /\ pc'[t] \in {"move_key", "uncount", "idle"}
  BY <1>1
  DEF Pack!MoveVal, Pack!MoveKey, Pack!Uncount, Pack!Hold, Pack!Goto,
      PkLocalType
<1>5. seen'[t] = {}
  BY <1>2, <1>4 DEF Pack!Observe
<1> QED
  BY <1>2, <1>3, <1>4, <1>5
  DEF PkMapStepOf, PkStays, PkCallOk, PkSearchOk, PkLooks, Pack!At

-----------------------------------------------------------------------------
LEMMA PkInitInv == Pack!Init => PkInv /\ Pack!Map!Init
<1> SUFFICES ASSUME Pack!Init PROVE PkInv /\ Pack!Map!Init
  OBVIOUS
<1>1. PkState /\ PkCount = 0
  BY PkInitState
<1>2. \A t \in Threads : pc[t] = "idle" /\ call[t] = Pack!Idle /\ seen[t] = {}
  BY DEF Pack!Init, Pack!CallsInit
<1>3. PkCalls
  BY <1>2 DEF PkCalls, PkCallOk, PkSearchOk, PkLooks, Pack!At
<1>4. PkStoreFacts
  BY <1>1, PkStateParts, PkStoreIs DEF PkTyped
<1>5. \A k \in Keys : Pack!Store[k] = Pack!NoVal
  BY <1>1, <1>4 DEF PkStoreFacts
<1>6. Pack!Map!Init
  <2>1. Pack!Store = [k \in Keys |-> Pack!NoVal]
    BY <1>5 DEF Pack!Store
  <2>2. Pack!Map!Idle = Pack!Idle /\ Pack!Map!NoVal = Pack!NoVal
    BY DEF Pack!Map!Idle, Pack!Map!NoVal, Pack!Idle, Pack!NoVal
  <2>3. /\ call = [t \in Threads |-> Pack!Idle]
        /\ ret = [t \in Threads |-> 0] /\ seen = [t \in Threads |-> {}]
    BY DEF Pack!Init, Pack!CallsInit
  <2> QED BY <2>1, <2>2, <2>3 DEF Pack!Map!Init
<1> QED BY <1>1, <1>3, <1>6 DEF PkInv

LEMMA PkIdleSteps ==
  ASSUME PkInv, UNCHANGED Pack!vars
  PROVE  PkInv' /\ UNCHANGED Pack!Map!vars
<1>1. UNCHANGED <<cells, lock, call, pc, idx, cur, puts, ret, seen, last,
                  bucket, full, moved>>
  BY DEF Pack!vars, Pack!calls, Pack!threads, Pack!chain
<1>2. Pack!Store' = Pack!Store /\ PkCount' = PkCount
  BY <1>1 DEF Pack!Store, Pack!Having, Pack!Live, PkCount
<1>3. UNCHANGED Pack!Map!vars
  BY <1>1, <1>2 DEF Pack!Map!vars
<1>4. Pack!TypeOK'
  BY <1>1 DEF PkInv, PkState, Pack!TypeOK, Pack!CallsTypeOK
<1>5. PkFilled(PkCount)' /\ PkKeysOk'
  <2>1. PkFilled(PkCount)'
    BY <1>1, <1>2 DEF PkInv, PkState, PkFilled, PkFill
  <2>2. /\ \A i : PkGap(i)' <=> PkGap(i)
        /\ \A i, j : PkTwice(i, j)' <=> PkTwice(i, j)
    BY <1>1, <1>2 DEF PkGap, PkTwice, Pack!At
  <2> QED BY <1>1, <1>2, <2>1, <2>2 DEF PkInv, PkState, PkKeysOk
<1>6. \A t \in Threads : PkControl(t)' /\ PkCounted(t)' /\ PkEntryOk(t)'
  BY <1>1, <1>2
  DEF PkInv, PkState, PkControl, PkCounted, PkEntryOk, Pack!At, Pack!Here
<1>7. PkCalls'
  BY <1>1, <1>2
  DEF PkInv, PkCalls, PkCallOk, PkSearchOk, PkLooks, PkSeenAbsent, PkAhead,
      Pack!At, Pack!Here, Pack!Found
<1> QED BY <1>3, <1>4, <1>5, <1>6, <1>7 DEF PkInv, PkState

LEMMA PkNextInv ==
  PkInv /\ [Pack!Next]_(Pack!vars)
    => PkInv' /\ [Pack!MapStep]_(Pack!Map!vars)
<1> SUFFICES ASSUME PkInv, [Pack!Next]_(Pack!vars)
             PROVE  PkInv' /\ [Pack!MapStep]_(Pack!Map!vars)
  OBVIOUS
<1>1. CASE UNCHANGED Pack!vars
  BY <1>1, PkIdleSteps
<1>2. ASSUME NEW t \in Threads, PkStepOf(t),
             Pack!Observe(Pack!Store', call')
      PROVE  PkInv' /\ [Pack!MapStep]_(Pack!Map!vars)
  <2>1. PkState /\ PkCalls /\ PkState'
    BY <1>2, PkStepState DEF PkInv
  <2>2. PkMapStepOf(t) /\ PkCallOk(t)'
    BY <1>2, <2>1, PkBeginCall, PkReadLastCall, PkGetValCall, PkGetKeyCall,
       PkGetAgainCall, PkExistsCall, PkPutLockedCall, PkAddCall,
       PkRemoveCall, PkMoveCall
    DEF PkStepOf, Pack!Work
  <2>3. \A u \in Threads \ {t} : PkCallOk(u)'
    BY <1>2, <2>1, PkOtherCall
  <2>4. PkCalls'
    BY <2>2, <2>3 DEF PkCalls
  <2>5. [Pack!MapStep]_(Pack!Map!vars)
    BY <1>2, <2>1, <2>2, PkStepFacts, PkMapStepIs
  <2> QED BY <2>1, <2>4, <2>5 DEF PkInv
<1> QED BY <1>1, <1>2 DEF Pack!Next, PkStepOf

PkOf == variant = "packed" => PkInv

(* The invariant of the packed table, and the steps of the map.            *)
LEMMA PkSteps ==
  Spec => /\ [](PkOf)
          /\ variant = "packed" => Pack!Map!Init
          /\ [][variant = "packed" => [Pack!MapStep]_(Pack!Map!vars)]_vars
<1>1. Init => PkOf /\ (variant = "packed" => Pack!Map!Init)
  BY PkInitInv DEF Init, PkOf
<1>2. PkOf /\ [Next]_vars
        => PkOf' /\ (variant = "packed" => [Pack!MapStep]_(Pack!Map!vars))
  <2> SUFFICES ASSUME PkOf, [Next]_vars, variant = "packed"
               PROVE  PkInv' /\ [Pack!MapStep]_(Pack!Map!vars)
    BY DEF PkOf, Next, vars
  <2>1. [Pack!Next]_(Pack!vars)
    <3>1. CASE UNCHANGED vars
      BY <3>1
      DEF vars, calls, threads, ofPacked, Pack!vars, Pack!calls,
          Pack!threads, Pack!chain
    <3>2. CASE Next
      BY <3>2 DEF Next
    <3> QED BY <3>1, <3>2
  <2>2. PkInv
    BY DEF PkOf
  <2> QED BY <2>1, <2>2, PkNextInv
<1> QED BY <1>1, <1>2, PTL DEF Spec

(* src/clht_lb_packed.c: every call takes effect at one moment, but for    *)
(* the answers of searches during which a remove moves an entry, for any   *)
(* number of threads, keys, entries of a bucket and puts.                  *)
THEOREM PackedRefines == Spec => PackedImplementsMap
BY PkSteps, PTL DEF PackedImplementsMap

-----------------------------------------------------------------------------
RtmSection == {"read", "write", "release"}

(* t is in its section with the mark.                                      *)
RtmHolding(t) == at[t] \in RtmSection /\ tx[t] = {}

(* A transaction is between _xbegin and _xend.  In its section it has read *)
(* the mark, which is free until the processor undoes the transaction.     *)
RtmTxInv(t) ==
  /\ tx[t] # {} => at[t] \in RtmSection \cup {"lv"}
  /\ tx[t] # {} /\ at[t] \in RtmSection => "lock" \in tx[t] /\ mark = "free"
  /\ tx[t] # {} /\ at[t] \in {"write", "release"} => "content" \in tx[t]
  /\ Rtm!At(t, "lv") => tx[t] # {}

(* One thread at most holds the mark.                                      *)
RtmHoldInv ==
  /\ \A t \in RtmThreads : RtmHolding(t) => mark = "update"
  /\ \A t, u \in RtmThreads : RtmHolding(t) /\ RtmHolding(u) => t = u

(* Nobody has changed the content since the section has read it.           *)
RtmSawInv(t) ==
  Rtm!At(t, "write") \/ (Rtm!At(t, "release") /\ tx[t] # {})
    => saw[t] = content

(* The mark of the resizer stays, and so does what it has copied.          *)
RtmCopyInv ==
  /\ \A t \in RtmThreads : Rtm!At(t, "copy") => mark = "resize"
  /\ copied # Rtm!Nothing => mark = "resize" /\ copied = content

RtmInv ==
  /\ Rtm!TypeOK
  /\ \A t \in RtmThreads : RtmTxInv(t) /\ RtmSawInv(t)
  /\ RtmHoldInv
  /\ RtmCopyInv
  /\ content = done

LEMMA RtmMoreType ==
  ASSUME Rtm!CountsPositive, NEW n \in 0 .. Counts - 1
  PROVE  Rtm!More(n) \in 0 .. Counts - 1
BY DEF Rtm!CountsPositive, Rtm!More

LEMMA RtmInitInv == Rtm!CountsPositive /\ Rtm!Init => RtmInv
<1> SUFFICES ASSUME Rtm!CountsPositive, Rtm!Init PROVE RtmInv
  OBVIOUS
<1>1. Rtm!TypeOK
  <2>1. new \in BOOLEAN
    BY DEF Rtm!Init
  <2>2. 0 \in 0 .. Counts - 1
    BY DEF Rtm!CountsPositive
  <2> QED
    BY <2>1, <2>2 DEF Rtm!Init, Rtm!TypeOK, Rtm!Labels
<1>2. \A t \in RtmThreads : at[t] = "idle" /\ tx[t] = {}
  BY DEF Rtm!Init
<1> QED
  BY <1>1, <1>2
  DEF Rtm!Init, RtmInv, RtmTxInv, RtmHoldInv, RtmHolding, RtmSection,
      RtmSawInv,
                    RtmCopyInv, Rtm!At

LEMMA RtmInvImplies == RtmInv => Rtm!LockExcludes
BY
DEF RtmInv, Rtm!LockExcludes, RtmCopyInv, RtmTxInv, RtmHoldInv, RtmHolding,
    RtmSection, Rtm!At

-----------------------------------------------------------------------------
(* The parts of a step.                                                    *)

(* What a write by t does to the other threads: those that have touched    *)
(* what is written are back at _xbegin, without a transaction.             *)
LEMMA RtmWriteEffect ==
  ASSUME Rtm!TypeOK, NEW t \in RtmThreads, NEW what \in {"lock", "content"},
         NEW label \in Rtm!Labels, Rtm!Write(t, what, label)
  PROVE  /\ at' \in [RtmThreads -> Rtm!Labels]
         /\ tx' \in [RtmThreads -> SUBSET {"begun", "lock", "content"}]
         /\ retries' \in [RtmThreads -> {0, 1}]
         /\ at'[t] = label /\ tx'[t] = {}
         /\ \A u \in RtmThreads \ {t} :
              \/ /\ what \notin tx[u]
                 /\ at'[u] = at[u] /\ tx'[u] = tx[u]
              \/ at'[u] \in {"xbegin", "cas"} /\ tx'[u] = {}
BY DEF Rtm!TypeOK, Rtm!Write, Rtm!Back, Rtm!Labels

(* A thread that is back at _xbegin.                                       *)
LEMMA RtmUndoEffect ==
  ASSUME Rtm!TypeOK, NEW t \in RtmThreads, Rtm!Undo(t)
  PROVE  /\ at' \in [RtmThreads -> Rtm!Labels]
         /\ tx' \in [RtmThreads -> SUBSET {"begun", "lock", "content"}]
         /\ retries' \in [RtmThreads -> {0, 1}]
         /\ at'[t] \in {"xbegin", "cas"} /\ tx'[t] = {}
         /\ \A u \in RtmThreads \ {t} : at'[u] = at[u] /\ tx'[u] = tx[u]
BY DEF Rtm!TypeOK, Rtm!Undo, Rtm!Back, Rtm!Labels

(* A step of t that keeps the lock, the content and the other threads.     *)
LEMMA RtmLocalStep ==
  ASSUME RtmInv, NEW t \in RtmThreads, UNCHANGED Rtm!shared, done' = done,
         Rtm!TypeOK',
         \A u \in RtmThreads \ {t} :
           at'[u] = at[u] /\ tx'[u] = tx[u] /\ saw'[u] = saw[u],
         RtmTxInv(t)', RtmSawInv(t)', RtmHolding(t)' => RtmHolding(t),
         ~Rtm!At(t, "copy")'
  PROVE  RtmInv'
<1>1. \A u \in RtmThreads : RtmTxInv(u)' /\ RtmSawInv(u)'
  BY DEF RtmInv, RtmTxInv, RtmSawInv, Rtm!At, Rtm!shared
<1>2. \A u \in RtmThreads : RtmHolding(u)' => RtmHolding(u)
  BY DEF RtmHolding
<1>3. RtmHoldInv'
  BY <1>2 DEF RtmInv, RtmHoldInv, Rtm!shared
<1>4. RtmCopyInv'
  BY DEF RtmInv, RtmCopyInv, Rtm!At, Rtm!shared
<1> QED
  BY <1>1, <1>3, <1>4 DEF RtmInv, Rtm!shared

-----------------------------------------------------------------------------
(* The actions.                                                            *)

LEMMA XBeginInv ==
  ASSUME RtmInv, NEW t \in RtmThreads, Rtm!XBegin(t)
  PROVE  RtmInv'
<1>1. Rtm!TypeOK'
  BY DEF RtmInv, Rtm!TypeOK, Rtm!XBegin, Rtm!Step, Rtm!Labels, Rtm!shared
<1>2. at'[t] = "lv" /\ tx'[t] = {"begun"}
  BY DEF RtmInv, Rtm!TypeOK, Rtm!XBegin, Rtm!Step
<1>3. \A u \in RtmThreads \ {t} :
        at'[u] = at[u] /\ tx'[u] = tx[u] /\ saw'[u] = saw[u]
  BY DEF RtmInv, Rtm!TypeOK, Rtm!XBegin, Rtm!Step
<1> QED
  BY <1>1, <1>2, <1>3, RtmLocalStep
  DEF Rtm!XBegin, RtmTxInv, RtmSawInv, RtmHolding, RtmSection, Rtm!At

LEMMA AbortInv ==
  ASSUME RtmInv, NEW t \in RtmThreads, Rtm!Abort(t)
  PROVE  RtmInv'
<1>1. Rtm!TypeOK'
  BY RtmUndoEffect DEF RtmInv, Rtm!TypeOK, Rtm!Abort, Rtm!shared
<1> QED
  BY <1>1, RtmUndoEffect, RtmLocalStep
  DEF RtmInv, Rtm!Abort, RtmTxInv, RtmSawInv, RtmHolding, RtmSection, Rtm!At

LEMMA AcquireInv ==
  ASSUME RtmInv, NEW t \in RtmThreads, Rtm!Acquire(t)
  PROVE  RtmInv'
<1>1. Rtm!TypeOK'
  BY DEF RtmInv, Rtm!TypeOK, Rtm!Acquire, Rtm!At, Rtm!Labels, Rtm!shared
<1>2. at'[t] = "xbegin" /\ tx'[t] = {}
  BY DEF RtmInv, Rtm!TypeOK, Rtm!Acquire, RtmTxInv, Rtm!At, RtmSection
<1>3. \A u \in RtmThreads \ {t} :
        at'[u] = at[u] /\ tx'[u] = tx[u] /\ saw'[u] = saw[u]
  BY DEF RtmInv, Rtm!TypeOK, Rtm!Acquire
<1> QED
  BY <1>1, <1>2, <1>3, RtmLocalStep
  DEF Rtm!Acquire, RtmTxInv, RtmSawInv, RtmHolding, RtmSection, Rtm!At

LEMMA ReadLockInv ==
  ASSUME RtmInv, NEW t \in RtmThreads, Rtm!ReadLock(t)
  PROVE  RtmInv'
<1>1. tx[t] # {}
  BY DEF RtmInv, Rtm!ReadLock, RtmTxInv
<1>2. CASE mark = "free" /\ Rtm!Step(t, "read") /\ Rtm!Touch(t, "lock")
  <2>1. at' = [at EXCEPT ![t] = "read"]
          /\ tx' = [tx EXCEPT ![t] = @ \cup {"lock"}]
    BY <1>1, <1>2 DEF RtmInv, Rtm!TypeOK, Rtm!Step, Rtm!Touch
  <2>2. Rtm!TypeOK'
    BY <1>2, <2>1
    DEF RtmInv, Rtm!TypeOK, Rtm!ReadLock, Rtm!Step, Rtm!Labels, Rtm!shared
  <2>3. at'[t] = "read" /\ "lock" \in tx'[t]
    BY <2>1 DEF RtmInv, Rtm!TypeOK
  <2>4. \A u \in RtmThreads \ {t} :
          at'[u] = at[u] /\ tx'[u] = tx[u] /\ saw'[u] = saw[u]
    BY <2>1 DEF RtmInv, Rtm!TypeOK, Rtm!ReadLock
  <2> QED
    BY <1>2, <2>2, <2>3, <2>4, RtmLocalStep
    DEF Rtm!ReadLock, RtmTxInv, RtmSawInv, RtmHolding, RtmSection, Rtm!At,
        Rtm!shared
<1>3. CASE mark = "resize" /\ Rtm!Step(t, "wait")
             /\ tx' = [tx EXCEPT ![t] = {}]
  <2>1. Rtm!TypeOK'
    BY <1>3
    DEF RtmInv, Rtm!TypeOK, Rtm!ReadLock, Rtm!Step, Rtm!Labels, Rtm!shared
  <2>2. at'[t] = "wait" /\ tx'[t] = {}
    BY <1>3 DEF RtmInv, Rtm!TypeOK, Rtm!Step
  <2>3. \A u \in RtmThreads \ {t} :
          at'[u] = at[u] /\ tx'[u] = tx[u] /\ saw'[u] = saw[u]
    BY <1>3 DEF RtmInv, Rtm!TypeOK, Rtm!ReadLock, Rtm!Step
  <2> QED
    BY <2>1, <2>2, <2>3, RtmLocalStep
    DEF Rtm!ReadLock, RtmTxInv, RtmSawInv, RtmHolding, RtmSection, Rtm!At
<1>4. CASE mark = "update" /\ Rtm!Undo(t)
  <2>1. Rtm!TypeOK'
    BY <1>4, RtmUndoEffect DEF RtmInv, Rtm!TypeOK, Rtm!ReadLock, Rtm!shared
  <2> QED
    BY <1>4, <2>1, RtmUndoEffect, RtmLocalStep
    DEF RtmInv, Rtm!ReadLock, RtmTxInv, RtmSawInv, RtmHolding, RtmSection,
        Rtm!At
<1> QED BY <1>2, <1>3, <1>4 DEF Rtm!ReadLock

(* The mark is free, so nobody holds it; to take it undoes the             *)
(* transactions that have read it.                                         *)
LEMMA TakeLock ==
  ASSUME RtmInv, NEW t \in RtmThreads, NEW l \in {"update", "resize"},
         NEW label \in {"read", "copy"}, label = "copy" <=> l = "resize",
         mark = "free", mark' = l, Rtm!Write(t, "lock", label),
         UNCHANGED <<new, content, copied, saw, done>>
  PROVE  RtmInv'
<1> DEFINE Others == \A u \in RtmThreads \ {t} :
             \/ "lock" \notin tx[u] /\ at'[u] = at[u] /\ tx'[u] = tx[u]
             \/ at'[u] \in {"xbegin", "cas"} /\ tx'[u] = {}
<1>1. /\ Rtm!TypeOK'
      /\ at'[t] = label /\ tx'[t] = {}
      /\ Others
  BY RtmWriteEffect DEF RtmInv, Rtm!TypeOK, Rtm!Labels
<1>2. \A u \in RtmThreads \ {t} : at'[u] \notin RtmSection \cup {"copy"}
  BY <1>1
  DEF RtmInv, RtmTxInv, RtmHoldInv, RtmHolding, RtmCopyInv, RtmSection, Rtm!At
<1>3. \A u \in RtmThreads : RtmTxInv(u)' /\ RtmSawInv(u)'
  BY <1>1, <1>2 DEF RtmInv, RtmTxInv, RtmSawInv, RtmSection, Rtm!At
<1>4. RtmHoldInv'
  BY <1>1, <1>2 DEF RtmHoldInv, RtmHolding, RtmSection
<1>5. RtmCopyInv'
  BY <1>1, <1>2 DEF RtmInv, RtmCopyInv, Rtm!At
<1> QED
  BY <1>1, <1>3, <1>4, <1>5 DEF RtmInv

LEMMA CasInv ==
  ASSUME RtmInv, NEW t \in RtmThreads, Rtm!Cas(t)
  PROVE  RtmInv'
<1>1. CASE mark = "free" /\ mark' = "update" /\ Rtm!Write(t, "lock", "read")
  BY <1>1, TakeLock DEF Rtm!Cas
<1>2. CASE mark = "resize" /\ Rtm!Step(t, "wait") /\ UNCHANGED <<mark, tx>>
  <2>1. Rtm!TypeOK'
    BY <1>2 DEF RtmInv, Rtm!TypeOK, Rtm!Cas, Rtm!Step, Rtm!Labels
  <2>2. at'[t] = "wait" /\ tx'[t] = {}
    BY <1>2
    DEF RtmInv, Rtm!TypeOK, Rtm!Cas, Rtm!Step, RtmTxInv, RtmSection, Rtm!At
  <2>3. \A u \in RtmThreads \ {t} :
          at'[u] = at[u] /\ tx'[u] = tx[u] /\ saw'[u] = saw[u]
    BY <1>2 DEF RtmInv, Rtm!TypeOK, Rtm!Cas, Rtm!Step
  <2> QED
    BY <1>2, <2>1, <2>2, <2>3, RtmLocalStep
    DEF Rtm!Cas, RtmTxInv, RtmSawInv, RtmHolding, RtmSection, Rtm!At,
        Rtm!shared
<1> QED BY <1>1, <1>2 DEF Rtm!Cas

LEMMA WaitInv ==
  ASSUME RtmInv, NEW t \in RtmThreads, Rtm!Wait(t)
  PROVE  RtmInv'
<1>1. Rtm!TypeOK'
  BY DEF RtmInv, Rtm!TypeOK, Rtm!Wait, Rtm!Step, Rtm!Labels, Rtm!shared
<1>2. at'[t] = "idle" /\ tx'[t] = {}
  BY DEF RtmInv, Rtm!TypeOK, Rtm!Wait, Rtm!Step, RtmTxInv, RtmSection, Rtm!At
<1>3. \A u \in RtmThreads \ {t} :
        at'[u] = at[u] /\ tx'[u] = tx[u] /\ saw'[u] = saw[u]
  BY DEF RtmInv, Rtm!TypeOK, Rtm!Wait, Rtm!Step
<1> QED
  BY <1>1, <1>2, <1>3, RtmLocalStep
  DEF Rtm!Wait, RtmTxInv, RtmSawInv, RtmHolding, RtmSection, Rtm!At

LEMMA ReadInv ==
  ASSUME RtmInv, NEW t \in RtmThreads, Rtm!Read(t)
  PROVE  RtmInv'
<1>1. tx' = [tx EXCEPT ![t] = IF @ = {} THEN {} ELSE @ \cup {"content"}]
  BY DEF Rtm!Read, Rtm!Touch
<1>2. Rtm!TypeOK'
  BY <1>1 DEF RtmInv, Rtm!TypeOK, Rtm!Read, Rtm!Step, Rtm!Labels, Rtm!shared
<1>3. at'[t] = "write" /\ saw'[t] = content
  BY DEF RtmInv, Rtm!TypeOK, Rtm!Read, Rtm!Step
<1>4. tx'[t] = IF tx[t] = {} THEN {} ELSE tx[t] \cup {"content"}
  BY <1>1 DEF RtmInv, Rtm!TypeOK
<1>5. \A u \in RtmThreads \ {t} :
        at'[u] = at[u] /\ tx'[u] = tx[u] /\ saw'[u] = saw[u]
  BY <1>1 DEF RtmInv, Rtm!TypeOK, Rtm!Read, Rtm!Step
<1> QED
  BY <1>2, <1>3, <1>4, <1>5, RtmLocalStep
  DEF RtmInv, Rtm!Read, RtmTxInv, RtmSawInv, RtmHolding, RtmSection, Rtm!At,
      Rtm!shared

(* What t stores others have not read, or their transactions are undone;   *)
(* no bucket is copied that t can change.                                  *)
LEMMA StoreContent ==
  ASSUME Rtm!CountsPositive, RtmInv, NEW t \in RtmThreads,
         NEW label \in {"release", "idle"},
         label = "release" <=> mark # "free",
         Rtm!At(t, "write") \/ (Rtm!At(t, "release") /\ tx[t] # {}),
         content' = Rtm!More(saw[t]), done' = Rtm!More(done),
         Rtm!Write(t, "content", label),
         saw' \in [RtmThreads -> 0 .. Counts - 1],
         \A u \in RtmThreads \ {t} : saw'[u] = saw[u],
         UNCHANGED <<mark, new, copied>>
  PROVE  RtmInv'
<1>1. saw[t] = content /\ content' = done'
  BY DEF RtmInv, RtmSawInv
<1>2. content' \in 0 .. Counts - 1
  BY <1>1, RtmMoreType DEF RtmInv, Rtm!TypeOK
<1>3. /\ Rtm!TypeOK'
      /\ at'[t] = label /\ tx'[t] = {}
      /\ \A u \in RtmThreads \ {t} :
           \/ "content" \notin tx[u] /\ at'[u] = at[u] /\ tx'[u] = tx[u]
           \/ at'[u] \in {"xbegin", "cas"} /\ tx'[u] = {}
  BY <1>1, <1>2, RtmWriteEffect DEF RtmInv, Rtm!TypeOK, Rtm!Labels
<1>4. mark # "resize"
  BY DEF RtmInv, RtmHoldInv, RtmHolding, RtmTxInv, RtmSection, Rtm!At
<1>5. \A u \in RtmThreads \ {t} : ~RtmHolding(u)
  <2>1. CASE tx[t] = {}
    BY <2>1 DEF RtmInv, RtmHoldInv, RtmHolding, RtmSection, Rtm!At
  <2>2. CASE tx[t] # {}
    BY <2>2 DEF RtmInv, RtmHoldInv, RtmHolding, RtmTxInv, RtmSection, Rtm!At
  <2> QED BY <2>1, <2>2
<1>6. \A u \in RtmThreads : RtmTxInv(u)' /\ RtmSawInv(u)'
  BY <1>3, <1>5 DEF RtmInv, RtmTxInv, RtmSawInv, RtmHolding, RtmSection, Rtm!At
<1>7. RtmHoldInv'
  <2>1. \A u \in RtmThreads \ {t} : ~RtmHolding(u)'
    BY <1>3, <1>5 DEF RtmHolding, RtmSection
  <2>2. RtmHolding(t)' => mark = "update"
    BY <1>3, <1>4 DEF RtmHolding, RtmSection, RtmInv, Rtm!TypeOK
  <2> QED BY <2>1, <2>2 DEF RtmHoldInv
<1>8. RtmCopyInv'
  BY <1>3, <1>4 DEF RtmInv, RtmCopyInv, Rtm!At
<1> QED
  BY <1>1, <1>3, <1>6, <1>7, <1>8 DEF RtmInv

LEMMA StoreInv ==
  ASSUME Rtm!CountsPositive, RtmInv, NEW t \in RtmThreads, Rtm!Store(t)
  PROVE  RtmInv'
<1>1. CASE tx[t] # {} /\ Rtm!Step(t, "release")
             /\ UNCHANGED <<content, tx, done>>
  <2>1. Rtm!TypeOK'
    BY <1>1 DEF RtmInv, Rtm!TypeOK, Rtm!Store, Rtm!Step, Rtm!Labels
  <2>2. at'[t] = "release" /\ tx'[t] = tx[t] /\ tx[t] # {}
    BY <1>1 DEF RtmInv, Rtm!TypeOK, Rtm!Step
  <2>3. \A u \in RtmThreads \ {t} :
          at'[u] = at[u] /\ tx'[u] = tx[u] /\ saw'[u] = saw[u]
    BY <1>1 DEF RtmInv, Rtm!TypeOK, Rtm!Store, Rtm!Step
  <2>4. UNCHANGED Rtm!shared /\ done' = done
    BY <1>1 DEF Rtm!Store, Rtm!shared
  <2>5. RtmTxInv(t)' /\ RtmSawInv(t)'
    BY <1>1, <2>2
    DEF RtmInv, Rtm!Store, RtmTxInv, RtmSawInv, RtmSection, Rtm!At
  <2> QED
    BY <2>1, <2>2, <2>3, <2>4, <2>5, RtmLocalStep DEF RtmHolding, Rtm!At
<1>2. CASE /\ tx[t] = {}
           /\ content' = Rtm!More(saw[t]) /\ done' = Rtm!More(done)
           /\ Rtm!Write(t, "content", "release")
  <2>1. mark # "free"
    BY <1>2 DEF RtmInv, RtmHoldInv, RtmHolding, Rtm!Store, RtmSection, Rtm!At
  <2> QED
    BY <1>2, <2>1, StoreContent DEF RtmInv, Rtm!TypeOK, Rtm!Store
<1> QED BY <1>1, <1>2 DEF Rtm!Store

LEMMA ReleaseInv ==
  ASSUME Rtm!CountsPositive, RtmInv, NEW t \in RtmThreads, Rtm!Release(t)
  PROVE  RtmInv'
<1>1. /\ saw' \in [RtmThreads -> 0 .. Counts - 1]
      /\ \A u \in RtmThreads \ {t} : saw'[u] = saw[u]
  BY DEF Rtm!CountsPositive, RtmInv, Rtm!TypeOK, Rtm!Release
<1>2. mark = "free" <=> tx[t] # {}
  BY
  DEF RtmInv, Rtm!Release, RtmTxInv, RtmHoldInv, RtmHolding, RtmSection, Rtm!At
<1>3. CASE /\ mark = "free"
           /\ content' = Rtm!More(saw[t]) /\ done' = Rtm!More(done)
           /\ Rtm!Write(t, "content", "idle")
           /\ UNCHANGED mark
  BY <1>1, <1>2, <1>3, StoreContent DEF Rtm!Release
<1>4. CASE mark # "free" /\ mark' = "free" /\ Rtm!Write(t, "lock", "idle")
           /\ UNCHANGED <<content, done>>
  <2>1. /\ Rtm!TypeOK'
        /\ at'[t] = "idle" /\ tx'[t] = {}
        /\ \A u \in RtmThreads \ {t} :
             \/ "lock" \notin tx[u] /\ at'[u] = at[u] /\ tx'[u] = tx[u]
             \/ at'[u] \in {"xbegin", "cas"} /\ tx'[u] = {}
    BY <1>1, <1>4, RtmWriteEffect
    DEF RtmInv, Rtm!TypeOK, Rtm!Release, Rtm!Labels
  <2>2. RtmHolding(t) /\ mark = "update"
    BY <1>2, <1>4
    DEF RtmInv, RtmHoldInv, RtmHolding, Rtm!Release, RtmSection, Rtm!At
  <2>3. \A u \in RtmThreads \ {t} : at'[u] \notin RtmSection \cup {"copy"}
    BY <2>1, <2>2
    DEF RtmInv, RtmTxInv, RtmHoldInv, RtmHolding, RtmCopyInv, RtmSection,
        Rtm!At
  <2>4. \A u \in RtmThreads : RtmTxInv(u)' /\ RtmSawInv(u)'
    BY <2>1, <2>3 DEF RtmInv, RtmTxInv, RtmSawInv, RtmSection, Rtm!At
  <2>5. RtmHoldInv' /\ RtmCopyInv'
    BY <1>4, <2>1, <2>2, <2>3
    DEF RtmInv, RtmHoldInv, RtmHolding, RtmCopyInv, Rtm!Release, RtmSection,
        Rtm!At
  <2> QED
    BY <1>4, <2>1, <2>4, <2>5 DEF RtmInv
<1> QED BY <1>3, <1>4 DEF Rtm!Release

LEMMA ResizeLockInv ==
  ASSUME RtmInv, NEW t \in RtmThreads, Rtm!ResizeLock(t)
  PROVE  RtmInv'
BY TakeLock DEF Rtm!ResizeLock

(* The mark is marked, so nobody changes the content.                      *)
LEMMA CopyStepInv ==
  ASSUME RtmInv, NEW t \in RtmThreads, Rtm!Copy(t)
  PROVE  RtmInv'
<1>1. Rtm!TypeOK'
  BY DEF RtmInv, Rtm!TypeOK, Rtm!Copy, Rtm!Step, Rtm!Labels
<1>2. at'[t] = "table_new" /\ tx[t] = {}
  BY DEF RtmInv, Rtm!TypeOK, Rtm!Copy, Rtm!Step, RtmTxInv, RtmSection, Rtm!At
<1>3. \A u \in RtmThreads \ {t} : at'[u] = at[u]
  BY DEF RtmInv, Rtm!TypeOK, Rtm!Copy, Rtm!Step
<1>4. \A u \in RtmThreads : RtmTxInv(u)' /\ RtmSawInv(u)'
  BY <1>2, <1>3 DEF RtmInv, Rtm!Copy, RtmTxInv, RtmSawInv, RtmSection, Rtm!At
<1>5. RtmHoldInv'
  BY <1>2, <1>3 DEF RtmInv, Rtm!Copy, RtmHoldInv, RtmHolding, RtmSection
<1>6. RtmCopyInv'
  BY <1>2, <1>3 DEF RtmInv, Rtm!Copy, RtmCopyInv, Rtm!At
<1> QED
  BY <1>1, <1>4, <1>5, <1>6 DEF RtmInv, Rtm!Copy

LEMMA TableNewInv ==
  ASSUME RtmInv, NEW t \in RtmThreads, Rtm!TableNew(t)
  PROVE  RtmInv'
<1>1. Rtm!TypeOK'
  <2>1. new' \in BOOLEAN
    BY DEF Rtm!TableNew
  <2> QED
    BY <2>1 DEF RtmInv, Rtm!TypeOK, Rtm!TableNew, Rtm!Step, Rtm!Labels
<1>2. at'[t] = "idle" /\ tx[t] = {}
  BY
  DEF RtmInv, Rtm!TypeOK, Rtm!TableNew, Rtm!Step, RtmTxInv, RtmSection, Rtm!At
<1>3. \A u \in RtmThreads \ {t} : at'[u] = at[u]
  BY DEF RtmInv, Rtm!TypeOK, Rtm!TableNew, Rtm!Step
<1>4. \A u \in RtmThreads : RtmTxInv(u)' /\ RtmSawInv(u)'
  BY <1>2, <1>3
  DEF RtmInv, Rtm!TableNew, RtmTxInv, RtmSawInv, RtmSection, Rtm!At
<1>5. RtmHoldInv'
  BY <1>2, <1>3 DEF RtmInv, Rtm!TableNew, RtmHoldInv, RtmHolding, RtmSection
<1>6. RtmCopyInv'
  BY <1>2, <1>3 DEF RtmInv, Rtm!TableNew, RtmCopyInv, Rtm!At
<1> QED
  BY <1>1, <1>4, <1>5, <1>6 DEF RtmInv, Rtm!TableNew

LEMMA RtmNextInv ==
  Rtm!CountsPositive /\ RtmInv /\ [Rtm!Next]_(Rtm!vars) => RtmInv'
<1> SUFFICES ASSUME Rtm!CountsPositive, RtmInv, [Rtm!Next]_(Rtm!vars)
             PROVE  RtmInv'
  OBVIOUS
<1>1. ASSUME NEW t \in RtmThreads,
             Rtm!XBegin(t) \/ Rtm!Abort(t) \/ Rtm!Acquire(t)
               \/ Rtm!ReadLock(t) \/ Rtm!Cas(t)
             \/ Rtm!Wait(t)
      PROVE  RtmInv'
  BY <1>1, XBeginInv, AbortInv, AcquireInv, ReadLockInv, CasInv, WaitInv
<1>2. ASSUME NEW t \in RtmThreads,
             Rtm!Read(t) \/ Rtm!Store(t) \/ Rtm!Release(t)
             \/ Rtm!ResizeLock(t) \/ Rtm!Copy(t) \/ Rtm!TableNew(t)
      PROVE  RtmInv'
  BY <1>2, ReadInv, StoreInv, ReleaseInv, ResizeLockInv, CopyStepInv,
     TableNewInv
<1>3. CASE UNCHANGED Rtm!vars
  BY <1>3
  DEF Rtm!vars, Rtm!shared, RtmInv, Rtm!TypeOK, RtmTxInv, RtmSawInv,
      RtmHoldInv, RtmHolding, RtmCopyInv, Rtm!At
<1> QED BY <1>1, <1>2, <1>3 DEF Rtm!Next

(* What each thread knows of the lock and the bucket in LOCK_ACQ, in its   *)
(* section and in LOCK_RLS.                                                *)
THEOREM RtmInvariance == Spec => [](variant = "rtm" => RtmInv)
<1> DEFINE Inv == variant = "rtm" => RtmInv
<1>1. Init => Inv
  BY RtmInitInv, RtmCounts DEF Init
<1>2. Inv /\ [Next]_vars => Inv'
  <2>1. [Next]_vars /\ variant = "rtm" => [Rtm!Next]_(Rtm!vars)
    BY DEF Next, vars, ofRtm, Rtm!vars, Rtm!shared
  <2>2. [Next]_vars => variant' = variant
    BY DEF Next, vars
  <2> QED
    BY <2>1, <2>2, RtmNextInv, RtmCounts
<1> QED
  BY <1>1, <1>2, PTL DEF Spec

(* No update is lost, none changes a bucket that the resizer has copied,   *)
(* and LOCK_RLS, which only looks whether the lock is free, commits if and *)
(* only if there is a transaction.                                         *)
THEOREM LocksExclude == Spec => []LockExcludes
<1>1. (variant = "rtm" => RtmInv) => LockExcludes
  BY RtmInvImplies DEF LockExcludes
<1> QED
  BY <1>1, RtmInvariance, PTL

-----------------------------------------------------------------------------
RemSlots == 1 .. MapSlots
RemWords == [version : 0 .. 2 * MapPuts + 1, map : [RemSlots -> Rem!MapState]]
RemPutting == {"claim", "write_val", "write_key", "commit", "release"}

RemType ==
  /\ word \in RemWords
  /\ val \in [RemSlots -> Rem!B!Vals \cup {Rem!B!NoVal}]
  /\ call \in [Threads -> Rem!B!Calls]
  /\ pc \in [Threads -> Rem!Labels]
  /\ snap \in [Threads -> RemWords]
  /\ slot \in [Threads -> RemSlots \cup {0}]
  /\ idx \in [Threads -> RemSlots]
  /\ puts \in 0 .. MapPuts
  /\ met \in [Threads -> BOOLEAN]

(* A put that claims a slot has seen it free, or fills it.                 *)
RemControl(t) ==
  /\ pc[t] \in RemPutting => slot[t] # 0 /\ call[t].op = "put"
  /\ pc[t] = "claim" => snap[t].map[slot[t]] = Rem!B!INVLD

(* t fills slot i, or has marked it.                                       *)
RemFills(t, i) == slot[t] = i /\ pc[t] # "claim"
RemMarks(t, i) == pc[t] \in Rem!Marking /\ idx[t] = i

RemHeld(i) ==
  /\ \A t \in Threads : RemFills(t, i) => word.map[i] = Rem!B!INSRT
  /\ \A t, u \in Threads : RemFills(t, i) /\ RemFills(u, i) => t = u
  /\ \A t \in Threads : RemMarks(t, i) => word.map[i] = Rem!REMOV
  /\ \A t, u \in Threads : RemMarks(t, i) /\ RemMarks(u, i) => t = u
  /\ word.map[i] = Rem!REMOV => \E t \in Threads : RemMarks(t, i)

RemInv ==
  /\ RemType
  /\ \A t \in Threads : RemControl(t)
  /\ \A i \in RemSlots : RemHeld(i)

LEMMA RemNames ==
  /\ Rem!B!Slots = RemSlots /\ 1 \in RemSlots /\ 0 \notin RemSlots
  /\ Rem!B!Idle \in Rem!B!Calls
  /\ \A k \in Keys, op \in {"get", "remove"} :
       [op |-> op, key |-> k, val |-> Rem!B!NoVal] \in Rem!B!Calls
  /\ \A k \in Keys, v \in Rem!B!Vals :
       [op |-> "put", key |-> k, val |-> v] \in Rem!B!Calls
  /\ \A c \in Rem!B!Calls : c.op = "put" => c.val \in Rem!B!Vals
BY MapBounds
DEF Rem!B!Slots, RemSlots, Rem!B!Idle, Rem!B!Calls, Rem!B!Vals, Rem!B!NoVal

LEMMA RemInitInv == Rem!Init => RemInv
<1> SUFFICES ASSUME Rem!Init PROVE RemInv
  OBVIOUS
<1>1. RemType
  <2>1. Rem!B!Free \in RemWords
    BY MapBounds, RemNames
    DEF Rem!B!Free, RemWords, Rem!MapState, Rem!B!MapState, RemSlots
  <2> QED
    BY <2>1, MapBounds, RemNames
    DEF RemType, Rem!Init, Rem!B!Init, Rem!Labels, Rem!B!Labels
<1>2. \A t \in Threads : RemControl(t)
  BY DEF Rem!Init, Rem!B!Init, RemControl, RemPutting
<1>3. \A i \in RemSlots : RemHeld(i)
  BY RemNames
  DEF Rem!Init, Rem!B!Init, RemHeld, RemFills, RemMarks, Rem!Marking,
      Rem!REMOV, Rem!B!Free, Rem!B!INVLD
<1> QED BY <1>1, <1>2, <1>3 DEF RemInv

(* A byte of the map is set.                                               *)
RemSet(i, m) ==
  /\ word' \in RemWords
  /\ \A j \in RemSlots : word'.map[j] = IF j = i THEN m ELSE word.map[j]

LEMMA RemSetMap ==
  ASSUME word \in RemWords, NEW i, NEW m \in Rem!MapState,
         word' = [word EXCEPT !.map[i] = m]
  PROVE  RemSet(i, m)
<1> DEFINE f == [word.map EXCEPT ![i] = m]
<1>1. word' = [word EXCEPT !.map = f]
  OBVIOUS
<1>2. f \in [RemSlots -> Rem!MapState]
  BY DEF RemWords
<1>3. \A j \in RemSlots : f[j] = IF j = i THEN m ELSE word.map[j]
  BY DEF RemWords
<1> HIDE DEF f
<1> QED BY <1>1, <1>2, <1>3 DEF RemSet, RemWords

(* What a step of t does to the map, to its slot and to its mark.          *)
RemKeeps(t) ==
  /\ word' = word
  /\ \A i \in RemSlots : /\ RemFills(t, i)' => RemFills(t, i)
                         /\ RemMarks(t, i)' <=> RemMarks(t, i)
RemClaims(t) ==
  /\ RemSet(slot[t], Rem!B!INSRT) /\ word.map[slot[t]] = Rem!B!INVLD
  /\ slot[t] \in RemSlots /\ slot' = slot
  /\ pc[t] \notin Rem!Marking /\ pc'[t] \notin Rem!Marking
RemLeaves(t) ==
  /\ \E m \in {Rem!B!VALID, Rem!B!INVLD} : RemSet(slot[t], m)
  /\ RemFills(t, slot[t]) /\ slot[t] \in RemSlots /\ slot'[t] = 0
  /\ pc[t] \notin Rem!Marking /\ pc'[t] \notin Rem!Marking
RemTakes(t) ==
  /\ RemSet(idx[t], Rem!REMOV) /\ word.map[idx[t]] = Rem!B!VALID
  /\ slot' = slot /\ idx' = idx /\ pc[t] # "claim"
  /\ pc[t] \notin Rem!Marking /\ pc'[t] \in Rem!Marking
RemGives(t) ==
  /\ \E m \in {Rem!B!VALID, Rem!B!INVLD} : RemSet(idx[t], m)
  /\ RemMarks(t, idx[t]) /\ pc'[t] \notin Rem!Marking /\ slot'[t] = 0
RemEffect(t) ==
  \/ RemKeeps(t) \/ RemClaims(t) \/ RemLeaves(t) \/ RemTakes(t) \/ RemGives(t)

RemOthers(t) ==
  \A u \in Threads \ {t} :
    /\ pc'[u] = pc[u] /\ call'[u] = call[u] /\ snap'[u] = snap[u]
    /\ slot'[u] = slot[u] /\ idx'[u] = idx[u]

LEMMA RemHeldStep ==
  ASSUME RemInv, NEW t \in Threads, RemOthers(t), RemEffect(t), RemType'
  PROVE  \A i \in RemSlots : RemHeld(i)'
<1> SUFFICES ASSUME NEW i \in RemSlots PROVE RemHeld(i)'
  OBVIOUS
<1>1. RemHeld(i) /\ slot[t] \in RemSlots \cup {0} /\ idx[t] \in RemSlots
  BY DEF RemInv, RemType
<1>2. \A u \in Threads \ {t} : /\ RemFills(u, i)' <=> RemFills(u, i)
                               /\ RemMarks(u, i)' <=> RemMarks(u, i)
  BY DEF RemOthers, RemFills, RemMarks
<1>3. /\ Rem!REMOV # Rem!B!VALID /\ Rem!REMOV # Rem!B!INVLD
      /\ Rem!REMOV # Rem!B!INSRT /\ Rem!B!INSRT # Rem!B!VALID
      /\ Rem!B!INSRT # Rem!B!INVLD
  BY DEF Rem!REMOV, Rem!B!VALID, Rem!B!INVLD, Rem!B!INSRT
<1>4. CASE RemKeeps(t)
  BY <1>1, <1>2, <1>4 DEF RemKeeps, RemHeld
<1>5. CASE RemClaims(t)
  <2>1. /\ ~RemMarks(t, i) /\ ~RemMarks(t, i)'
        /\ RemFills(t, i)' => i = slot[t]
    BY <1>5 DEF RemClaims, RemMarks, RemFills
  <2>2. word'.map[i] = IF i = slot[t] THEN Rem!B!INSRT ELSE word.map[i]
    BY <1>5 DEF RemClaims, RemSet
  <2>3. word.map[slot[t]] = Rem!B!INVLD
    BY <1>5 DEF RemClaims
  <2> QED BY <1>1, <1>2, <1>3, <2>1, <2>2, <2>3 DEF RemHeld
<1>6. CASE RemLeaves(t)
  <2>1. /\ ~RemMarks(t, i) /\ ~RemMarks(t, i)' /\ ~RemFills(t, i)'
        /\ RemFills(t, slot[t])
        /\ RemFills(t, i) => i = slot[t]
    BY <1>6, RemNames DEF RemLeaves, RemMarks, RemFills
  <2>2. PICK m \in {Rem!B!VALID, Rem!B!INVLD} :
          word'.map[i] = IF i = slot[t] THEN m ELSE word.map[i]
    BY <1>6 DEF RemLeaves, RemSet
  <2> QED BY <1>1, <1>2, <1>3, <2>1, <2>2 DEF RemHeld
<1>7. CASE RemTakes(t)
  <2>1. /\ ~RemMarks(t, i)
        /\ RemMarks(t, i)' <=> i = idx[t]
        /\ RemFills(t, i)' => RemFills(t, i)
    BY <1>7 DEF RemTakes, RemMarks, RemFills
  <2>2. word'.map[i] = IF i = idx[t] THEN Rem!REMOV ELSE word.map[i]
    BY <1>7 DEF RemTakes, RemSet
  <2>3. word.map[idx[t]] = Rem!B!VALID
    BY <1>7 DEF RemTakes
  <2> QED BY <1>1, <1>2, <1>3, <2>1, <2>2, <2>3 DEF RemHeld
<1>8. CASE RemGives(t)
  <2>1. /\ ~RemMarks(t, i)' /\ ~RemFills(t, i)'
        /\ RemMarks(t, i) <=> i = idx[t]
    BY <1>8, RemNames DEF RemGives, RemMarks, RemFills
  <2>2. PICK m \in {Rem!B!VALID, Rem!B!INVLD} :
          word'.map[i] = IF i = idx[t] THEN m ELSE word.map[i]
    BY <1>8 DEF RemGives, RemSet
  <2> QED BY <1>1, <1>2, <1>3, <2>1, <2>2 DEF RemHeld
<1> QED BY <1>4, <1>5, <1>6, <1>7, <1>8 DEF RemEffect

-----------------------------------------------------------------------------
RemSteps(t) ==
  \/ Rem!Get(t) \/ Rem!Put(t) \/ Rem!Remove(t) \/ Rem!Work(t)

(* t does all that is needed of its step.                                  *)
RemGood(t) == RemType' /\ RemOthers(t) /\ RemEffect(t) /\ RemControl(t)'

LEMMA RemCallGood ==
  ASSUME RemInv, NEW t \in Threads, Rem!Get(t) \/ Rem!Put(t) \/ Rem!Remove(t)
  PROVE  RemGood(t)
<1>1. RemType /\ RemControl(t) /\ pc[t] = "idle"
  BY DEF RemInv, Rem!Get, Rem!Put, Rem!Remove, Rem!B!Get, Rem!B!Put,
         Rem!B!At
<1>2. PICK k \in Keys, op \in {"get", "put", "remove"},
           v \in Rem!B!Vals \cup {Rem!B!NoVal} :
        /\ [op |-> op, key |-> k, val |-> v] \in Rem!B!Calls
        /\ call' = [call EXCEPT ![t] = [op |-> op, key |-> k, val |-> v]]
        /\ puts' \in 0 .. MapPuts /\ met' \in [Threads -> BOOLEAN]
        /\ \E l \in {"search_val", "snapshot", "rem_val"} :
             pc' = [pc EXCEPT ![t] = l]
        /\ UNCHANGED <<word, key, val, snap, slot, idx, cur>>
  <2>1. CASE Rem!Get(t)
    BY <1>1, <2>1, RemNames
    DEF Rem!Get, Rem!B!Get, Rem!B!Goto, Rem!B!bucket, Rem!B!locals, RemType
  <2>2. CASE Rem!Put(t)
    <3>1. puts + 1 \in Rem!B!Vals /\ puts' = puts + 1 /\ puts' \in 0 .. MapPuts
          /\ Rem!B!NewVal = puts + 1
      BY <1>1, <2>2, MapBounds
      DEF Rem!Put, Rem!B!Put, Rem!B!Vals, Rem!B!NewVal, RemType
    <3>2. PICK k \in Keys :
            call' = [call EXCEPT ![t] =
                       [op |-> "put", key |-> k, val |-> puts + 1]]
      BY <2>2, <3>1 DEF Rem!Put, Rem!B!Put
    <3>3. /\ pc' = [pc EXCEPT ![t] = "snapshot"] /\ met' = met
          /\ UNCHANGED <<word, key, val, snap, slot, idx, cur>>
      BY <2>2
      DEF Rem!Put, Rem!B!Put, Rem!B!Goto, Rem!B!bucket, Rem!B!locals
    <3> QED BY <1>1, <3>1, <3>2, <3>3, RemNames DEF RemType
  <2>3. CASE Rem!Remove(t)
    BY <1>1, <2>3, RemNames
    DEF Rem!Remove, Rem!B!Goto, Rem!shared, Rem!locals, RemType
  <2> QED BY <2>1, <2>2, <2>3
<1>3. RemType'
  BY <1>1, <1>2 DEF RemType, Rem!Labels, Rem!B!Labels
<1>4. RemOthers(t)
  BY <1>1, <1>2 DEF RemOthers, RemType
<1>5. /\ pc'[t] \notin RemPutting /\ pc'[t] \notin Rem!Marking
      /\ pc[t] \notin Rem!Marking /\ pc[t] # "claim" /\ pc'[t] # "claim"
  BY <1>1, <1>2 DEF RemPutting, Rem!Marking, RemType
<1>6. RemControl(t)'
  BY <1>5 DEF RemControl
<1>7. RemKeeps(t)
  BY <1>2, <1>5 DEF RemKeeps, RemFills, RemMarks
<1> QED BY <1>3, <1>4, <1>6, <1>7 DEF RemGood, RemEffect

(* A step that leaves the map and goes on outside of the marked part, with *)
(* the slot that t fills or with none.                                     *)
LEMMA RemQuiet ==
  ASSUME RemInv, NEW t \in Threads, word' = word, val' = val,
         puts' = puts, met' \in [Threads -> BOOLEAN], RemType',
         RemOthers(t), pc[t] # "claim" \/ slot'[t] = 0 \/ pc'[t] = "claim",
         slot'[t] \in {slot[t], 0} \/ pc'[t] = "claim",
         pc[t] \notin Rem!Marking, pc'[t] \notin Rem!Marking
  PROVE  RemEffect(t)
<1>1. RemKeeps(t)
  BY RemNames DEF RemKeeps, RemFills, RemMarks, RemInv, RemType
<1> QED BY <1>1 DEF RemEffect

-----------------------------------------------------------------------------
(* The thread-local part of the steps.                                     *)
RemLocals ==
  /\ call \in [Threads -> Rem!B!Calls]
  /\ pc \in [Threads -> Rem!Labels]
  /\ snap \in [Threads -> RemWords]
  /\ slot \in [Threads -> RemSlots \cup {0}]
  /\ idx \in [Threads -> RemSlots]

(* t stays outside of the marked part, with its slot, without one, or with *)
(* one that it is going to claim.                                          *)
RemOutside(t) ==
  /\ RemLocals' /\ RemOthers(t) /\ RemControl(t)'
  /\ pc[t] # "claim" \/ slot'[t] = 0 \/ pc'[t] = "claim"
  /\ slot'[t] \in {slot[t], 0} \/ pc'[t] = "claim"
  /\ pc'[t] \notin Rem!Marking

LEMMA RemOutsideGood ==
  ASSUME RemInv, NEW t \in Threads, pc[t] \notin Rem!Marking, RemOutside(t),
         word' = word, val' = val, puts' = puts,
         met' \in [Threads -> BOOLEAN]
  PROVE  RemGood(t)
<1>1. RemType'
  BY DEF RemOutside, RemLocals, RemInv, RemType
<1>2. RemEffect(t)
  BY <1>1, RemQuiet DEF RemOutside
<1> QED BY <1>1, <1>2 DEF RemGood, RemOutside

LEMMA RemReturned ==
  ASSUME RemType, NEW t \in Threads, NEW r, Rem!B!Return(t, r)
  PROVE  /\ RemOutside(t) /\ pc'[t] = "idle" /\ slot'[t] = 0
<1>1. Rem!B!Free \in RemWords
  BY MapBounds, RemNames
  DEF Rem!B!Free, RemWords, Rem!MapState, Rem!B!MapState, RemSlots
<1>2. RemLocals' /\ RemOthers(t) /\ pc'[t] = "idle" /\ slot'[t] = 0
  BY <1>1, RemNames
  DEF Rem!B!Return, Rem!B!Goto, RemLocals, RemType, RemOthers, Rem!Labels,
      Rem!B!Labels
<1> QED
  BY <1>2 DEF RemOutside, RemControl, RemPutting, Rem!Marking

LEMMA RemRetried ==
  ASSUME RemType, NEW t \in Threads, NEW e \in {slot[t], 0},
         Rem!B!Retry(t, e), pc[t] = "claim" => e = 0
  PROVE  RemOutside(t)
<1>1. RemLocals' /\ RemOthers(t) /\ pc'[t] = "snapshot" /\ slot'[t] = e
  BY RemNames
  DEF Rem!B!Retry, Rem!B!Goto, RemLocals, RemType, RemOthers, Rem!Labels,
      Rem!B!Labels
<1> QED
  BY <1>1 DEF RemOutside, RemControl, RemPutting, Rem!Marking

LEMMA RemContinued ==
  ASSUME RemType, NEW t \in Threads, NEW l \in Rem!Labels,
         Rem!B!Continue(t, l)
  PROVE  /\ RemLocals' /\ RemOthers(t) /\ pc'[t] = l
         /\ UNCHANGED <<call, snap, slot, idx, cur>>
BY DEF Rem!B!Continue, Rem!B!Goto, Rem!B!locals, RemLocals, RemType, RemOthers

LEMMA RemSearched ==
  ASSUME RemInv, NEW t \in Threads, NEW r, pc[t] # "claim",
         Rem!B!SearchDone(t, r)
  PROVE  RemOutside(t)
<1>1. RemType /\ RemControl(t)
  BY DEF RemInv
<1>2. ASSUME NEW l \in {"release", "commit"}, Rem!B!Continue(t, l),
             slot[t] # 0, call[t].op = "put"
      PROVE  RemOutside(t)
  <2>1. /\ RemLocals' /\ RemOthers(t) /\ pc'[t] = l
        /\ UNCHANGED <<call, snap, slot, idx, cur>>
    BY <1>1, <1>2, RemContinued DEF Rem!Labels, Rem!B!Labels
  <2> QED
    BY <1>2, <2>1 DEF RemOutside, RemControl, RemPutting, Rem!Marking
<1>3. ASSUME Rem!B!TakeSlot(t), call[t].op = "put"
      PROVE  RemOutside(t)
  <2>1. CASE Rem!B!EmptySlots(snap[t]) = {}
    BY <1>1, <1>3, <2>1, RemRetried DEF Rem!B!TakeSlot
  <2>2. CASE Rem!B!EmptySlots(snap[t]) # {}
    <3>1. PICK i \in Rem!B!EmptySlots(snap[t]) :
            slot' = [slot EXCEPT ![t] = i]
      BY <1>3, <2>2 DEF Rem!B!TakeSlot
    <3>2. i \in RemSlots /\ snap[t].map[i] = Rem!B!INVLD
      BY RemNames DEF Rem!B!EmptySlots
    <3>3. /\ pc' = [pc EXCEPT ![t] = "claim"]
          /\ UNCHANGED <<call, snap, idx>>
      BY <1>3, <2>2 DEF Rem!B!TakeSlot, Rem!B!Goto
    <3>4. /\ RemLocals' /\ RemOthers(t) /\ pc'[t] = "claim" /\ slot'[t] = i
          /\ call'[t] = call[t] /\ snap'[t] = snap[t]
      BY <1>1, <3>1, <3>2, <3>3
      DEF RemLocals, RemOthers, RemType, Rem!Labels, Rem!B!Labels
    <3> QED
      BY <1>3, <3>2, <3>4, RemNames
      DEF RemOutside, RemControl, Rem!Marking
  <2> QED BY <2>1, <2>2
<1> QED
  BY <1>1, <1>2, <1>3, RemReturned DEF Rem!B!SearchDone

LEMMA RemSearchNext ==
  ASSUME RemInv, NEW t \in Threads, pc[t] # "claim", Rem!B!SearchNext(t)
  PROVE  RemOutside(t)
<1>1. CASE idx[t] = MapSlots
  BY <1>1, RemSearched DEF Rem!B!SearchNext
<1>2. CASE idx[t] # MapSlots
  <2>1. /\ idx' = [idx EXCEPT ![t] = idx[t] + 1]
        /\ pc' = [pc EXCEPT ![t] = "search_val"]
        /\ UNCHANGED <<call, snap, slot>>
    BY <1>2 DEF Rem!B!SearchNext, Rem!B!Goto
  <2>2. idx[t] \in RemSlots /\ idx[t] + 1 \in RemSlots
    BY <1>2, MapBounds DEF RemInv, RemType, RemSlots
  <2>3. /\ RemLocals' /\ RemOthers(t) /\ pc'[t] = "search_val"
        /\ slot'[t] = slot[t]
    BY <2>1, <2>2
    DEF RemInv, RemLocals, RemOthers, RemType, Rem!Labels, Rem!B!Labels
  <2> QED
    BY <2>3 DEF RemOutside, RemControl, RemPutting, Rem!Marking
<1> QED BY <1>1, <1>2

LEMMA RemRemoveNext ==
  ASSUME RemInv, NEW t \in Threads, pc[t] # "claim", Rem!RemoveNext(t)
  PROVE  RemOutside(t)
<1>1. CASE idx[t] = MapSlots
  BY <1>1, RemReturned DEF Rem!RemoveNext, RemInv
<1>2. CASE idx[t] # MapSlots
  <2>1. /\ idx' = [idx EXCEPT ![t] = idx[t] + 1]
        /\ pc' = [pc EXCEPT ![t] = "rem_val"]
        /\ UNCHANGED <<call, snap, slot>>
    BY <1>2 DEF Rem!RemoveNext, Rem!B!Goto
  <2>2. idx[t] \in RemSlots /\ idx[t] + 1 \in RemSlots
    BY <1>2, MapBounds DEF RemInv, RemType, RemSlots
  <2>3. /\ RemLocals' /\ RemOthers(t) /\ pc'[t] = "rem_val"
        /\ slot'[t] = slot[t]
    BY <2>1, <2>2
    DEF RemInv, RemLocals, RemOthers, RemType, Rem!Labels, Rem!B!Labels
  <2> QED
    BY <2>3 DEF RemOutside, RemControl, RemPutting, Rem!Marking
<1> QED BY <1>1, <1>2

(* Continuing at a label that needs no slot.                               *)
LEMMA RemGoesOn ==
  ASSUME RemInv, NEW t \in Threads, pc[t] # "claim",
         NEW l \in Rem!Labels \ (RemPutting \cup Rem!Marking),
         Rem!B!Continue(t, l)
  PROVE  RemOutside(t)
<1>1. /\ RemLocals' /\ RemOthers(t) /\ pc'[t] = l
      /\ UNCHANGED <<call, snap, slot, idx, cur>>
  BY RemContinued DEF RemInv
<1> QED BY <1>1 DEF RemOutside, RemControl, RemPutting
-----------------------------------------------------------------------------
LEMMA RemSearchGood ==
  ASSUME RemInv, NEW t \in Threads,
         \/ Rem!ReadSnapshot(t) \/ Rem!SearchVal(t) \/ Rem!SearchMap(t)
         \/ Rem!SearchKey(t) \/ Rem!SearchAgain(t)
  PROVE  RemGood(t)
<1>1. RemType /\ met' = met /\ met \in [Threads -> BOOLEAN]
  BY DEF RemInv, RemType, Rem!ReadSnapshot, Rem!SearchVal, Rem!SearchMap,
         Rem!SearchKey, Rem!SearchAgain
<1>2. /\ pc[t] \in {"snapshot", "search_val", "search_map", "search_key",
                    "search_again"}
      /\ word' = word /\ val' = val /\ puts' = puts
  BY DEF Rem!ReadSnapshot, Rem!SearchVal, Rem!SearchMap, Rem!SearchKey,
         Rem!SearchAgain, Rem!B!ReadSnapshot, Rem!B!SearchVal,
         Rem!B!SearchKey, Rem!B!SearchAgain, Rem!B!At, Rem!B!bucket,
         Rem!shared
<1>3. pc[t] # "claim" /\ pc[t] \notin Rem!Marking
  BY <1>2 DEF Rem!Marking
<1>4. RemOutside(t)
  <2>1. CASE Rem!ReadSnapshot(t)
    <3>1. /\ snap' = [snap EXCEPT ![t] = word]
          /\ pc' = [pc EXCEPT ![t] = IF call[t].op = "put" THEN "search_val"
                                     ELSE "rem_key"]
          /\ UNCHANGED <<call, slot, idx>>
      BY <2>1 DEF Rem!ReadSnapshot, Rem!B!ReadSnapshot, Rem!B!Goto
    <3>2. /\ RemLocals' /\ RemOthers(t) /\ slot'[t] = slot[t]
          /\ pc'[t] \in {"search_val", "rem_key"}
      BY <1>1, <3>1
      DEF RemLocals, RemOthers, RemType, Rem!Labels, Rem!B!Labels
    <3> QED
      BY <1>3, <3>2 DEF RemOutside, RemControl, RemPutting, Rem!Marking
  <2>2. CASE Rem!SearchVal(t)
    <3>1. /\ pc' = [pc EXCEPT ![t] = "search_map"]
          /\ UNCHANGED <<call, snap, slot, idx>>
      BY <2>2 DEF Rem!SearchVal, Rem!B!SearchVal, Rem!B!Goto
    <3>2. /\ RemLocals' /\ RemOthers(t) /\ slot'[t] = slot[t]
          /\ pc'[t] = "search_map"
      BY <1>1, <3>1
      DEF RemLocals, RemOthers, RemType, Rem!Labels, Rem!B!Labels
    <3> QED
      BY <1>3, <3>2 DEF RemOutside, RemControl, RemPutting, Rem!Marking
  <2>3. "search_key" \in Rem!Labels \ (RemPutting \cup Rem!Marking)
        /\ "search_again" \in Rem!Labels \ (RemPutting \cup Rem!Marking)
    BY DEF Rem!Labels, Rem!B!Labels, RemPutting, Rem!Marking
  <2>4. CASE Rem!SearchMap(t)
    BY <1>3, <2>3, <2>4, RemGoesOn, RemSearchNext DEF Rem!SearchMap
  <2>5. CASE Rem!SearchKey(t)
    BY <1>3, <2>3, <2>5, RemGoesOn, RemSearchNext
    DEF Rem!SearchKey, Rem!B!SearchKey
  <2>6. CASE Rem!SearchAgain(t)
    BY <1>3, <2>6, RemSearched DEF Rem!SearchAgain, Rem!B!SearchAgain
  <2> QED BY <2>1, <2>2, <2>4, <2>5, <2>6
<1> QED BY <1>1, <1>2, <1>3, <1>4, RemOutsideGood

(* The writes of the key and value of a slot that a put fills.             *)
LEMMA RemWriteGood ==
  ASSUME RemInv, NEW t \in Threads, Rem!WriteVal(t) \/ Rem!WriteKey(t)
  PROVE  RemGood(t)
<1>1. RemType /\ RemControl(t)
  BY DEF RemInv
<1>2. PICK l \in {"write_key", "commit"} :
        /\ Rem!B!Continue(t, l) /\ pc[t] \in {"write_val", "write_key"}
        /\ word' = word /\ puts' = puts /\ met' = met
        /\ val' = val \/ val' = [val EXCEPT ![slot[t]] = call[t].val]
  BY DEF Rem!WriteVal, Rem!WriteKey, Rem!B!WriteVal, Rem!B!WriteKey,
         Rem!B!At
<1>3. /\ RemLocals' /\ RemOthers(t) /\ pc'[t] = l
      /\ UNCHANGED <<call, snap, slot, idx, cur>>
  BY <1>1, <1>2, RemContinued DEF Rem!Labels, Rem!B!Labels
<1>4. slot[t] # 0 /\ call[t].op = "put"
  BY <1>1, <1>2 DEF RemControl, RemPutting
<1>5. call[t].val \in Rem!B!Vals
  BY <1>1, <1>4, RemNames DEF RemType
<1>6. val' \in [RemSlots -> Rem!B!Vals \cup {Rem!B!NoVal}]
  BY <1>1, <1>2, <1>5 DEF RemType
<1>7. RemType'
  BY <1>1, <1>2, <1>3, <1>6 DEF RemLocals, RemType
<1>8. RemControl(t)'
  BY <1>2, <1>3, <1>4 DEF RemControl
<1>9. RemKeeps(t)
  BY <1>2, <1>3 DEF RemKeeps, RemFills, RemMarks, Rem!Marking
<1> QED BY <1>3, <1>7, <1>8, <1>9 DEF RemGood, RemEffect

LEMMA RemClaimGood ==
  ASSUME RemInv, NEW t \in Threads, Rem!Claim(t)
  PROVE  RemGood(t)
<1>1. /\ RemType /\ RemControl(t) /\ pc[t] = "claim"
      /\ pc[t] \notin Rem!Marking
      /\ val' = val /\ puts' = puts /\ met' = met
  BY DEF RemInv, Rem!Claim, Rem!B!Claim, Rem!B!At, Rem!Marking
<1>2. CASE word # snap[t]
  <2>1. Rem!B!Retry(t, 0) /\ word' = word
    BY <1>2 DEF Rem!Claim, Rem!B!Claim
  <2>2. RemOutside(t)
    BY <1>1, <2>1, RemRetried
  <2> QED BY <1>1, <2>1, <2>2, RemOutsideGood DEF RemType
<1>3. CASE word = snap[t]
  <2>1. /\ word' = [word EXCEPT !.map[slot[t]] = Rem!B!INSRT]
        /\ Rem!B!Continue(t, "write_val")
    BY <1>3 DEF Rem!Claim, Rem!B!Claim, Rem!B!SetMap
  <2>2. /\ RemLocals' /\ RemOthers(t) /\ pc'[t] = "write_val"
        /\ UNCHANGED <<call, snap, slot, idx, cur>>
    BY <1>1, <2>1, RemContinued DEF Rem!Labels, Rem!B!Labels
  <2>3. /\ slot[t] \in RemSlots /\ word.map[slot[t]] = Rem!B!INVLD
        /\ call[t].op = "put" /\ slot[t] # 0
    BY <1>1, <1>3 DEF RemControl, RemPutting, RemType
  <2>4. RemSet(slot[t], Rem!B!INSRT)
    BY <1>1, <2>1, RemSetMap DEF RemType, Rem!MapState, Rem!B!MapState
  <2>5. RemType'
    BY <1>1, <2>2, <2>4 DEF RemSet, RemLocals, RemType
  <2>6. RemControl(t)'
    BY <2>2, <2>3 DEF RemControl
  <2>7. RemClaims(t)
    BY <1>1, <2>2, <2>3, <2>4 DEF RemClaims, Rem!Marking
  <2> QED BY <2>2, <2>5, <2>6, <2>7 DEF RemGood, RemEffect
<1> QED BY <1>2, <1>3

LEMMA RemCommitGood ==
  ASSUME RemInv, NEW t \in Threads, Rem!Commit(t)
  PROVE  RemGood(t)
<1> DEFINE s1 == [snap[t] EXCEPT !.map[slot[t]] = Rem!B!INSRT]
<1>1. /\ RemType /\ RemControl(t) /\ pc[t] = "commit" /\ pc[t] # "claim"
      /\ pc[t] \notin Rem!Marking
      /\ val' = val /\ puts' = puts /\ met' = met
  BY DEF RemInv, Rem!Commit, Rem!B!Commit, Rem!B!At, Rem!Marking
<1>2. CASE word # s1
  <2>1. Rem!B!Retry(t, slot[t]) /\ word' = word
    BY <1>2 DEF Rem!Commit, Rem!B!Commit, Rem!B!SetMap
  <2>2. RemOutside(t)
    BY <1>1, <2>1, RemRetried
  <2> QED BY <1>1, <2>1, <2>2, RemOutsideGood DEF RemType
<1>3. CASE word = s1
  <2>1. /\ word' = Rem!B!SetMapAndIncVersion(word, slot[t], Rem!B!VALID)
        /\ Rem!B!Return(t, 1)
    BY <1>3 DEF Rem!Commit, Rem!B!Commit, Rem!B!SetMap
  <2>2. /\ RemLocals' /\ RemOthers(t) /\ RemControl(t)'
        /\ pc'[t] = "idle" /\ slot'[t] = 0
    BY <1>1, <2>1, RemReturned DEF RemOutside
  <2>3. slot[t] \in RemSlots
    BY <1>1 DEF RemControl, RemPutting, RemType
  <2>4. RemSet(slot[t], Rem!B!VALID)
    <3> DEFINE f == [word.map EXCEPT ![slot[t]] = Rem!B!VALID]
               n == (word.version + 1) % (2 * MapPuts + 2)
    <3>1. n \in 0 .. 2 * MapPuts + 1
      BY <1>1, MapBounds DEF RemType, RemWords
    <3>2. /\ f \in [RemSlots -> Rem!MapState]
          /\ \A j \in RemSlots :
               f[j] = IF j = slot[t] THEN Rem!B!VALID ELSE word.map[j]
      BY <1>1, <2>3
      DEF RemType, RemWords, Rem!MapState, Rem!B!MapState
    <3>3. word' = [version |-> n, map |-> f]
      BY <2>1 DEF Rem!B!SetMapAndIncVersion
    <3> HIDE DEF f, n
    <3> QED BY <3>1, <3>2, <3>3 DEF RemSet, RemWords
  <2>5. RemType'
    BY <1>1, <2>2, <2>4 DEF RemSet, RemLocals, RemType
  <2>6. RemFills(t, slot[t])
    BY <1>1 DEF RemFills
  <2>7. RemLeaves(t)
    BY <1>1, <2>2, <2>3, <2>4, <2>6 DEF RemLeaves, Rem!Marking
  <2> QED BY <2>2, <2>5, <2>7 DEF RemGood, RemEffect
<1> QED BY <1>2, <1>3

LEMMA RemReleaseGood ==
  ASSUME RemInv, NEW t \in Threads, Rem!Release(t)
  PROVE  RemGood(t)
<1>1. /\ RemType /\ RemControl(t) /\ pc[t] = "release" /\ pc[t] # "claim"
      /\ pc[t] \notin Rem!Marking
      /\ val' = val /\ puts' = puts /\ met' = met
      /\ word' = [word EXCEPT !.map[slot[t]] = Rem!B!INVLD]
      /\ Rem!B!Return(t, 0)
  BY DEF RemInv, Rem!Release, Rem!B!Release, Rem!B!At, Rem!Marking,
         Rem!B!SetMap
<1>2. /\ RemLocals' /\ RemOthers(t) /\ RemControl(t)'
      /\ pc'[t] = "idle" /\ slot'[t] = 0
  BY <1>1, RemReturned DEF RemOutside
<1>3. slot[t] \in RemSlots /\ RemFills(t, slot[t])
  BY <1>1 DEF RemControl, RemPutting, RemType, RemFills
<1>4. RemSet(slot[t], Rem!B!INVLD)
  BY <1>1, RemSetMap DEF RemType, Rem!MapState, Rem!B!MapState
<1>5. RemType'
  BY <1>1, <1>2, <1>4 DEF RemSet, RemLocals, RemType
<1>6. RemLeaves(t)
  BY <1>1, <1>2, <1>3, <1>4 DEF RemLeaves, Rem!Marking
<1> QED BY <1>2, <1>5, <1>6 DEF RemGood, RemEffect

(* A remove before it has marked a slot.                                   *)
LEMMA RemLooksGood ==
  ASSUME RemInv, NEW t \in Threads,
         \/ Rem!RemoveVal(t) \/ Rem!RemoveMap(t) \/ Rem!RemoveKey(t)
         \/ Rem!RemoveAgain(t)
  PROVE  RemGood(t)
<1>1. /\ RemType /\ word' = word /\ val' = val /\ puts' = puts
      /\ pc[t] \in {"rem_val", "rem_map", "rem_key", "rem_again"}
  BY DEF RemInv, Rem!RemoveVal, Rem!RemoveMap, Rem!RemoveKey,
         Rem!RemoveAgain, Rem!B!At, Rem!shared
<1>2. met' \in [Threads -> BOOLEAN]
  BY <1>1
  DEF RemType, Rem!RemoveVal, Rem!RemoveMap, Rem!RemoveKey,
      Rem!RemoveAgain, Rem!Meets
<1>3. pc[t] # "claim" /\ pc[t] \notin Rem!Marking
  BY <1>1 DEF Rem!Marking
<1>4. {"rem_key", "rem_again", "rem_mark", "rem_map"}
         \subseteq Rem!Labels \ (RemPutting \cup Rem!Marking)
  BY DEF Rem!Labels, Rem!B!Labels, RemPutting, Rem!Marking
<1>5. RemOutside(t)
  <2>1. CASE Rem!RemoveVal(t)
    <3>1. /\ pc' = [pc EXCEPT ![t] = "rem_map"]
          /\ UNCHANGED <<call, snap, slot, idx>>
      BY <2>1 DEF Rem!RemoveVal, Rem!B!Goto
    <3>2. /\ RemLocals' /\ RemOthers(t) /\ slot'[t] = slot[t]
          /\ pc'[t] = "rem_map"
      BY <1>1, <3>1
      DEF RemLocals, RemOthers, RemType, Rem!Labels, Rem!B!Labels
    <3> QED
      BY <1>3, <3>2 DEF RemOutside, RemControl, RemPutting, Rem!Marking
  <2>2. CASE Rem!RemoveMap(t)
    BY <1>3, <1>4, <2>2, RemGoesOn, RemRemoveNext DEF Rem!RemoveMap
  <2>3. CASE Rem!RemoveKey(t)
    BY <1>3, <1>4, <2>3, RemGoesOn, RemRemoveNext DEF Rem!RemoveKey
  <2>4. CASE Rem!RemoveAgain(t)
    BY <1>3, <1>4, <2>4, RemGoesOn, RemRemoveNext DEF Rem!RemoveAgain
  <2> QED BY <2>1, <2>2, <2>3, <2>4
<1> QED BY <1>1, <1>2, <1>3, <1>5, RemOutsideGood

LEMMA RemMarkGood ==
  ASSUME RemInv, NEW t \in Threads, Rem!RemoveMark(t)
  PROVE  RemGood(t)
<1>1. /\ RemType /\ val' = val /\ puts' = puts /\ pc[t] = "rem_mark"
      /\ met' \in [Threads -> BOOLEAN]
  BY DEF RemInv, RemType, Rem!RemoveMark, Rem!B!At, Rem!Meets
<1>2. pc[t] # "claim" /\ pc[t] \notin Rem!Marking
  BY <1>1 DEF Rem!Marking
<1>3. CASE word.map[idx[t]] # Rem!B!VALID
  <2>1. Rem!B!Return(t, 0) /\ word' = word
    BY <1>3 DEF Rem!RemoveMark
  <2>2. RemOutside(t)
    BY <1>1, <2>1, RemReturned
  <2> QED BY <1>1, <1>2, <2>1, <2>2, RemOutsideGood
<1>4. CASE word.map[idx[t]] = Rem!B!VALID
  <2>1. /\ word' = [word EXCEPT !.map[idx[t]] = Rem!REMOV]
        /\ Rem!B!Continue(t, "rem_check")
    BY <1>4 DEF Rem!RemoveMark, Rem!SetMapByte
  <2>2. /\ RemLocals' /\ RemOthers(t) /\ pc'[t] = "rem_check"
        /\ UNCHANGED <<call, snap, slot, idx, cur>>
    BY <1>1, <2>1, RemContinued DEF Rem!Labels, Rem!Marking
  <2>3. RemSet(idx[t], Rem!REMOV)
    BY <1>1, <2>1, RemSetMap DEF RemType, Rem!MapState
  <2>4. RemType'
    BY <1>1, <2>2, <2>3 DEF RemSet, RemLocals, RemType
  <2>5. RemTakes(t)
    BY <1>2, <1>4, <2>2, <2>3 DEF RemTakes, Rem!Marking
  <2>6. RemControl(t)'
    BY <2>2 DEF RemControl, RemPutting
  <2> QED BY <2>2, <2>4, <2>5, <2>6 DEF RemGood, RemEffect
<1> QED BY <1>3, <1>4

(* A remove that has marked a slot keeps it, and then gives it up.         *)
LEMMA RemMarkedGood ==
  ASSUME RemInv, NEW t \in Threads, Rem!RemoveCheck(t) \/ Rem!RemoveTake(t)
  PROVE  RemGood(t)
<1>1. /\ RemType /\ word' = word /\ val' = val /\ puts' = puts /\ met' = met
      /\ pc[t] \in {"rem_check", "rem_take"}
      /\ UNCHANGED <<call, snap, slot, idx>>
      /\ \E l \in {"rem_take", "rem_undo", "rem_free"} :
           pc' = [pc EXCEPT ![t] = l]
  BY DEF RemInv, Rem!RemoveCheck, Rem!RemoveTake, Rem!B!At, Rem!shared,
         Rem!B!Continue, Rem!B!Goto, Rem!B!locals
<1>2. /\ pc'[t] \in {"rem_take", "rem_undo", "rem_free"}
      /\ RemOthers(t) /\ RemType'
  BY <1>1 DEF RemOthers, RemType, Rem!Labels, Rem!Marking
<1>3. RemKeeps(t)
  BY <1>1, <1>2 DEF RemKeeps, RemFills, RemMarks, Rem!Marking
<1>4. RemControl(t)'
  BY <1>2 DEF RemControl, RemPutting
<1> QED BY <1>2, <1>3, <1>4 DEF RemGood, RemEffect

LEMMA RemGivesGood ==
  ASSUME RemInv, NEW t \in Threads, Rem!RemoveFree(t) \/ Rem!RemoveUndo(t)
  PROVE  RemGood(t)
<1>1. PICK m \in {Rem!B!VALID, Rem!B!INVLD} :
        word' = [word EXCEPT !.map[idx[t]] = m]
  BY DEF Rem!RemoveFree, Rem!RemoveUndo, Rem!SetMapByte
<1>2. PICK r : Rem!B!Return(t, r)
  BY DEF Rem!RemoveFree, Rem!RemoveUndo
<1>3. /\ RemType /\ val' = val /\ puts' = puts /\ met' = met
      /\ pc[t] \in {"rem_free", "rem_undo"}
  BY DEF RemInv, Rem!RemoveFree, Rem!RemoveUndo, Rem!B!At
<1>4. /\ RemLocals' /\ RemOthers(t) /\ RemControl(t)'
      /\ pc'[t] = "idle" /\ slot'[t] = 0
  BY <1>2, <1>3, RemReturned DEF RemOutside
<1>5. RemSet(idx[t], m)
  BY <1>1, <1>3, RemSetMap DEF RemType, Rem!MapState, Rem!B!MapState
<1>6. RemType'
  BY <1>3, <1>4, <1>5 DEF RemSet, RemLocals, RemType
<1>7. RemMarks(t, idx[t])
  BY <1>3 DEF RemMarks, Rem!Marking
<1>8. RemGives(t)
  BY <1>4, <1>5, <1>7 DEF RemGives, Rem!Marking
<1> QED BY <1>4, <1>6, <1>8 DEF RemGood, RemEffect
-----------------------------------------------------------------------------
LEMMA RemNextInv == RemInv /\ [Rem!Next]_(Rem!vars) => RemInv'
<1> SUFFICES ASSUME RemInv, [Rem!Next]_(Rem!vars) PROVE RemInv'
  OBVIOUS
<1>1. CASE UNCHANGED Rem!vars
  BY <1>1
  DEF Rem!vars, Rem!shared, Rem!locals, RemInv, RemType, RemControl,
      RemHeld, RemFills, RemMarks
<1>2. ASSUME NEW t \in Threads, RemSteps(t) PROVE RemInv'
  <2>1. RemGood(t)
    BY <1>2, RemCallGood, RemSearchGood, RemWriteGood, RemClaimGood,
       RemCommitGood, RemReleaseGood, RemLooksGood, RemMarkGood,
       RemMarkedGood, RemGivesGood
    DEF RemSteps, Rem!Work
  <2>2. \A i \in RemSlots : RemHeld(i)'
    BY <2>1, RemHeldStep DEF RemGood
  <2>3. \A u \in Threads : RemControl(u)'
    BY <2>1 DEF RemGood, RemOthers, RemControl, RemInv
  <2> QED BY <2>1, <2>2, <2>3 DEF RemGood, RemInv
<1> QED BY <1>1, <1>2 DEF Rem!Next, RemSteps

LEMMA RemCardinality == \A S : Rem!Cardinality(S) = Cardinality(S)
BY DEF Rem!Cardinality, Cardinality

LEMMA RemInvImplies == RemInv => Rem!MarksHeld
<1> SUFFICES ASSUME RemInv, NEW i \in RemSlots
             PROVE  Cardinality({t \in Threads : pc[t] \in Rem!Marking
                                                   /\ idx[t] = i})
                      = (IF word.map[i] = Rem!REMOV THEN 1 ELSE 0)
  BY RemNames, RemCardinality DEF Rem!MarksHeld
<1> DEFINE H == {t \in Threads : RemMarks(t, i)}
<1>1. H = {t \in Threads : pc[t] \in Rem!Marking /\ idx[t] = i}
  BY DEF RemMarks
<1>2. RemHeld(i)
  BY DEF RemInv
<1>3. CASE word.map[i] = Rem!REMOV
  <2>1. PICK t \in Threads : RemMarks(t, i)
    BY <1>2, <1>3 DEF RemHeld
  <2>2. H = {t}
    BY <1>2, <2>1 DEF RemHeld
  <2>3. Cardinality({t}) = 1
    BY FS_Singleton
  <2> HIDE DEF H
  <2> QED BY <1>1, <1>3, <2>2, <2>3
<1>4. CASE word.map[i] # Rem!REMOV
  <2>1. H = {}
    BY <1>2, <1>4 DEF RemHeld
  <2>2. Cardinality({}) = 0
    BY FS_EmptySet
  <2> HIDE DEF H
  <2> QED BY <1>1, <1>4, <2>1, <2>2
<1> QED BY <1>3, <1>4

RemOf == variant = "map_rem" => RemInv

LEMMA RemInvariance == Spec => []RemOf
<1>1. Init => RemOf
  BY RemInitInv DEF Init, RemOf
<1>2. RemOf /\ [Next]_vars => RemOf'
  <2>1. [Next]_vars /\ variant = "map_rem" => [Rem!Next]_(Rem!vars)
    BY DEF Next, vars, calls, threads, ofMapRem, Rem!vars, Rem!shared,
           Rem!locals
  <2>2. [Next]_vars => variant' = variant
    BY DEF Next, vars
  <2> QED BY <2>1, <2>2, RemNextInv DEF RemOf
<1> QED BY <1>1, <1>2, PTL DEF Spec

(* src/clht_lf_only_map_rem.c: a slot that is marked for removal belongs   *)
(* to exactly one remove, which alone frees it or takes the mark back, for *)
(* any number of threads, slots and puts.                                  *)
THEOREM MarksAreHeld == Spec => []MarksHeld
<1>1. RemOf => MarksHeld
  BY RemInvImplies DEF RemOf, MarksHeld
<1> QED BY <1>1, RemInvariance, PTL

-----------------------------------------------------------------------------
(* clht_lf_only_map_rem.c implements the map, but for removes that come to *)
(* a slot that another remove has marked.  First what each step does.      *)

RemVisible(i) == word.map[i] \in Rem!Visible
RemSearching == {"search_val", "search_map", "search_key", "search_again"}
RemLooking == {"rem_val", "rem_map", "rem_key", "rem_again"}
RemWriting == {"write_val", "write_key"}

RemFields ==
  /\ key \in [RemSlots -> Keys \cup {NoKey}]
  /\ cur \in [Threads -> Rem!B!Vals \cup {Rem!B!NoVal}]
  /\ seen \in [Threads -> SUBSET (Rem!B!Vals \cup {Rem!B!NoVal})]

(* What a thread can be doing in which call.                               *)
RemOp(t) ==
  /\ pc[t] = "idle" <=> call[t].op = "none"
  /\ pc[t] \in RemSearching => call[t].op \in {"get", "put"}
  /\ pc[t] \in RemLooking \cup {"rem_mark"} \cup Rem!Marking
       => call[t].op = "remove"
  /\ pc[t] = "snapshot" => call[t].op = "put"
  /\ slot[t] # 0 => call[t].op = "put"
  /\ pc[t] \in {"idle", "snapshot"} => idx[t] = 1

RemBase ==
  /\ RemInv
  /\ RemFields
  /\ \A t \in Threads : RemOp(t)

RemStep(t) == RemSteps(t) /\ Rem!Observe

(* The steps that leave the bucket and the slot that a put fills alone.    *)
RemQuietStep(t) ==
  /\ UNCHANGED <<word, key, val>>
  /\ {pc[t], pc'[t]} \cap RemWriting = {}
  /\ \A i \in RemSlots : RemFills(t, i)' <=> RemFills(t, i)
  /\ \A i \in RemSlots : RemFills(t, i) => call'[t] = call[t]

(* The steps that change the bucket.                                       *)
RemClaimed(t) ==
  /\ pc[t] = "claim" /\ pc'[t] = "write_val" /\ slot[t] \in RemSlots
  /\ word = snap[t] /\ word.map[slot[t]] = Rem!B!INVLD
  /\ RemSet(slot[t], Rem!B!INSRT) /\ word'.version = word.version
  /\ UNCHANGED <<key, val, call, slot, snap, idx, cur, puts, ret>>
RemWroteVal(t) ==
  /\ pc[t] = "write_val" /\ pc'[t] = "write_key" /\ slot[t] \in RemSlots
  /\ val' = [val EXCEPT ![slot[t]] = call[t].val]
  /\ UNCHANGED <<word, key, call, slot, snap, idx, cur, puts, ret>>
RemWroteKey(t) ==
  /\ pc[t] = "write_key" /\ pc'[t] = "commit" /\ slot[t] \in RemSlots
  /\ key' = [key EXCEPT ![slot[t]] = call[t].key]
  /\ UNCHANGED <<word, val, call, slot, snap, idx, cur, puts, ret>>
RemCommitted(t) ==
  /\ pc[t] = "commit" /\ slot[t] \in RemSlots
  /\ snap[t].version = word.version /\ word.map[slot[t]] = Rem!B!INSRT
  /\ \A i \in RemSlots : i # slot[t] => word.map[i] = snap[t].map[i]
  /\ RemSet(slot[t], Rem!B!VALID)
  /\ word'.version = (word.version + 1) % (2 * MapPuts + 2)
  /\ Rem!B!Return(t, 1) /\ UNCHANGED <<key, val, puts>>
RemReleasedStep(t) ==
  /\ pc[t] = "release" /\ slot[t] \in RemSlots
  /\ RemSet(slot[t], Rem!B!INVLD) /\ word'.version = word.version
  /\ Rem!B!Return(t, 0) /\ UNCHANGED <<key, val, puts>>
RemMarked(t) ==
  /\ pc[t] = "rem_mark" /\ pc'[t] = "rem_check"
  /\ word.map[idx[t]] = Rem!B!VALID
  /\ RemSet(idx[t], Rem!REMOV) /\ word'.version = word.version
  /\ UNCHANGED <<key, val, call, slot, snap, idx, cur, puts, ret>>
RemFreed(t) ==
  /\ pc[t] = "rem_free" /\ word.map[idx[t]] = Rem!REMOV
  /\ RemSet(idx[t], Rem!B!INVLD) /\ word'.version = word.version
  /\ Rem!B!Return(t, cur[t]) /\ UNCHANGED <<key, val, puts>>
RemUndone(t) ==
  /\ pc[t] = "rem_undo" /\ word.map[idx[t]] = Rem!REMOV
  /\ RemSet(idx[t], Rem!B!VALID) /\ word'.version = word.version
  /\ Rem!B!Return(t, 0) /\ UNCHANGED <<key, val, puts>>

RemKind(t) ==
  \/ RemQuietStep(t) \/ RemClaimed(t) \/ RemWroteVal(t) \/ RemWroteKey(t)
  \/ RemCommitted(t) \/ RemReleasedStep(t)
  \/ RemMarked(t) \/ RemFreed(t) \/ RemUndone(t)

LEMMA RemCallTypes ==
  /\ Rem!B!Idle \in Rem!B!Calls /\ Rem!B!Idle.op = "none"
  /\ \A c \in Rem!B!Calls :
       /\ c.val \in Rem!B!Vals \cup {Rem!B!NoVal}
       /\ c.key \in Keys \cup {NoKey}
       /\ c # Rem!B!Idle => c.key \in Keys /\ c.op # "none"
       /\ c.op = "put" => c.val \in Rem!B!Vals
       /\ c.op # "put" => c.val = Rem!B!NoVal
       /\ c.op \in {"get", "put", "remove"} => c # Rem!B!Idle
BY DEF Rem!B!Calls, Rem!B!Idle

LEMMA RemStatesApart ==
  /\ Rem!B!VALID = "valid" /\ Rem!REMOV = "removing"
  /\ Rem!B!INSRT = "insert" /\ Rem!B!INVLD = "invalid"
  /\ Rem!Visible = {"valid", "removing"}
  /\ Rem!B!NoVal = 0 /\ Rem!B!Vals = 1 .. MapPuts
BY DEF Rem!B!VALID, Rem!REMOV, Rem!B!INSRT, Rem!B!INVLD, Rem!Visible,
       Rem!B!NoVal, Rem!B!Vals

LEMMA RemDoneQuiet ==
  ASSUME RemBase, NEW t \in Threads, NEW r, Rem!B!SearchDone(t, r),
         pc[t] \in RemSearching, UNCHANGED <<word, key, val>>
  PROVE  RemQuietStep(t)
<1>1. RemType /\ RemOp(t)
  BY DEF RemBase, RemInv
<1> USE RemNames DEF RemQuietStep, RemFills, Rem!B!Goto, RemSearching,
                     RemWriting
<1>2. CASE slot[t] = 0 /\ Rem!B!TakeSlot(t)
  <2>1. CASE Rem!B!EmptySlots(snap[t]) = {}
    BY <1>1, <1>2, <2>1 DEF Rem!B!TakeSlot, Rem!B!Retry, RemType
  <2>2. CASE Rem!B!EmptySlots(snap[t]) # {}
    BY <1>1, <1>2, <2>2 DEF Rem!B!TakeSlot, RemType
  <2> QED BY <2>1, <2>2
<1>3. CASE slot[t] = 0 /\ (Rem!B!Return(t, r) \/ Rem!B!Return(t, 0))
  BY <1>1, <1>3 DEF Rem!B!Return, RemType
<1>4. CASE slot[t] # 0 /\ (\/ Rem!B!Continue(t, "release")
                           \/ Rem!B!Continue(t, "commit"))
  BY <1>1, <1>4 DEF Rem!B!Continue, Rem!B!locals, RemType
<1>5. call[t].op = "get" => slot[t] = 0
  BY <1>1 DEF RemOp
<1> QED BY <1>2, <1>3, <1>4, <1>5 DEF Rem!B!SearchDone

LEMMA RemNextQuiet ==
  ASSUME RemBase, NEW t \in Threads, UNCHANGED <<word, key, val>>,
         \/ Rem!B!SearchNext(t) /\ pc[t] \in RemSearching
         \/ Rem!RemoveNext(t) /\ pc[t] \in RemLooking
  PROVE  RemQuietStep(t)
<1>1. RemType /\ RemOp(t)
  BY DEF RemBase, RemInv
<1>2. CASE Rem!B!SearchNext(t) /\ pc[t] \in RemSearching
  <2>1. CASE idx[t] = MapSlots
    BY <1>2, <2>1, RemDoneQuiet DEF Rem!B!SearchNext
  <2>2. CASE idx[t] # MapSlots
    BY <1>1, <1>2, <2>2
    DEF Rem!B!SearchNext, RemQuietStep, RemFills, Rem!B!Goto, RemSearching,
        RemWriting, RemType
  <2> QED BY <2>1, <2>2
<1>3. CASE Rem!RemoveNext(t) /\ pc[t] \in RemLooking
  <2>1. slot[t] = 0
    BY <1>1, <1>3 DEF RemOp
  <2> QED
    BY <1>1, <1>3, <2>1, RemNames
    DEF Rem!RemoveNext, Rem!B!Return, RemQuietStep, RemFills, Rem!B!Goto,
        RemLooking, RemWriting, RemType
<1> QED BY <1>2, <1>3

(* The steps of a search, and those of a remove that marks nothing.        *)
LEMMA RemLooksQuiet ==
  ASSUME RemBase, NEW t \in Threads,
         \/ Rem!SearchVal(t) \/ Rem!SearchMap(t) \/ Rem!SearchKey(t)
         \/ Rem!SearchAgain(t)
         \/ Rem!RemoveVal(t) \/ Rem!RemoveMap(t) \/ Rem!RemoveKey(t)
         \/ Rem!RemoveAgain(t) \/ Rem!RemoveCheck(t) \/ Rem!RemoveTake(t)
  PROVE  RemQuietStep(t)
<1>1. RemType /\ RemOp(t)
  BY DEF RemBase, RemInv
<1>2. /\ UNCHANGED <<word, key, val>>
      /\ pc[t] \in RemSearching \cup RemLooking \cup {"rem_check", "rem_take"}
  BY DEF Rem!SearchVal, Rem!SearchMap, Rem!SearchKey, Rem!SearchAgain,
         Rem!B!SearchVal, Rem!B!SearchKey, Rem!B!SearchAgain,
         Rem!RemoveVal, Rem!RemoveMap, Rem!RemoveKey, Rem!RemoveAgain,
         Rem!RemoveCheck, Rem!RemoveTake, Rem!B!At, Rem!shared,
         Rem!B!bucket, RemSearching, RemLooking
<1>3. ASSUME NEW l, Rem!B!Continue(t, l), l \notin {"claim"} \cup RemWriting
      PROVE  RemQuietStep(t)
  BY <1>1, <1>2, <1>3
  DEF Rem!B!Continue, Rem!B!Goto, Rem!B!locals, RemQuietStep, RemFills,
      RemType, RemSearching, RemLooking, RemWriting
<1>4. CASE Rem!SearchVal(t) \/ Rem!RemoveVal(t) \/ Rem!RemoveTake(t)
  <2>1. pc'[t] \in {"search_map", "rem_map", "rem_free"} /\ slot' = slot
        /\ call' = call
    BY <1>1, <1>4
    DEF Rem!SearchVal, Rem!B!SearchVal, Rem!RemoveVal, Rem!RemoveTake,
        Rem!B!Goto, RemType
  <2> QED
    BY <1>2, <2>1
    DEF RemQuietStep, RemFills, RemSearching, RemLooking, RemWriting
<1>5. CASE Rem!RemoveCheck(t)
  BY <1>3, <1>5 DEF Rem!RemoveCheck, RemWriting
<1>6. CASE Rem!SearchMap(t) \/ Rem!SearchKey(t)
  <2>1. pc[t] \in RemSearching
    BY <1>6 DEF Rem!SearchMap, Rem!SearchKey, Rem!B!SearchKey, Rem!B!At,
                RemSearching
  <2>2. \/ Rem!B!SearchNext(t) \/ Rem!B!Continue(t, "search_key")
        \/ Rem!B!Continue(t, "search_again")
    BY <1>6 DEF Rem!SearchMap, Rem!SearchKey, Rem!B!SearchKey
  <2> QED BY <1>2, <1>3, <2>1, <2>2, RemNextQuiet DEF RemWriting
<1>7. CASE Rem!SearchAgain(t)
  <2>1. pc[t] \in RemSearching
    BY <1>7 DEF Rem!SearchAgain, Rem!B!SearchAgain, Rem!B!At, RemSearching
  <2> QED BY <1>2, <1>7, <2>1, RemDoneQuiet DEF Rem!SearchAgain,
                                                Rem!B!SearchAgain
<1>8. CASE Rem!RemoveMap(t) \/ Rem!RemoveKey(t) \/ Rem!RemoveAgain(t)
  <2>1. pc[t] \in RemLooking
    BY <1>8 DEF Rem!RemoveMap, Rem!RemoveKey, Rem!RemoveAgain, Rem!B!At,
                RemLooking
  <2>2. \/ Rem!RemoveNext(t) \/ Rem!B!Continue(t, "rem_key")
        \/ Rem!B!Continue(t, "rem_again") \/ Rem!B!Continue(t, "rem_mark")
    BY <1>8 DEF Rem!RemoveMap, Rem!RemoveKey, Rem!RemoveAgain
  <2> QED BY <1>2, <1>3, <2>1, <2>2, RemNextQuiet DEF RemWriting
<1> QED BY <1>4, <1>5, <1>6, <1>7, <1>8

LEMMA RemCallQuiet ==
  ASSUME RemBase, NEW t \in Threads,
         Rem!Get(t) \/ Rem!Put(t) \/ Rem!Remove(t) \/ Rem!ReadSnapshot(t)
  PROVE  RemQuietStep(t)
<1>1. RemType /\ RemOp(t)
  BY DEF RemBase, RemInv
<1>2. /\ UNCHANGED <<word, key, val, slot>>
      /\ pc[t] \in {"idle", "snapshot"}
      /\ pc'[t] \in {"search_val", "snapshot", "rem_val", "rem_key"}
      /\ pc[t] = "snapshot" => call' = call
  BY <1>1
  DEF Rem!Get, Rem!Put, Rem!Remove, Rem!ReadSnapshot, Rem!B!Get, Rem!B!Put,
      Rem!B!ReadSnapshot, Rem!B!At, Rem!B!Goto, Rem!shared, Rem!locals,
      Rem!B!bucket, Rem!B!locals, RemType
<1>3. pc[t] = "idle" => slot[t] = 0
  BY <1>1 DEF RemOp
<1> QED
  BY <1>2, <1>3, RemNames DEF RemQuietStep, RemFills, RemWriting

LEMMA RemPutKinds ==
  ASSUME RemBase, NEW t \in Threads,
         \/ Rem!Claim(t) \/ Rem!WriteVal(t) \/ Rem!WriteKey(t)
         \/ Rem!Commit(t) \/ Rem!Release(t)
  PROVE  RemKind(t)
<1>1. /\ RemType /\ RemControl(t) /\ word \in RemWords /\ pc[t] \in RemPutting
      /\ slot[t] \in RemSlots
  <2>1. pc[t] \in RemPutting
    BY DEF Rem!Claim, Rem!WriteVal, Rem!WriteKey, Rem!Commit, Rem!Release,
           Rem!B!Claim, Rem!B!WriteVal, Rem!B!WriteKey, Rem!B!Commit,
           Rem!B!Release, Rem!B!At, RemPutting
  <2> QED BY <2>1 DEF RemBase, RemInv, RemType, RemControl
<1>2. ASSUME NEW e, Rem!B!Retry(t, e), pc[t] \in {"claim", "commit"},
             UNCHANGED <<word, key, val>>,
             e = (IF pc[t] = "claim" THEN 0 ELSE slot[t])
      PROVE  RemQuietStep(t)
  BY <1>1, <1>2, RemNames
  DEF Rem!B!Retry, Rem!B!Goto, RemQuietStep, RemFills, RemType, RemWriting
<1>3. ASSUME NEW l, Rem!B!Continue(t, l)
      PROVE  /\ pc'[t] = l
             /\ UNCHANGED <<call, slot, snap, idx, cur, ret>>
  BY <1>1, <1>3 DEF Rem!B!Continue, Rem!B!Goto, Rem!B!locals, RemType
<1>4. ASSUME NEW m \in Rem!MapState,
             word' = [word EXCEPT !.map[slot[t]] = m]
      PROVE  RemSet(slot[t], m) /\ word'.version = word.version
  BY <1>1, <1>4, RemSetMap DEF RemWords
<1>5. {Rem!B!INSRT, Rem!B!VALID, Rem!B!INVLD} \subseteq Rem!MapState
  BY DEF Rem!MapState, Rem!B!MapState
<1>6. CASE Rem!Claim(t)
  <2>1. pc[t] = "claim" /\ UNCHANGED <<key, val, puts>>
    BY <1>6 DEF Rem!Claim, Rem!B!Claim, Rem!B!At
  <2>2. CASE word # snap[t]
    BY <1>2, <1>6, <2>1, <2>2 DEF Rem!Claim, Rem!B!Claim, RemKind
  <2>3. CASE word = snap[t]
    <3>1. /\ word' = [word EXCEPT !.map[slot[t]] = Rem!B!INSRT]
          /\ Rem!B!Continue(t, "write_val")
      BY <1>6, <2>3 DEF Rem!Claim, Rem!B!Claim, Rem!B!SetMap
    <3>2. word.map[slot[t]] = Rem!B!INVLD
      BY <1>1, <2>1, <2>3 DEF RemControl
    <3> QED
      BY <1>1, <1>3, <1>4, <1>5, <2>1, <2>3, <3>1, <3>2
      DEF RemClaimed, RemKind
  <2> QED BY <2>2, <2>3
<1>7. CASE Rem!WriteVal(t)
  BY <1>1, <1>3, <1>7
  DEF Rem!WriteVal, Rem!B!WriteVal, Rem!B!At, RemWroteVal, RemKind
<1>8. CASE Rem!WriteKey(t)
  BY <1>1, <1>3, <1>8
  DEF Rem!WriteKey, Rem!B!WriteKey, Rem!B!At, RemWroteKey, RemKind
<1>9. CASE Rem!Commit(t)
  <2> DEFINE s1 == [snap[t] EXCEPT !.map[slot[t]] = Rem!B!INSRT]
  <2>1. pc[t] = "commit" /\ UNCHANGED <<key, val, puts>>
    BY <1>9 DEF Rem!Commit, Rem!B!Commit, Rem!B!At
  <2>2. CASE word # s1
    BY <1>2, <1>9, <2>1, <2>2
    DEF Rem!Commit, Rem!B!Commit, Rem!B!SetMap, RemKind
  <2>3. CASE word = s1
    <3>1. /\ word' = Rem!B!SetMapAndIncVersion(word, slot[t], Rem!B!VALID)
          /\ Rem!B!Return(t, 1)
      BY <1>9, <2>3 DEF Rem!Commit, Rem!B!Commit, Rem!B!SetMap
    <3>2. /\ snap[t].version = word.version
          /\ word.map[slot[t]] = Rem!B!INSRT
          /\ \A i \in RemSlots : i # slot[t] => word.map[i] = snap[t].map[i]
      BY <1>1, <2>3 DEF RemType, RemWords
    <3>3. /\ word'.version = (word.version + 1) % (2 * MapPuts + 2)
          /\ word'.map = [word.map EXCEPT ![slot[t]] = Rem!B!VALID]
      BY <3>1 DEF Rem!B!SetMapAndIncVersion
    <3>4. word' \in RemWords
      <4>1. RemGood(t)
        BY <1>9, RemCommitGood DEF RemBase
      <4> QED BY <4>1 DEF RemGood, RemType
    <3>5. RemSet(slot[t], Rem!B!VALID)
      BY <1>1, <3>3, <3>4 DEF RemSet, RemWords
    <3> QED
      BY <1>1, <2>1, <3>1, <3>2, <3>3, <3>5 DEF RemCommitted, RemKind
  <2> QED BY <2>2, <2>3
<1>10. CASE Rem!Release(t)
  <2>1. /\ pc[t] = "release" /\ UNCHANGED <<key, val, puts>>
        /\ word' = [word EXCEPT !.map[slot[t]] = Rem!B!INVLD]
        /\ Rem!B!Return(t, 0)
    BY <1>10 DEF Rem!Release, Rem!B!Release, Rem!B!At, Rem!B!SetMap
  <2> QED
    BY <1>1, <1>4, <1>5, <2>1 DEF RemReleasedStep, RemKind
<1> QED BY <1>6, <1>7, <1>8, <1>9, <1>10

LEMMA RemMarkKinds ==
  ASSUME RemBase, NEW t \in Threads,
         Rem!RemoveMark(t) \/ Rem!RemoveFree(t) \/ Rem!RemoveUndo(t)
  PROVE  RemKind(t)
<1>1. /\ RemType /\ RemOp(t) /\ word \in RemWords /\ idx[t] \in RemSlots
      /\ pc[t] \in {"rem_mark", "rem_free", "rem_undo"}
      /\ UNCHANGED <<key, val, puts>>
  BY DEF RemBase, RemInv, RemType, Rem!RemoveMark, Rem!RemoveFree,
         Rem!RemoveUndo, Rem!B!At
<1>2. slot[t] = 0
  BY <1>1 DEF RemOp, Rem!Marking
<1>3. ASSUME NEW m \in Rem!MapState,
             word' = [word EXCEPT !.map[idx[t]] = m]
      PROVE  RemSet(idx[t], m) /\ word'.version = word.version
  BY <1>1, <1>3, RemSetMap DEF RemWords
<1>4. {Rem!REMOV, Rem!B!VALID, Rem!B!INVLD} \subseteq Rem!MapState
  BY DEF Rem!MapState, Rem!B!MapState
<1>5. CASE Rem!RemoveMark(t) /\ word.map[idx[t]] = Rem!B!VALID
  <2>1. /\ word' = [word EXCEPT !.map[idx[t]] = Rem!REMOV]
        /\ Rem!B!Continue(t, "rem_check") /\ pc[t] = "rem_mark"
    BY <1>5 DEF Rem!RemoveMark, Rem!SetMapByte, Rem!B!At
  <2>2. pc'[t] = "rem_check" /\ UNCHANGED <<call, slot, snap, idx, cur, ret>>
    BY <1>1, <2>1 DEF Rem!B!Continue, Rem!B!Goto, Rem!B!locals, RemType
  <2> QED
    BY <1>1, <1>3, <1>4, <1>5, <2>1, <2>2 DEF RemMarked, RemKind
<1>6. CASE Rem!RemoveMark(t) /\ word.map[idx[t]] # Rem!B!VALID
  <2>1. Rem!B!Return(t, 0) /\ word' = word /\ pc[t] = "rem_mark"
    BY <1>6 DEF Rem!RemoveMark, Rem!B!At
  <2>2. RemQuietStep(t)
    BY <1>1, <1>2, <2>1, RemNames
    DEF Rem!B!Return, Rem!B!Goto, RemQuietStep, RemFills, RemType, RemWriting
  <2> QED BY <2>2 DEF RemKind
<1>7. pc[t] \in Rem!Marking => word.map[idx[t]] = Rem!REMOV
  BY <1>1 DEF RemBase, RemInv, RemHeld, RemMarks
<1>8. CASE Rem!RemoveFree(t)
  <2>1. /\ word' = [word EXCEPT !.map[idx[t]] = Rem!B!INVLD]
        /\ Rem!B!Return(t, cur[t]) /\ pc[t] = "rem_free"
    BY <1>8 DEF Rem!RemoveFree, Rem!SetMapByte, Rem!B!At
  <2> QED
    BY <1>1, <1>3, <1>4, <1>7, <2>1 DEF RemFreed, RemKind, Rem!Marking
<1>9. CASE Rem!RemoveUndo(t)
  <2>1. /\ word' = [word EXCEPT !.map[idx[t]] = Rem!B!VALID]
        /\ Rem!B!Return(t, 0) /\ pc[t] = "rem_undo"
    BY <1>9 DEF Rem!RemoveUndo, Rem!SetMapByte, Rem!B!At
  <2> QED
    BY <1>1, <1>3, <1>4, <1>7, <2>1 DEF RemUndone, RemKind, Rem!Marking
<1> QED BY <1>5, <1>6, <1>8, <1>9

LEMMA RemKinds ==
  ASSUME RemBase, NEW t \in Threads, RemStep(t)
  PROVE  RemKind(t)
BY RemCallQuiet, RemLooksQuiet, RemPutKinds, RemMarkKinds
DEF RemStep, RemSteps, Rem!Work, RemKind

-----------------------------------------------------------------------------
(* The call of the thread that moves.                                      *)

RemValues == Rem!B!Vals \cup {Rem!B!NoVal}

(* A step of a call goes on with it or ends it.                            *)
RemProceeds(t) ==
  /\ puts' = puts /\ call'[t] \in {call[t], Rem!B!Idle}
  /\ cur' \in [Threads -> RemValues]
  /\ cur'[t] \in {cur[t], Rem!B!NoVal, val[idx[t]]}
  /\ \A u \in Threads \ {t} : cur'[u] = cur[u]

(* A step that begins one.                                                 *)
RemBegins(t) ==
  /\ pc[t] = "idle" /\ call[t] = Rem!B!Idle
  /\ UNCHANGED <<word, key, val, slot, idx, cur>>
  /\ ret' = [ret EXCEPT ![t] = 0]
  /\ call' = [call EXCEPT ![t] = call'[t]]
  /\ call'[t] # Rem!B!Idle /\ call'[t] \in Rem!B!Calls
  /\ \/ /\ call'[t].op = "put" /\ call'[t].val = puts + 1
        /\ puts' = puts + 1 /\ pc'[t] = "snapshot"
     \/ call'[t].op = "get" /\ puts' = puts /\ pc'[t] = "search_val"
     \/ call'[t].op = "remove" /\ puts' = puts /\ pc'[t] = "rem_val"

LEMMA RemTypeFacts ==
  ASSUME RemBase, NEW t \in Threads
  PROVE  /\ call[t] \in Rem!B!Calls /\ pc[t] \in Rem!Labels
         /\ slot[t] \in RemSlots \cup {0} /\ idx[t] \in RemSlots
         /\ cur[t] \in RemValues /\ val[idx[t]] \in RemValues
         /\ RemOp(t) /\ RemControl(t) /\ Rem!B!NoVal \in RemValues
         /\ cur \in [Threads -> RemValues]
BY DEF RemBase, RemInv, RemType, RemFields, RemValues

LEMMA RemBeginsCall ==
  ASSUME RemBase, NEW t \in Threads, Rem!Get(t) \/ Rem!Put(t) \/ Rem!Remove(t)
  PROVE  RemBegins(t)
<1>1. /\ RemType /\ pc[t] = "idle" /\ call[t] = Rem!B!Idle
  <2>1. pc[t] = "idle"
    BY DEF Rem!Get, Rem!Put, Rem!Remove, Rem!B!Get, Rem!B!Put, Rem!B!At
  <2>2. call[t].op = "none" /\ call[t] \in Rem!B!Calls
    BY <2>1, RemTypeFacts DEF RemOp
  <2> QED BY <2>1, <2>2, RemCallTypes DEF RemBase, RemInv
<1>2. PICK k \in Keys, op \in {"get", "put", "remove"},
           v \in RemValues, l \in {"search_val", "snapshot", "rem_val"} :
        /\ call' = [call EXCEPT ![t] = [op |-> op, key |-> k, val |-> v]]
        /\ [op |-> op, key |-> k, val |-> v] \in Rem!B!Calls
        /\ pc' = [pc EXCEPT ![t] = l]
        /\ ret' = [ret EXCEPT ![t] = 0]
        /\ UNCHANGED <<word, key, val, slot, idx, cur>>
        /\ \/ op = "put" /\ v = puts + 1 /\ puts' = puts + 1 /\ l = "snapshot"
           \/ op = "get" /\ puts' = puts /\ l = "search_val"
           \/ op = "remove" /\ puts' = puts /\ l = "rem_val"
  <2>1. CASE Rem!Get(t)
    BY <2>1, RemNames
    DEF Rem!Get, Rem!B!Get, Rem!B!Goto, Rem!B!bucket, Rem!B!locals, RemValues
  <2>2. CASE Rem!Put(t)
    <3>1. puts + 1 \in Rem!B!Vals /\ Rem!B!NewVal = puts + 1
      BY <1>1, <2>2, MapBounds
      DEF Rem!Put, Rem!B!Put, Rem!B!Vals, Rem!B!NewVal, RemType
    <3>2. PICK k \in Keys :
            call' = [call EXCEPT ![t] =
                       [op |-> "put", key |-> k, val |-> puts + 1]]
      BY <2>2, <3>1 DEF Rem!Put, Rem!B!Put
    <3>3. /\ pc' = [pc EXCEPT ![t] = "snapshot"] /\ puts' = puts + 1
          /\ ret' = [ret EXCEPT ![t] = 0]
          /\ UNCHANGED <<word, key, val, slot, idx, cur>>
      BY <2>2
      DEF Rem!Put, Rem!B!Put, Rem!B!Goto, Rem!B!bucket, Rem!B!locals
    <3> QED BY <3>1, <3>2, <3>3, RemNames DEF RemValues
  <2>3. CASE Rem!Remove(t)
    BY <2>3, RemNames
    DEF Rem!Remove, Rem!B!Goto, Rem!shared, Rem!locals, RemValues
  <2> QED BY <2>1, <2>2, <2>3
<1>3. call'[t] = [op |-> op, key |-> k, val |-> v] /\ pc'[t] = l
  BY <1>1, <1>2 DEF RemType
<1>4. call'[t].op = op /\ call'[t].val = v /\ call'[t] \in Rem!B!Calls
  BY <1>2, <1>3
<1>5. call'[t] # Rem!B!Idle
  BY <1>4, RemCallTypes
<1>6. call' = [call EXCEPT ![t] = call'[t]]
  BY <1>2, <1>3
<1> QED BY <1>1, <1>2, <1>3, <1>4, <1>5, <1>6 DEF RemBegins

(* The ways in which a step leaves a call.                                 *)
LEMMA RemLocalProceeds ==
  ASSUME RemBase, NEW t \in Threads, NEW r, NEW e, NEW l, puts' = puts,
         \/ Rem!B!Return(t, r) \/ Rem!B!Retry(t, e) \/ Rem!B!Continue(t, l)
  PROVE  RemProceeds(t)
BY RemTypeFacts
DEF Rem!B!Return, Rem!B!Retry, Rem!B!Continue, Rem!B!locals, RemProceeds,
    RemBase, RemInv, RemType

LEMMA RemScanProceeds ==
  ASSUME RemBase, NEW t \in Threads, NEW r, puts' = puts,
         \/ Rem!B!SearchDone(t, r) \/ Rem!B!SearchNext(t)
         \/ Rem!RemoveNext(t)
  PROVE  RemProceeds(t)
<1>1. ASSUME cur' = cur, call' = call PROVE RemProceeds(t)
  BY <1>1, RemTypeFacts DEF RemProceeds
<1>2. ASSUME NEW x, Rem!B!SearchDone(t, x) PROVE RemProceeds(t)
  <2>1. CASE Rem!B!TakeSlot(t)
    BY <1>1, <2>1, RemLocalProceeds DEF Rem!B!TakeSlot
  <2>2. CASE ~Rem!B!TakeSlot(t)
    BY <1>2, <2>2, RemLocalProceeds DEF Rem!B!SearchDone
  <2> QED BY <2>1, <2>2
<1> QED
  BY <1>1, <1>2, RemLocalProceeds DEF Rem!B!SearchNext, Rem!RemoveNext

LEMMA RemCallEffect ==
  ASSUME RemBase, NEW t \in Threads, RemStep(t)
  PROVE  RemProceeds(t) \/ RemBegins(t)
<1>1. CASE Rem!Get(t) \/ Rem!Put(t) \/ Rem!Remove(t)
  BY <1>1, RemBeginsCall
<1>2. CASE \/ Rem!ReadSnapshot(t) \/ Rem!SearchVal(t) \/ Rem!RemoveVal(t)
           \/ Rem!RemoveTake(t)
  <2>1. /\ puts' = puts /\ call' = call
        /\ cur' = cur \/ cur' = [cur EXCEPT ![t] = val[idx[t]]]
    BY <1>2
    DEF Rem!ReadSnapshot, Rem!B!ReadSnapshot, Rem!SearchVal, Rem!B!SearchVal,
        Rem!RemoveVal, Rem!RemoveTake
  <2> QED BY <2>1, RemTypeFacts DEF RemProceeds
<1>3. CASE Rem!SearchMap(t) \/ Rem!SearchKey(t) \/ Rem!SearchAgain(t)
  <2>1. puts' = puts
    BY <1>3
    DEF Rem!SearchMap, Rem!SearchKey, Rem!B!SearchKey, Rem!SearchAgain,
        Rem!B!SearchAgain
  <2>2. \/ \E l : Rem!B!Continue(t, l)
        \/ \E r : Rem!B!SearchDone(t, r) \/ Rem!B!SearchNext(t)
    BY <1>3
    DEF Rem!SearchMap, Rem!SearchKey, Rem!B!SearchKey, Rem!SearchAgain,
        Rem!B!SearchAgain
  <2> QED BY <2>1, <2>2, RemLocalProceeds, RemScanProceeds
<1>4. CASE \/ Rem!Claim(t) \/ Rem!WriteVal(t) \/ Rem!WriteKey(t)
           \/ Rem!Commit(t) \/ Rem!Release(t)
  <2>1. puts' = puts
    BY <1>4
    DEF Rem!Claim, Rem!WriteVal, Rem!WriteKey, Rem!Commit, Rem!Release,
        Rem!B!Claim, Rem!B!WriteVal, Rem!B!WriteKey, Rem!B!Commit,
        Rem!B!Release
  <2>2. \/ \E l : Rem!B!Continue(t, l)
        \/ \E r : Rem!B!Return(t, r)
        \/ \E e : Rem!B!Retry(t, e)
    BY <1>4
    DEF Rem!Claim, Rem!WriteVal, Rem!WriteKey, Rem!Commit, Rem!Release,
        Rem!B!Claim, Rem!B!WriteVal, Rem!B!WriteKey, Rem!B!Commit,
        Rem!B!Release
  <2> QED BY <2>1, <2>2, RemLocalProceeds
<1>5. CASE \/ Rem!RemoveMap(t) \/ Rem!RemoveKey(t) \/ Rem!RemoveAgain(t)
           \/ Rem!RemoveMark(t) \/ Rem!RemoveCheck(t) \/ Rem!RemoveFree(t)
           \/ Rem!RemoveUndo(t)
  <2>1. puts' = puts
    BY <1>5
    DEF Rem!RemoveMap, Rem!RemoveKey, Rem!RemoveAgain, Rem!RemoveMark,
        Rem!RemoveCheck, Rem!RemoveFree, Rem!RemoveUndo
  <2>2. \/ \E l : Rem!B!Continue(t, l)
        \/ \E r : Rem!B!Return(t, r)
        \/ Rem!RemoveNext(t)
    BY <1>5
    DEF Rem!RemoveMap, Rem!RemoveKey, Rem!RemoveAgain, Rem!RemoveMark,
        Rem!RemoveCheck, Rem!RemoveFree, Rem!RemoveUndo
  <2> QED BY <2>1, <2>2, RemLocalProceeds, RemScanProceeds
<1> QED
  BY <1>1, <1>2, <1>3, <1>4, <1>5 DEF RemStep, RemSteps, Rem!Work

-----------------------------------------------------------------------------
(* Where a step can lead the thread that moves.                            *)

LEMMA RemReturnOp ==
  ASSUME RemBase, NEW t \in Threads, NEW r, Rem!B!Return(t, r)
  PROVE  /\ RemOp(t)' /\ pc'[t] = "idle" /\ call'[t] = Rem!B!Idle
         /\ slot'[t] = 0 /\ idx'[t] = 1 /\ cur'[t] = Rem!B!NoVal
<1>1. /\ pc'[t] = "idle" /\ call'[t] = Rem!B!Idle
      /\ slot'[t] = 0 /\ idx'[t] = 1 /\ cur'[t] = Rem!B!NoVal
  BY DEF Rem!B!Return, Rem!B!Goto, RemBase, RemInv, RemType, RemFields
<1>2. Rem!B!Idle.op = "none"
  BY RemCallTypes
<1> QED
  BY <1>1, <1>2 DEF RemOp, RemSearching, RemLooking, Rem!Marking

LEMMA RemRetryOp ==
  ASSUME RemBase, NEW t \in Threads, NEW e, Rem!B!Retry(t, e),
         call[t].op = "put"
  PROVE  /\ RemOp(t)' /\ pc'[t] = "snapshot" /\ slot'[t] = e
         /\ call' = call /\ ret' = ret /\ snap' = snap
<1>1. /\ pc'[t] = "snapshot" /\ call' = call /\ idx'[t] = 1 /\ slot'[t] = e
      /\ ret' = ret /\ snap' = snap
  BY DEF Rem!B!Retry, Rem!B!Goto, RemBase, RemInv, RemType
<1> QED
  BY <1>1 DEF RemOp, RemSearching, RemLooking, Rem!Marking

LEMMA RemContinueTo ==
  ASSUME RemBase, NEW t \in Threads, NEW l, Rem!B!Continue(t, l)
  PROVE  /\ pc'[t] = l /\ UNCHANGED <<call, ret, snap, slot, idx, cur>>
BY DEF Rem!B!Continue, Rem!B!Goto, Rem!B!locals, RemBase, RemInv, RemType

(* The end of a search.                                                    *)
LEMMA RemDoneTo ==
  ASSUME RemBase, NEW t \in Threads, NEW r, Rem!B!SearchDone(t, r),
         pc[t] \in RemSearching
  PROVE  /\ RemOp(t)'
         /\ \/ call[t].op = "get" /\ Rem!B!Return(t, r)
            \/ /\ call[t].op = "put" /\ r # Rem!B!NoVal
               /\ Rem!B!Return(t, 0)
            \/ /\ call[t].op = "put" /\ r # Rem!B!NoVal
               /\ pc'[t] = "release" /\ slot[t] # 0
               /\ UNCHANGED <<call, ret, snap, slot, idx, cur>>
            \/ /\ call[t].op = "put" /\ r = Rem!B!NoVal
               /\ UNCHANGED <<call, ret, snap>>
               /\ \/ pc'[t] = "snapshot" /\ slot'[t] = 0
                  \/ /\ pc'[t] = "claim" /\ slot'[t] \in RemSlots
                     /\ snap[t].map[slot'[t]] = Rem!B!INVLD
                  \/ pc'[t] = "commit" /\ slot' = slot
<1>1. RemOp(t) /\ slot[t] \in RemSlots \cup {0}
  BY RemTypeFacts
<1>2. ASSUME pc'[t] \in {"release", "commit", "claim"},
             call[t].op = "put", call' = call
      PROVE  RemOp(t)'
  BY <1>1, <1>2 DEF RemOp, RemSearching, RemLooking, Rem!Marking
<1>3. CASE call[t].op = "get" /\ Rem!B!Return(t, r)
  BY <1>3, RemReturnOp
<1>4. CASE /\ call[t].op = "put" /\ r # Rem!B!NoVal
           /\ Rem!B!Return(t, 0)
  BY <1>4, RemReturnOp
<1>5. CASE /\ call[t].op = "put" /\ r # Rem!B!NoVal /\ slot[t] # 0
           /\ Rem!B!Continue(t, "release")
  BY <1>2, <1>5, RemContinueTo
<1>6. CASE /\ call[t].op = "put" /\ r = Rem!B!NoVal /\ slot[t] # 0
           /\ Rem!B!Continue(t, "commit")
  BY <1>2, <1>6, RemContinueTo
<1>7. CASE /\ call[t].op = "put" /\ r = Rem!B!NoVal /\ Rem!B!TakeSlot(t)
  <2>1. CASE Rem!B!EmptySlots(snap[t]) = {}
    BY <1>7, <2>1, RemRetryOp DEF Rem!B!TakeSlot
  <2>2. CASE Rem!B!EmptySlots(snap[t]) # {}
    <3>1. PICK i \in Rem!B!EmptySlots(snap[t]) :
            slot' = [slot EXCEPT ![t] = i]
      BY <1>7, <2>2 DEF Rem!B!TakeSlot
    <3>2. i \in RemSlots /\ snap[t].map[i] = Rem!B!INVLD
      BY RemNames DEF Rem!B!EmptySlots
    <3>3. /\ pc' = [pc EXCEPT ![t] = "claim"]
          /\ UNCHANGED <<call, ret, snap, idx, cur>>
      BY <1>7, <2>2 DEF Rem!B!TakeSlot, Rem!B!Goto
    <3>4. pc'[t] = "claim" /\ slot'[t] = i
      BY <3>1, <3>3 DEF RemBase, RemInv, RemType
    <3> QED BY <1>2, <1>7, <3>2, <3>3, <3>4
  <2> QED BY <2>1, <2>2
<1> QED
  BY <1>3, <1>4, <1>5, <1>6, <1>7 DEF Rem!B!SearchDone

LEMMA RemPassTo ==
  ASSUME RemBase, NEW t \in Threads, NEW l, idx[t] # MapSlots,
         idx' = [idx EXCEPT ![t] = idx[t] + 1], Rem!B!Goto(t, l),
         UNCHANGED <<call, ret, snap, slot, cur>>,
         \/ l = "search_val" /\ pc[t] \in RemSearching
         \/ l = "rem_val" /\ pc[t] \in RemLooking
  PROVE  RemOp(t)' /\ pc'[t] = l /\ idx'[t] = idx[t] + 1
<1>1. RemOp(t)
  BY RemTypeFacts
<1>2. pc'[t] = l /\ idx'[t] = idx[t] + 1
  BY DEF Rem!B!Goto, RemBase, RemInv, RemType
<1> QED
  BY <1>1, <1>2 DEF RemOp, RemSearching, RemLooking, Rem!Marking

LEMMA RemScanOp ==
  ASSUME RemBase, NEW t \in Threads,
         \/ Rem!B!SearchNext(t) /\ pc[t] \in RemSearching
         \/ Rem!RemoveNext(t) /\ pc[t] \in RemLooking
  PROVE  RemOp(t)'
BY RemDoneTo, RemReturnOp, RemPassTo DEF Rem!B!SearchNext, Rem!RemoveNext

LEMMA RemOpStep ==
  ASSUME RemBase, NEW t \in Threads, RemStep(t)
  PROVE  RemOp(t)'
<1>1. RemOp(t) /\ RemControl(t) /\ slot[t] \in RemSlots \cup {0}
  BY RemTypeFacts
<1> USE DEF RemSearching, RemLooking, Rem!Marking
<1>2. CASE RemBegins(t)
  <2>1. call'[t].op # "none" /\ slot[t] = 0 /\ idx[t] = 1
    BY <1>1, <1>2, RemCallTypes DEF RemBegins, RemOp
  <2> QED BY <1>2, <2>1 DEF RemBegins, RemOp
(* A thread that goes on with the same call and slot.                      *)
<1>3. ASSUME call' = call, slot' = slot, pc[t] # "idle",
             \/ /\ pc[t] \in RemSearching \cup {"snapshot"}
                /\ pc'[t] \in RemSearching
             \/ pc[t] \in RemPutting /\ pc'[t] \in RemPutting
             \/ /\ pc[t] \in RemLooking \cup {"rem_mark"} \cup Rem!Marking
                /\ pc'[t] \in RemLooking \cup {"rem_mark"} \cup Rem!Marking
      PROVE  RemOp(t)'
  BY <1>1, <1>3 DEF RemOp, RemControl, RemPutting
<1>4. CASE Rem!ReadSnapshot(t) \/ Rem!SearchVal(t) \/ Rem!RemoveVal(t)
           \/ Rem!RemoveTake(t)
  <2>1. /\ call' = call /\ slot' = slot
        /\ pc' = [pc EXCEPT ![t] = pc'[t]]
        /\ \/ /\ pc[t] = "snapshot"
              /\ pc'[t] = IF call[t].op = "put" THEN "search_val"
                                                ELSE "rem_key"
           \/ pc[t] = "search_val" /\ pc'[t] = "search_map"
           \/ pc[t] = "rem_val" /\ pc'[t] = "rem_map"
           \/ pc[t] = "rem_take" /\ pc'[t] = "rem_free"
    BY <1>4
    DEF Rem!ReadSnapshot, Rem!SearchVal, Rem!RemoveVal, Rem!RemoveTake,
        Rem!B!ReadSnapshot, Rem!B!SearchVal, Rem!B!Goto, Rem!B!At, RemBase,
        RemInv, RemType
  <2> QED BY <1>1, <1>3, <2>1 DEF RemOp
<1>5. CASE Rem!SearchMap(t) \/ Rem!SearchKey(t) \/ Rem!SearchAgain(t)
  <2>1. pc[t] \in RemSearching
    BY <1>5 DEF Rem!SearchMap, Rem!SearchKey, Rem!B!SearchKey,
                Rem!SearchAgain, Rem!B!SearchAgain, Rem!B!At
  <2>2. \/ \E l \in RemSearching : Rem!B!Continue(t, l)
        \/ \E r : Rem!B!SearchDone(t, r)
        \/ Rem!B!SearchNext(t)
    BY <1>5 DEF Rem!SearchMap, Rem!SearchKey, Rem!B!SearchKey,
                Rem!SearchAgain, Rem!B!SearchAgain
  <2> HIDE DEF RemSearching
  <2>3. CASE \E l \in RemSearching : Rem!B!Continue(t, l)
    <3>1. pc'[t] \in RemSearching /\ call' = call /\ slot' = slot
      BY <2>3, RemContinueTo
    <3>2. pc[t] # "idle"
      BY <2>1 DEF RemSearching
    <3> QED BY <1>3, <2>1, <3>1, <3>2
  <2> QED BY <2>1, <2>2, <2>3, RemDoneTo, RemScanOp
<1>6. CASE \/ Rem!Claim(t) \/ Rem!WriteVal(t) \/ Rem!WriteKey(t)
           \/ Rem!Commit(t) \/ Rem!Release(t)
  <2>1. pc[t] \in RemPutting
    BY <1>6
    DEF Rem!Claim, Rem!WriteVal, Rem!WriteKey, Rem!Commit, Rem!Release,
        Rem!B!Claim, Rem!B!WriteVal, Rem!B!WriteKey, Rem!B!Commit,
        Rem!B!Release, Rem!B!At, RemPutting
  <2>2. \/ \E l \in RemPutting : Rem!B!Continue(t, l)
        \/ \E r : Rem!B!Return(t, r)
        \/ \E e : Rem!B!Retry(t, e)
    BY <1>6
    DEF Rem!Claim, Rem!WriteVal, Rem!WriteKey, Rem!Commit, Rem!Release,
        Rem!B!Claim, Rem!B!WriteVal, Rem!B!WriteKey, Rem!B!Commit,
        Rem!B!Release, RemPutting
  <2>3. call[t].op = "put"
    BY <1>1, <2>1 DEF RemControl
  <2>4. CASE \E l \in RemPutting : Rem!B!Continue(t, l)
    <3>1. pc'[t] \in RemPutting /\ call' = call /\ slot' = slot
      BY <2>4, RemContinueTo
    <3> QED BY <1>3, <2>1, <3>1 DEF RemPutting
  <2> QED BY <2>2, <2>3, <2>4, RemReturnOp, RemRetryOp
<1>7. CASE \/ Rem!RemoveMap(t) \/ Rem!RemoveKey(t) \/ Rem!RemoveAgain(t)
           \/ Rem!RemoveMark(t) \/ Rem!RemoveCheck(t) \/ Rem!RemoveFree(t)
           \/ Rem!RemoveUndo(t)
  <2>1. pc[t] \in RemLooking \cup {"rem_mark"} \cup Rem!Marking
    BY <1>7
    DEF Rem!RemoveMap, Rem!RemoveKey, Rem!RemoveAgain, Rem!RemoveMark,
        Rem!RemoveCheck, Rem!RemoveFree, Rem!RemoveUndo, Rem!B!At
  <2>2. \/ \E l \in RemLooking \cup {"rem_mark"} \cup Rem!Marking :
             Rem!B!Continue(t, l)
        \/ \E r : Rem!B!Return(t, r)
        \/ pc[t] \in RemLooking /\ Rem!RemoveNext(t)
    BY <1>7
    DEF Rem!RemoveMap, Rem!RemoveKey, Rem!RemoveAgain, Rem!RemoveMark,
        Rem!RemoveCheck, Rem!RemoveFree, Rem!RemoveUndo, Rem!B!At
  <2>3. CASE \E l \in RemLooking \cup {"rem_mark"} \cup Rem!Marking :
               Rem!B!Continue(t, l)
    <3>1. /\ pc'[t] \in RemLooking \cup {"rem_mark"} \cup Rem!Marking
          /\ call' = call /\ slot' = slot
      BY <2>3, RemContinueTo
    <3> QED BY <1>3, <2>1, <3>1
  <2> QED BY <2>2, <2>3, RemReturnOp, RemScanOp
<1>8. CASE Rem!Get(t) \/ Rem!Put(t) \/ Rem!Remove(t)
  BY <1>2, <1>8, RemBeginsCall
<1> QED
  BY <1>4, <1>5, <1>6, <1>7, <1>8 DEF RemStep, RemSteps, Rem!Work

-----------------------------------------------------------------------------
(* What a step leaves alone.                                               *)

LEMMA RemStepGood ==
  ASSUME RemBase, NEW t \in Threads, RemStep(t)
  PROVE  RemGood(t)
BY RemCallGood, RemSearchGood, RemWriteGood, RemClaimGood, RemCommitGood,
   RemReleaseGood, RemLooksGood, RemMarkGood, RemMarkedGood, RemGivesGood
DEF RemBase, RemStep, RemSteps, Rem!Work

RemLeavesAlone(t) ==
  \A u \in Threads \ {t} :
    /\ pc'[u] = pc[u] /\ call'[u] = call[u] /\ snap'[u] = snap[u]
    /\ slot'[u] = slot[u] /\ idx'[u] = idx[u] /\ cur'[u] = cur[u]
    /\ met'[u] = met[u]

LEMMA RemStepOthers ==
  ASSUME RemBase, NEW t \in Threads, RemStep(t)
  PROVE  RemLeavesAlone(t)
<1>1. RemOthers(t)
  BY RemStepGood DEF RemGood
<1>2. \A u \in Threads \ {t} : cur'[u] = cur[u]
  BY RemCallEffect DEF RemProceeds, RemBegins
<1>3. \/ met' = met \/ met' = [met EXCEPT ![t] = FALSE]
      \/ met' = [met EXCEPT ![t] = @ \/ word.map[idx[t]] = Rem!REMOV]
  BY DEF RemStep, RemSteps, Rem!Work, Rem!Get, Rem!Put, Rem!Remove,
         Rem!ReadSnapshot, Rem!SearchVal, Rem!SearchMap, Rem!SearchKey,
         Rem!SearchAgain, Rem!Claim, Rem!WriteVal, Rem!WriteKey, Rem!Commit,
         Rem!Release, Rem!RemoveVal, Rem!RemoveMap, Rem!RemoveKey,
         Rem!RemoveAgain, Rem!RemoveMark, Rem!RemoveCheck, Rem!RemoveTake,
         Rem!RemoveFree, Rem!RemoveUndo, Rem!Meets
<1>4. \A u \in Threads \ {t} : met'[u] = met[u]
  BY <1>3 DEF RemBase, RemInv, RemType
<1> QED BY <1>1, <1>2, <1>4 DEF RemOthers, RemLeavesAlone

(* A put fills its slot alone, and a remove fills none.                    *)
LEMMA RemSlotFacts ==
  ASSUME RemBase, NEW t \in Threads
  PROVE  /\ \A i \in RemSlots, u \in Threads :
              RemFills(t, i) => /\ word.map[i] = Rem!B!INSRT
                                /\ RemFills(u, i) => u = t
                                /\ slot[t] = i /\ call[t].op = "put"
         /\ slot[t] \in RemSlots /\ pc[t] \in RemPutting \ {"claim"}
              => RemFills(t, slot[t])
         /\ call[t].op = "remove" => slot[t] = 0
         /\ pc[t] \in RemLooking \cup {"rem_mark"} \cup Rem!Marking
              => call[t].op = "remove" /\ slot[t] = 0
<1>1. \A i \in RemSlots : RemHeld(i)
  BY DEF RemBase, RemInv
<1>2. RemOp(t)
  BY RemTypeFacts
<1>3. call[t].op = "remove" => slot[t] = 0
  BY <1>2 DEF RemOp
<1>4. pc[t] \in RemLooking \cup {"rem_mark"} \cup Rem!Marking
        => call[t].op = "remove"
  BY <1>2 DEF RemOp
<1> QED
  BY <1>1, <1>2, <1>3, <1>4, RemNames DEF RemHeld, RemFills, RemOp

(* A visible slot keeps its key and value; only a commit makes a slot      *)
(* visible, and only a remove that frees its slot makes one invisible.     *)
RemSeesStep(t) ==
  /\ \A i \in RemSlots :
       /\ RemVisible(i) => key'[i] = key[i] /\ val'[i] = val[i]
       /\ RemVisible(i)' /\ ~RemVisible(i) => RemCommitted(t) /\ i = slot[t]
       /\ RemVisible(i) /\ ~RemVisible(i)' => RemFreed(t) /\ i = idx[t]
  /\ RemCommitted(t) => RemFills(t, slot[t]) /\ UNCHANGED <<key, val>>
  /\ RemFreed(t) => UNCHANGED <<key, val>>
  /\ \A i \in RemSlots :
       /\ RemCommitted(t) /\ i = slot[t] => ~RemVisible(i) /\ RemVisible(i)'
       /\ RemFreed(t) /\ i = idx[t] => RemVisible(i) /\ ~RemVisible(i)'
  /\ RemCommitted(t) \/ word'.version = word.version

LEMMA RemVisibleStep ==
  ASSUME RemBase, NEW t \in Threads, RemStep(t)
  PROVE  RemSeesStep(t)
<1> USE RemStatesApart
<1>1. word \in RemWords /\ word' \in RemWords /\ idx[t] \in RemSlots
      /\ val \in [RemSlots -> RemValues]
      /\ key \in [RemSlots -> Keys \cup {NoKey}]
  BY RemStepGood DEF RemGood, RemType, RemBase, RemInv, RemFields, RemValues
<1>2. CASE RemQuietStep(t)
  <2>1. word' = word /\ key' = key /\ val' = val
    BY <1>2 DEF RemQuietStep
  <2>2. ~RemCommitted(t)
    BY <2>1 DEF RemCommitted, RemSet
  <2>3. ~RemFreed(t)
    BY <1>1, <2>1 DEF RemFreed, RemSet
  <2>4. \A i \in RemSlots : RemVisible(i)' <=> RemVisible(i)
    BY <2>1 DEF RemVisible
  <2> QED BY <2>1, <2>2, <2>3, <2>4 DEF RemSeesStep
<1>3. CASE RemWroteVal(t) \/ RemWroteKey(t)
  <2>1. word.map[slot[t]] = "insert" /\ slot[t] \in RemSlots
    BY <1>3, RemSlotFacts DEF RemWroteVal, RemWroteKey, RemPutting
  <2>2. /\ word' = word /\ pc[t] \in RemWriting
        /\ \A i \in RemSlots \ {slot[t]} : key'[i] = key[i] /\ val'[i] = val[i]
    BY <1>1, <1>3 DEF RemWroteVal, RemWroteKey, RemWriting
  <2>3. ~RemVisible(slot[t]) /\ ~RemCommitted(t) /\ ~RemFreed(t)
    BY <2>1, <2>2 DEF RemVisible, RemCommitted, RemFreed, RemWriting
  <2>4. \A i \in RemSlots : RemVisible(i)' <=> RemVisible(i)
    BY <2>2 DEF RemVisible
  <2> QED BY <2>2, <2>3, <2>4 DEF RemSeesStep
<1>4. CASE RemClaimed(t) \/ RemReleasedStep(t)
  <2>1. word.map[slot[t]] \in {"insert", "invalid"} /\ slot[t] \in RemSlots
    BY <1>4, RemSlotFacts DEF RemClaimed, RemReleasedStep, RemPutting
  <2>2. /\ key' = key /\ val' = val /\ pc[t] \in {"claim", "release"}
        /\ word'.version = word.version
        /\ word'.map[slot[t]] \in {"insert", "invalid"}
        /\ \A i \in RemSlots \ {slot[t]} : word'.map[i] = word.map[i]
    BY <1>4, <2>1 DEF RemClaimed, RemReleasedStep, RemSet
  <2>3. ~RemCommitted(t) /\ ~RemFreed(t)
    BY <2>2 DEF RemCommitted, RemFreed
  <2>4. \A i \in RemSlots : RemVisible(i)' <=> RemVisible(i)
    BY <2>1, <2>2 DEF RemVisible
  <2> QED
    BY <2>2, <2>3, <2>4 DEF RemSeesStep
<1>5. CASE RemCommitted(t)
  <2>1. /\ key' = key /\ val' = val /\ pc[t] = "commit"
        /\ slot[t] \in RemSlots
        /\ word.map[slot[t]] = "insert" /\ word'.map[slot[t]] = "valid"
        /\ \A i \in RemSlots \ {slot[t]} : word'.map[i] = word.map[i]
    BY <1>5 DEF RemCommitted, RemSet
  <2>2. RemFills(t, slot[t]) /\ ~RemFreed(t)
    BY <2>1, RemSlotFacts DEF RemPutting, RemFreed
  <2>3. \A i \in RemSlots :
          /\ i = slot[t] => ~RemVisible(i) /\ RemVisible(i)'
          /\ i # slot[t] => (RemVisible(i)' <=> RemVisible(i))
    BY <2>1 DEF RemVisible
  <2> QED
    BY <1>5, <2>1, <2>2, <2>3 DEF RemSeesStep
<1>6. CASE RemMarked(t) \/ RemUndone(t)
  <2>1. /\ key' = key /\ val' = val /\ pc[t] \in {"rem_mark", "rem_undo"}
        /\ word'.version = word.version
        /\ word.map[idx[t]] \in {"valid", "removing"}
        /\ word'.map[idx[t]] \in {"valid", "removing"}
        /\ \A i \in RemSlots \ {idx[t]} : word'.map[i] = word.map[i]
    BY <1>1, <1>6 DEF RemMarked, RemUndone, RemSet
  <2>2. ~RemCommitted(t) /\ ~RemFreed(t)
    BY <2>1 DEF RemCommitted, RemFreed
  <2>3. \A i \in RemSlots : RemVisible(i)' <=> RemVisible(i)
    BY <2>1 DEF RemVisible
  <2> QED BY <2>1, <2>2, <2>3 DEF RemSeesStep
<1>7. CASE RemFreed(t)
  <2>1. /\ key' = key /\ val' = val /\ pc[t] = "rem_free"
        /\ word'.version = word.version
        /\ word.map[idx[t]] = "removing" /\ word'.map[idx[t]] = "invalid"
        /\ \A i \in RemSlots \ {idx[t]} : word'.map[i] = word.map[i]
    BY <1>1, <1>7 DEF RemFreed, RemSet
  <2>2. ~RemCommitted(t)
    BY <2>1 DEF RemCommitted
  <2>3. \A i \in RemSlots :
          /\ i = idx[t] => RemVisible(i) /\ ~RemVisible(i)'
          /\ i # idx[t] => (RemVisible(i)' <=> RemVisible(i))
    BY <2>1 DEF RemVisible
  <2> QED BY <1>1, <1>7, <2>1, <2>2, <2>3 DEF RemSeesStep
<1> QED
  BY <1>2, <1>3, <1>4, <1>5, <1>6, <1>7, RemKinds DEF RemKind

-----------------------------------------------------------------------------
(* The slots that puts fill.                                               *)

(* A slot carries its key and value from the time they are written.        *)
RemFilled(t, i) ==
  /\ pc[t] # "write_val" => val[i] = call[t].val
  /\ pc[t] \notin RemWriting => key[i] = call[t].key

RemFilling ==
  /\ \A t \in Threads, i \in RemSlots : RemFills(t, i) => RemFilled(t, i)
  /\ \A i \in RemSlots : RemVisible(i) => val[i] # Rem!B!NoVal

LEMMA RemFillingStep ==
  ASSUME RemBase, RemFilling, NEW t \in Threads, RemStep(t)
  PROVE  RemFilling'
<1>1. /\ slot[t] \in RemSlots \cup {0} /\ call[t] \in Rem!B!Calls
      /\ val \in [RemSlots -> RemValues]
      /\ key \in [RemSlots -> Keys \cup {NoKey}]
  BY RemTypeFacts DEF RemBase, RemInv, RemType, RemFields, RemValues
<1>2. RemLeavesAlone(t) /\ RemKind(t) /\ RemSeesStep(t)
  BY RemStepOthers, RemKinds, RemVisibleStep
<1>3. ASSUME NEW u \in Threads, u # t, NEW i \in RemSlots, RemFills(u, i)'
      PROVE  RemFilled(u, i)'
  <2>1. /\ pc'[u] = pc[u] /\ call'[u] = call[u] /\ RemFills(u, i)
    BY <1>2, <1>3 DEF RemLeavesAlone, RemFills
  <2>2. val'[i] = val[i] /\ key'[i] = key[i]
    <3>1. CASE RemWroteVal(t) \/ RemWroteKey(t)
      <4>1. RemFills(t, slot[t]) /\ slot[t] \in RemSlots
        BY <3>1, RemSlotFacts DEF RemWroteVal, RemWroteKey, RemPutting
      <4>2. slot[t] # i
        BY <1>3, <2>1, <4>1, RemSlotFacts
      <4> QED BY <1>1, <3>1, <4>2 DEF RemWroteVal, RemWroteKey
    <3>2. CASE ~(RemWroteVal(t) \/ RemWroteKey(t))
      BY <1>2, <3>2
      DEF RemKind, RemQuietStep, RemClaimed, RemCommitted, RemReleasedStep,
          RemMarked, RemFreed, RemUndone
    <3> QED BY <3>1, <3>2
  <2> QED BY <2>1, <2>2 DEF RemFilling, RemFilled
<1>4. ASSUME NEW i \in RemSlots, RemFills(t, i)' PROVE RemFilled(t, i)'
  <2>1. CASE RemQuietStep(t)
    <3>1. RemFills(t, i) /\ call'[t] = call[t] /\ UNCHANGED <<key, val>>
          /\ pc[t] \notin RemWriting /\ pc[t] # "write_val"
      BY <1>4, <2>1 DEF RemQuietStep, RemWriting
    <3> QED BY <3>1 DEF RemFilling, RemFilled
  <2>2. CASE RemClaimed(t)
    BY <2>2 DEF RemClaimed, RemFilled, RemWriting
  <2>3. CASE RemWroteVal(t)
    <3>1. i = slot[t] /\ pc'[t] = "write_key" /\ call' = call
          /\ val'[i] = call[t].val
      BY <1>1, <1>4, <2>3 DEF RemWroteVal, RemFills
    <3> QED BY <3>1 DEF RemFilled, RemWriting
  <2>4. CASE RemWroteKey(t)
    <3>1. i = slot[t] /\ pc'[t] = "commit" /\ call' = call /\ val' = val
          /\ key'[i] = call[t].key /\ pc[t] = "write_key"
      BY <1>1, <1>4, <2>4 DEF RemWroteKey, RemFills
    <3>2. RemFills(t, i)
      BY <3>1 DEF RemFills
    <3>3. val[i] = call[t].val
      BY <3>1, <3>2 DEF RemFilling, RemFilled
    <3> QED BY <3>1, <3>3 DEF RemFilled
  <2>5. CASE RemCommitted(t) \/ RemReleasedStep(t) \/ RemFreed(t)
             \/ RemUndone(t)
    <3>1. slot'[t] = 0
      BY <2>5, RemReturnOp
      DEF RemCommitted, RemReleasedStep, RemFreed, RemUndone
    <3> QED BY <1>4, <3>1, RemNames DEF RemFills
  <2>6. CASE RemMarked(t)
    <3>1. slot'[t] = 0
      BY <2>6, RemSlotFacts DEF RemMarked
    <3> QED BY <1>4, <3>1, RemNames DEF RemFills
  <2> QED
    BY <1>2, <2>1, <2>2, <2>3, <2>4, <2>5, <2>6 DEF RemKind
<1>5. ASSUME NEW i \in RemSlots, RemVisible(i)' PROVE val'[i] # Rem!B!NoVal
  <2>1. CASE RemVisible(i)
    BY <1>2, <2>1 DEF RemSeesStep, RemFilling
  <2>2. CASE ~RemVisible(i)
    <3>1. RemCommitted(t) /\ i = slot[t] /\ RemFills(t, i) /\ val' = val
      BY <1>2, <1>5, <2>2 DEF RemSeesStep
    <3>2. pc[t] = "commit"
      BY <3>1 DEF RemCommitted
    <3>3. val[i] = call[t].val /\ call[t].op = "put"
      BY <3>1, <3>2, RemSlotFacts DEF RemFilling, RemFilled
    <3> QED BY <1>1, <3>1, <3>3, RemCallTypes, RemStatesApart
  <2> QED BY <2>1, <2>2
<1> QED BY <1>3, <1>4, <1>5 DEF RemFilling

-----------------------------------------------------------------------------
(* The version counts commits, and every commit ends a put of its own.     *)

RemPut(t, v) == call[t].op = "put" /\ call[t].val = v
RemPutsDiffer ==
  /\ \A t \in Threads : call[t].op = "put" => call[t].val <= puts
  /\ \A t, u \in Threads : \A v \in 1 .. MapPuts :
       RemPut(t, v) /\ RemPut(u, v) => t = u
RemPendingVals == {v \in 1 .. MapPuts : \E t \in Threads : RemPut(t, v)}
RemVersions == word.version + Cardinality(RemPendingVals) <= puts

LEMMA RemPendingFinite ==
  /\ IsFiniteSet(RemPendingVals) /\ Cardinality(RemPendingVals) \in Nat
  /\ \A S \in SUBSET RemPendingVals :
       /\ Cardinality(S) \in Nat
       /\ Cardinality(S) <= Cardinality(RemPendingVals)
<1>1. IsFiniteSet(1 .. MapPuts)
  BY MapBounds, FS_Interval
<1>2. IsFiniteSet(RemPendingVals)
  BY <1>1, FS_Subset DEF RemPendingVals
<1> QED BY <1>2, FS_Subset, FS_CardinalityType

LEMMA RemVersionStep ==
  ASSUME RemBase, RemPutsDiffer, RemVersions, NEW t \in Threads, RemStep(t)
  PROVE  /\ RemPutsDiffer' /\ RemVersions'
         /\ RemCommitted(t) => word'.version = word.version + 1
<1>1. /\ word.version \in Nat /\ word'.version \in Nat
      /\ puts \in Nat /\ puts' \in Nat /\ puts <= MapPuts /\ puts' <= MapPuts
      /\ MapPuts \in Nat
      /\ \A u \in Threads : call[u] \in Rem!B!Calls /\ call'[u] \in Rem!B!Calls
  <2>1. RemType' /\ RemType
    BY RemStepGood DEF RemGood, RemBase, RemInv
  <2> QED BY <2>1, MapBounds DEF RemType, RemWords
<1>2. \A u \in Threads \ {t} : call'[u] = call[u]
  BY RemStepOthers DEF RemLeavesAlone
<1>3. \A u \in Threads : \A v : RemPut(u, v) => v \in 1 .. MapPuts /\ v <= puts
  BY <1>1, RemCallTypes, RemStatesApart DEF RemPut, RemPutsDiffer
<1>4. \A u \in Threads : \A v :
        RemPut(u, v)' => \/ RemPut(u, v)
                         \/ u = t /\ RemBegins(t) /\ v = puts + 1
                            /\ puts' = puts + 1
  <2>1. RemPut(t, call[t].val) => call'[t] = call[t] \/ call'[t] = Rem!B!Idle
                                  \/ RemBegins(t)
    BY RemCallEffect DEF RemProceeds
  <2>2. Rem!B!Idle.op # "put"
    BY RemCallTypes
  <2> QED
    BY <1>2, <2>2, RemCallEffect DEF RemPut, RemProceeds, RemBegins
<1>5. puts <= puts'
  BY <1>1, RemCallEffect DEF RemProceeds, RemBegins
<1>6. RemPutsDiffer'
  <2>1. ASSUME NEW u \in Threads, call'[u].op = "put"
        PROVE  call'[u].val <= puts'
    <3>0. PICK v : v = call'[u].val
      OBVIOUS
    <3>1. RemPut(u, v)'
      BY <2>1, <3>0 DEF RemPut
    <3>2. \/ RemPut(u, v)
          \/ u = t /\ RemBegins(t) /\ v = puts + 1 /\ puts' = puts + 1
      BY <1>4, <3>1
    <3>3. v \in Nat
      BY <1>1, <2>1, <3>0, RemCallTypes, RemStatesApart
    <3>4. RemPut(u, v) => v <= puts
      BY <1>3
    <3>5. v <= puts'
      BY <1>1, <1>5, <3>2, <3>3, <3>4
    <3> QED BY <3>0, <3>5
  <2>2. ASSUME NEW u \in Threads, NEW w \in Threads, NEW v \in 1 .. MapPuts,
               RemPut(u, v)', RemPut(w, v)'
        PROVE  u = w
    <3>1. \A x \in Threads : ~RemPut(x, puts + 1)
      <4>1. ~(puts + 1 <= puts)
        BY <1>1
      <4> QED BY <1>3, <4>1
    <3> QED BY <1>4, <2>2, <3>1 DEF RemPutsDiffer
  <2> QED BY <2>1, <2>2 DEF RemPutsDiffer
<1>7. CASE RemBegins(t) /\ puts' # puts
  <2>1. /\ call'[t].op = "put" /\ call'[t].val = puts + 1 /\ puts' = puts + 1
        /\ word' = word /\ pc[t] = "idle" /\ call[t].op # "put"
    BY <1>7, RemCallTypes DEF RemBegins
  <2>2. RemPendingVals' = RemPendingVals \cup {puts + 1}
    <3>1. /\ \A v : v = puts + 1 => RemPut(t, v)'
          /\ puts + 1 \in 1 .. MapPuts
      BY <1>1, <2>1 DEF RemPut
    <3>2. \A u \in Threads : \A v : RemPut(u, v) => RemPut(u, v)'
      BY <1>2, <2>1 DEF RemPut
    <3> QED BY <1>4, <3>1, <3>2 DEF RemPendingVals
  <2>3. puts + 1 \notin RemPendingVals
    <3>1. ~(puts + 1 <= puts)
      BY <1>1
    <3> QED BY <1>3, <3>1 DEF RemPendingVals
  <2>4. Cardinality(RemPendingVals') = Cardinality(RemPendingVals) + 1
    BY <2>2, <2>3, RemPendingFinite, FS_AddElement
  <2>5. RemVersions'
    BY <1>1, <2>1, <2>4, RemPendingFinite DEF RemVersions
  <2>6. ~RemCommitted(t)
    BY <2>1 DEF RemCommitted
  <2> QED BY <1>6, <2>5, <2>6
<1>8. ASSUME ~(RemBegins(t) /\ puts' # puts)
      PROVE  RemPendingVals' \subseteq RemPendingVals /\ puts' = puts
  <2>1. puts' = puts
    BY <1>8, RemCallEffect DEF RemProceeds
  <2>2. puts' # puts + 1
    BY <1>1, <2>1
  <2> QED BY <1>4, <2>1, <2>2 DEF RemPendingVals
<1>9. CASE RemCommitted(t)
  <2>0. PICK v : v = call[t].val
    OBVIOUS
  <2>1. RemPut(t, v) /\ v \in RemPendingVals
    <3>1. call[t].op = "put"
      BY <1>9, RemTypeFacts DEF RemCommitted, RemControl, RemPutting
    <3>2. RemPut(t, v)
      BY <2>0, <3>1 DEF RemPut
    <3> QED BY <1>3, <3>2 DEF RemPendingVals
  <2>2. call'[t] = Rem!B!Idle /\ pc[t] = "commit"
    BY <1>9, RemReturnOp DEF RemCommitted
  <2>3. ~RemBegins(t)
    BY <2>2 DEF RemBegins
  <2>4. v \notin RemPendingVals'
    <3>1. ~RemPut(t, v)'
      BY <2>2, RemCallTypes DEF RemPut
    <3>2. \A u \in Threads : u # t => ~RemPut(u, v)
      BY <1>3, <2>1 DEF RemPutsDiffer
    <3> QED BY <1>4, <2>3, <3>1, <3>2 DEF RemPendingVals
  <2>5. RemPendingVals' \subseteq RemPendingVals \ {v} /\ puts' = puts
    BY <1>8, <2>3, <2>4
  <2>6. /\ Cardinality(RemPendingVals \ {v})
             = Cardinality(RemPendingVals) - 1
        /\ IsFiniteSet(RemPendingVals \ {v})
        /\ Cardinality(RemPendingVals) # 0
    BY <2>1, RemPendingFinite, FS_RemoveElement, FS_EmptySet, FS_Subset
  <2>7. /\ Cardinality(RemPendingVals') <= Cardinality(RemPendingVals) - 1
        /\ Cardinality(RemPendingVals') \in Nat
    <3>1. /\ Cardinality(RemPendingVals')
               <= Cardinality(RemPendingVals \ {v})
      BY <2>5, <2>6, FS_Subset
    <3> QED BY <2>5, <2>6, <3>1, RemPendingFinite
  <2>8. /\ Cardinality(RemPendingVals) \in Nat
        /\ word.version + 1 < 2 * MapPuts + 2
    <3>1. Cardinality(RemPendingVals) \in Nat
      BY RemPendingFinite
    <3> QED BY <1>1, <3>1, <2>6 DEF RemVersions
  <2>9. word'.version = word.version + 1
    <3>1. word'.version = (word.version + 1) % (2 * MapPuts + 2)
      BY <1>9 DEF RemCommitted
    <3>2. \A a, m \in Nat : a < m => a % m = a
      OBVIOUS
    <3>3. word.version + 1 \in Nat /\ 2 * MapPuts + 2 \in Nat
      BY <1>1
    <3> QED BY <2>8, <3>1, <3>2, <3>3
  <2>10. RemVersions'
    BY <1>1, <2>5, <2>7, <2>8, <2>9 DEF RemVersions
  <2> QED BY <1>6, <2>9, <2>10
<1>10. CASE ~RemCommitted(t) /\ ~(RemBegins(t) /\ puts' # puts)
  <2>1. word'.version = word.version
    BY <1>10, RemVisibleStep DEF RemSeesStep
  <2>2. RemPendingVals' \subseteq RemPendingVals /\ puts' = puts
    BY <1>8, <1>10
  <2>3. /\ Cardinality(RemPendingVals') <= Cardinality(RemPendingVals)
        /\ Cardinality(RemPendingVals') \in Nat
        /\ Cardinality(RemPendingVals) \in Nat
    BY <2>2, RemPendingFinite
  <2>4. RemVersions'
    BY <1>1, <2>1, <2>2, <2>3 DEF RemVersions
  <2> QED BY <1>6, <1>10, <2>4
<1> QED BY <1>7, <1>9, <1>10

-----------------------------------------------------------------------------
(* The steps of a search.                                                  *)

RemReads(t) ==
  /\ pc[t] = "search_val" /\ pc'[t] = "search_map"
  /\ cur'[t] = val[idx[t]]
  /\ UNCHANGED <<call, ret, snap, slot, idx>>
RemFindsMap(t) ==
  /\ pc[t] = "search_map" /\ pc'[t] = "search_key" /\ RemVisible(idx[t])
  /\ UNCHANGED <<call, ret, snap, slot, idx, cur>>
RemFindsKey(t) ==
  /\ pc[t] = "search_key" /\ pc'[t] = "search_again"
  /\ key[idx[t]] = call[t].key
  /\ UNCHANGED <<call, ret, snap, slot, idx, cur>>

(* The slot at which t is does not hold its key.                           *)
RemMissed(t) ==
  \/ pc[t] = "search_map" /\ ~RemVisible(idx[t])
  \/ pc[t] = "search_key" /\ key[idx[t]] # call[t].key
RemMovesOn(t) ==
  /\ RemMissed(t) /\ idx[t] # MapSlots
  /\ pc'[t] = "search_val" /\ idx'[t] = idx[t] + 1
  /\ UNCHANGED <<call, ret, snap, slot, cur>>
RemEnds(t, r) ==
  /\ pc[t] \in RemSearching /\ Rem!B!SearchDone(t, r)
  /\ \/ RemMissed(t) /\ idx[t] = MapSlots /\ r = Rem!B!NoVal
     \/ /\ pc[t] = "search_again"
        /\ r = IF val[idx[t]] = cur[t] THEN cur[t] ELSE Rem!B!NoVal

RemSearchStep(t) ==
  /\ UNCHANGED <<word, key, val, puts, met>>
  /\ \/ RemReads(t) \/ RemFindsMap(t) \/ RemFindsKey(t) \/ RemMovesOn(t)
     \/ \E r : RemEnds(t, r)

LEMMA RemSearchMoves ==
  ASSUME RemBase, NEW t \in Threads,
         \/ Rem!SearchVal(t) \/ Rem!SearchMap(t) \/ Rem!SearchKey(t)
         \/ Rem!SearchAgain(t)
  PROVE  RemSearchStep(t)
<1>1. UNCHANGED <<word, key, val, puts, met>>
  BY DEF Rem!SearchVal, Rem!SearchMap, Rem!SearchKey, Rem!SearchAgain,
         Rem!B!SearchVal, Rem!B!SearchKey, Rem!B!SearchAgain, Rem!shared,
         Rem!B!bucket
<1>2. CASE Rem!SearchVal(t)
  BY <1>1, <1>2
  DEF Rem!SearchVal, Rem!B!SearchVal, Rem!B!At, Rem!B!Goto, RemSearchStep,
      RemReads, RemBase, RemInv, RemType, RemFields
<1>3. CASE Rem!B!SearchNext(t) /\ RemMissed(t)
  <2>1. pc[t] \in RemSearching
    BY <1>3 DEF RemMissed, RemSearching
  <2>2. CASE idx[t] = MapSlots
    BY <1>1, <1>3, <2>1, <2>2
    DEF Rem!B!SearchNext, RemSearchStep, RemEnds
  <2>3. CASE idx[t] # MapSlots
    <3>1. /\ idx' = [idx EXCEPT ![t] = idx[t] + 1]
          /\ Rem!B!Goto(t, "search_val")
          /\ UNCHANGED <<call, ret, snap, slot, cur>>
      BY <1>3, <2>3 DEF Rem!B!SearchNext
    <3>2. pc'[t] = "search_val" /\ idx'[t] = idx[t] + 1
      BY <2>1, <2>3, <3>1, RemPassTo
    <3> QED BY <1>1, <1>3, <2>3, <3>1, <3>2 DEF RemSearchStep, RemMovesOn
  <2> QED BY <2>2, <2>3
<1>4. CASE Rem!SearchMap(t)
  <2>1. pc[t] = "search_map"
    BY <1>4 DEF Rem!SearchMap, Rem!B!At
  <2>2. CASE RemVisible(idx[t])
    <3>1. Rem!B!Continue(t, "search_key")
      BY <1>4, <2>2 DEF Rem!SearchMap, RemVisible
    <3> QED
      BY <1>1, <2>1, <2>2, <3>1, RemContinueTo DEF RemSearchStep, RemFindsMap
  <2>3. CASE ~RemVisible(idx[t])
    <3>1. Rem!B!SearchNext(t) /\ RemMissed(t)
      BY <1>4, <2>1, <2>3 DEF Rem!SearchMap, RemVisible, RemMissed
    <3> QED BY <1>3, <3>1
  <2> QED BY <2>2, <2>3
<1>5. CASE Rem!SearchKey(t)
  <2>1. pc[t] = "search_key"
    BY <1>5 DEF Rem!SearchKey, Rem!B!SearchKey, Rem!B!At
  <2>2. CASE key[idx[t]] = call[t].key
    <3>1. Rem!B!Continue(t, "search_again")
      BY <1>5, <2>2 DEF Rem!SearchKey, Rem!B!SearchKey
    <3> QED
      BY <1>1, <2>1, <2>2, <3>1, RemContinueTo DEF RemSearchStep, RemFindsKey
  <2>3. CASE key[idx[t]] # call[t].key
    <3>1. Rem!B!SearchNext(t) /\ RemMissed(t)
      BY <1>5, <2>1, <2>3 DEF Rem!SearchKey, Rem!B!SearchKey, RemMissed
    <3> QED BY <1>3, <3>1
  <2> QED BY <2>2, <2>3
<1>6. CASE Rem!SearchAgain(t)
  BY <1>1, <1>6
  DEF Rem!SearchAgain, Rem!B!SearchAgain, Rem!B!At, RemSearchStep, RemEnds,
      RemSearching
<1> QED BY <1>2, <1>4, <1>5, <1>6

-----------------------------------------------------------------------------
(* A put works from a snapshot of an earlier version, or of the current    *)
(* one; while the version stays the same, slots only cease to be visible.  *)
RemWorking(t) == pc[t] \notin {"idle", "snapshot"} /\ call[t].op = "put"

(* What a step of a put that goes on can be.                               *)
RemLoads(t) ==
  /\ pc[t] = "snapshot" /\ pc'[t] = "search_val" /\ snap'[t] = word
  /\ UNCHANGED <<word, key, val, call, slot, idx>>
RemFailed(t) ==
  /\ pc'[t] \in {"claim", "commit"}
  /\ pc'[t] = "claim" => /\ slot'[t] \in RemSlots
                         /\ snap[t].map[slot'[t]] = Rem!B!INVLD
  /\ pc'[t] = "commit" => slot' = slot
  /\ UNCHANGED <<word, key, val, call, snap>>
  /\ \E r : RemEnds(t, r) /\ r = Rem!B!NoVal
RemFound(t) ==
  /\ pc'[t] = "release" /\ UNCHANGED <<word, key, val, call, snap, slot>>
  /\ \E r : RemEnds(t, r) /\ r # Rem!B!NoVal
RemPutStep(t) ==
  \/ RemLoads(t)
  \/ RemSearchStep(t) /\ RemReads(t)
  \/ RemSearchStep(t) /\ RemFindsMap(t)
  \/ RemSearchStep(t) /\ RemFindsKey(t)
  \/ RemSearchStep(t) /\ RemMovesOn(t)
  \/ RemFailed(t) \/ RemFound(t)
  \/ RemClaimed(t) \/ RemWroteVal(t) \/ RemWroteKey(t)

LEMMA RemPutMoves ==
  ASSUME RemBase, NEW t \in Threads, RemStep(t), RemWorking(t)'
  PROVE  RemPutStep(t)
<1>1. call'[t].op = "put" /\ pc'[t] \notin {"idle", "snapshot"}
  BY DEF RemWorking
<1>2. ASSUME NEW r PROVE ~Rem!B!Return(t, r)
  BY <1>1, RemReturnOp
<1>3. ASSUME NEW e PROVE ~Rem!B!Retry(t, e)
  BY <1>1 DEF Rem!B!Retry, Rem!B!Goto, RemBase, RemInv, RemType
<1>4. ~RemBegins(t)
  BY <1>1 DEF RemBegins
<1>5. call'[t] = call[t] /\ call[t].op = "put"
  BY <1>1, <1>4, RemCallEffect, RemCallTypes DEF RemProceeds
<1>6. CASE Rem!ReadSnapshot(t)
  <2>1. /\ pc[t] = "snapshot" /\ snap' = [snap EXCEPT ![t] = word]
        /\ pc' = [pc EXCEPT ![t] = "search_val"]
        /\ UNCHANGED <<word, key, val, call, slot, idx>>
    BY <1>5, <1>6
    DEF Rem!ReadSnapshot, Rem!B!ReadSnapshot, Rem!B!At, Rem!B!Goto,
        Rem!B!bucket
  <2> QED
    BY <2>1 DEF RemPutStep, RemLoads, RemBase, RemInv, RemType
<1>7. CASE \/ Rem!SearchVal(t) \/ Rem!SearchMap(t) \/ Rem!SearchKey(t)
           \/ Rem!SearchAgain(t)
  <2>1. RemSearchStep(t)
    BY <1>7, RemSearchMoves
  <2>2. CASE \E r : RemEnds(t, r)
    <3>1. PICK r : RemEnds(t, r)
      BY <2>2
    <3>2. \/ /\ pc'[t] = "release" /\ r # Rem!B!NoVal
             /\ UNCHANGED <<call, snap, slot>>
          \/ /\ r = Rem!B!NoVal /\ UNCHANGED <<call, snap>>
             /\ \/ /\ pc'[t] = "claim" /\ slot'[t] \in RemSlots
                   /\ snap[t].map[slot'[t]] = Rem!B!INVLD
                \/ pc'[t] = "commit" /\ slot' = slot
      BY <1>1, <1>2, <1>5, <3>1, RemDoneTo DEF RemEnds
    <3>3. UNCHANGED <<word, key, val>>
      BY <2>1 DEF RemSearchStep
    <3> QED
      BY <3>1, <3>2, <3>3 DEF RemPutStep, RemFailed, RemFound
  <2> QED BY <2>1, <2>2 DEF RemSearchStep, RemPutStep
<1>8. CASE Rem!Claim(t) \/ Rem!WriteVal(t) \/ Rem!WriteKey(t)
           \/ Rem!Commit(t) \/ Rem!Release(t)
  <2>1. ~RemCommitted(t) /\ ~RemReleasedStep(t) /\ ~RemFreed(t)
        /\ ~RemUndone(t)
    BY <1>2 DEF RemCommitted, RemReleasedStep, RemFreed, RemUndone
  <2>2. ~RemMarked(t)
    BY <1>8
    DEF RemMarked, Rem!Claim, Rem!WriteVal, Rem!WriteKey, Rem!Commit,
        Rem!Release, Rem!B!Claim, Rem!B!WriteVal, Rem!B!WriteKey,
        Rem!B!Commit, Rem!B!Release, Rem!B!At
  <2>3. CASE RemQuietStep(t)
    <3>1. pc[t] \notin RemWriting /\ pc'[t] \notin RemWriting
      BY <2>3 DEF RemQuietStep
    <3>2. ~Rem!WriteVal(t) /\ ~Rem!WriteKey(t)
      BY <3>1 DEF Rem!WriteVal, Rem!WriteKey, Rem!B!WriteVal,
                  Rem!B!WriteKey, Rem!B!At, RemWriting
    <3>3. ~Rem!B!Continue(t, "write_val")
      BY <3>1, RemContinueTo DEF RemWriting
    <3> QED
      BY <1>2, <1>3, <1>8, <3>2, <3>3
      DEF Rem!Claim, Rem!Commit, Rem!Release, Rem!B!Claim, Rem!B!Commit,
          Rem!B!Release
  <2> QED
    BY <2>1, <2>2, <2>3, RemKinds DEF RemKind, RemPutStep
<1>9. CASE \/ Rem!RemoveVal(t) \/ Rem!RemoveMap(t) \/ Rem!RemoveKey(t)
           \/ Rem!RemoveAgain(t) \/ Rem!RemoveMark(t) \/ Rem!RemoveCheck(t)
           \/ Rem!RemoveTake(t) \/ Rem!RemoveFree(t) \/ Rem!RemoveUndo(t)
  <2>1. pc[t] \in RemLooking \cup {"rem_mark"} \cup Rem!Marking
    BY <1>9
    DEF Rem!RemoveVal, Rem!RemoveMap, Rem!RemoveKey, Rem!RemoveAgain,
        Rem!RemoveMark, Rem!RemoveCheck, Rem!RemoveTake, Rem!RemoveFree,
        Rem!RemoveUndo, Rem!B!At, RemLooking, Rem!Marking
  <2> QED BY <1>5, <2>1, RemTypeFacts DEF RemOp
<1>10. ~Rem!Get(t) /\ ~Rem!Put(t) /\ ~Rem!Remove(t)
  BY <1>4, RemBeginsCall
<1> QED
  BY <1>6, <1>7, <1>8, <1>9, <1>10 DEF RemStep, RemSteps, Rem!Work

-----------------------------------------------------------------------------
RemSnapshotOk(t) ==
  /\ snap[t].version <= word.version
  /\ snap[t].version = word.version =>
       \A i \in RemSlots : RemVisible(i) => snap[t].map[i] \in Rem!Visible
  /\ slot[t] # 0 => snap[t].map[slot[t]] \notin Rem!Visible

RemSnapshots == \A t \in Threads : RemWorking(t) => RemSnapshotOk(t)

LEMMA RemSnapshotStep ==
  ASSUME RemBase, RemPutsDiffer, RemVersions, RemSnapshots,
         NEW t \in Threads, RemStep(t)
  PROVE  RemSnapshots'
<1>1. /\ word.version \in Nat /\ word'.version \in Nat
      /\ \A u \in Threads : snap[u].version \in Nat
  <2>1. RemType /\ RemType'
    BY RemStepGood DEF RemGood, RemBase, RemInv
  <2> QED BY <2>1, MapBounds DEF RemType, RemWords
<1>2. RemSeesStep(t) /\ RemLeavesAlone(t)
      /\ (RemCommitted(t) => word'.version = word.version + 1)
      /\ slot[t] \in RemSlots \cup {0}
  BY RemVisibleStep, RemStepOthers, RemVersionStep, RemTypeFacts
(* A snapshot that is kept stays good whatever happens to the word.        *)
<1>3. ASSUME NEW u \in Threads, RemSnapshotOk(u), snap'[u] = snap[u]
      PROVE  /\ snap'[u].version <= word'.version
             /\ snap'[u].version = word'.version =>
                  \A i \in RemSlots :
                    RemVisible(i)' => snap'[u].map[i] \in Rem!Visible
  <2>1. CASE RemCommitted(t)
    <3>1. word'.version = word.version + 1 /\ snap[u].version <= word.version
      BY <1>2, <1>3, <2>1 DEF RemSnapshotOk
    <3> QED BY <1>1, <1>3, <3>1
  <2>2. CASE ~RemCommitted(t)
    BY <1>2, <1>3, <2>2 DEF RemSnapshotOk, RemSeesStep
  <2> QED BY <2>1, <2>2
<1>4. ASSUME NEW u \in Threads, u # t, RemWorking(u)'
      PROVE  RemSnapshotOk(u)'
  <2>1. /\ pc'[u] = pc[u] /\ call'[u] = call[u] /\ snap'[u] = snap[u]
        /\ slot'[u] = slot[u]
    BY <1>2, <1>4 DEF RemLeavesAlone
  <2>2. RemSnapshotOk(u)
    BY <1>4, <2>1 DEF RemWorking, RemSnapshots
  <2> QED BY <1>3, <2>1, <2>2 DEF RemSnapshotOk
<1>5. ASSUME RemWorking(t)' PROVE RemSnapshotOk(t)'
  <2>1. RemPutStep(t)
    BY <1>5, RemPutMoves
  <2>2. CASE RemLoads(t)
    <3>1. slot[t] # 0 => word.map[slot[t]] = "insert"
      BY <1>2, <2>2, RemSlotFacts, RemStatesApart DEF RemLoads, RemFills
    <3>2. word'.version <= word'.version
      BY <1>1
    <3> QED
      BY <2>2, <3>1, <3>2, RemStatesApart
      DEF RemLoads, RemSnapshotOk, RemVisible
  <2>3. ASSUME RemWorking(t), snap' = snap,
               \/ slot'[t] = slot[t]
               \/ snap[t].map[slot'[t]] = Rem!B!INVLD
        PROVE  RemSnapshotOk(t)'
    <3>1. RemSnapshotOk(t)
      BY <2>3 DEF RemSnapshots
    <3> QED BY <1>3, <2>3, <3>1, RemStatesApart DEF RemSnapshotOk
  <2>4. ASSUME call' = call, pc[t] \notin {"idle", "snapshot"}
        PROVE  RemWorking(t)
    BY <1>5, <2>4 DEF RemWorking
  <2>5. CASE \/ RemReads(t) \/ RemFindsMap(t) \/ RemFindsKey(t)
             \/ RemMovesOn(t)
    BY <2>3, <2>4, <2>5
    DEF RemReads, RemFindsMap, RemFindsKey, RemMovesOn, RemMissed
  <2>6. CASE RemFailed(t) \/ RemFound(t)
    <3>1. pc[t] \in RemSearching
      BY <2>6 DEF RemFailed, RemFound, RemEnds
    <3> QED
      BY <2>3, <2>4, <2>6, <3>1
      DEF RemFailed, RemFound, RemSearching
  <2>7. CASE RemClaimed(t) \/ RemWroteVal(t) \/ RemWroteKey(t)
    BY <2>3, <2>4, <2>7 DEF RemClaimed, RemWroteVal, RemWroteKey
  <2> QED BY <2>1, <2>2, <2>5, <2>6, <2>7 DEF RemPutStep
<1> QED BY <1>4, <1>5 DEF RemSnapshots

-----------------------------------------------------------------------------
(* Nothing was committed or removed since t read its snapshot.             *)
RemFresh(t) ==
  /\ RemWorking(t)
  /\ snap[t].version = word.version
  /\ \A i \in RemSlots : snap[t].map[i] \in Rem!Visible => RemVisible(i)

(* As long as that is so, the search of a put has seen the truth.          *)
RemPassed(t, i) ==
  \/ pc[t] \in RemSearching /\ i < idx[t]
  \/ pc[t] \in {"claim", "write_val", "write_key", "commit"}

RemSearchOk(t) ==
  /\ \A i \in RemSlots :
       RemPassed(t, i) /\ RemVisible(i) => key[i] # call[t].key
  /\ pc[t] = "search_map" /\ RemVisible(idx[t]) => cur[t] = val[idx[t]]
  /\ pc[t] \in {"search_key", "search_again"}
       => RemVisible(idx[t]) /\ cur[t] = val[idx[t]]

RemSearches == \A t \in Threads : RemFresh(t) => RemSearchOk(t)

(* No two visible slots have one key.                                      *)
RemUnique ==
  \A i, j \in RemSlots :
    RemVisible(i) /\ RemVisible(j) /\ key[i] = key[j] => i = j

RemPuts ==
  /\ RemBase /\ RemFilling /\ RemPutsDiffer /\ RemVersions
  /\ RemSnapshots /\ RemSearches /\ RemUnique

RemSameView ==
  \A i \in RemSlots :
    /\ RemVisible(i)' <=> RemVisible(i)
    /\ RemVisible(i) => key'[i] = key[i] /\ val'[i] = val[i]

(* Unless the map is changed, what a put has found stays true.             *)
LEMMA RemFreshStep ==
  ASSUME RemPuts, NEW t \in Threads, RemStep(t), NEW u \in Threads,
         RemWorking(u), snap'[u] = snap[u], RemFresh(u)'
  PROVE  /\ ~RemCommitted(t) /\ ~RemFreed(t) /\ RemFresh(u)
         /\ RemSameView
<1>1. /\ RemSnapshotOk(u) /\ snap[u].version = word'.version
      /\ word.version \in Nat /\ snap[u].version \in Nat
      /\ RemBase /\ RemPutsDiffer /\ RemVersions
      /\ idx[t] \in RemSlots
  BY MapBounds
  DEF RemPuts, RemSnapshots, RemFresh, RemBase, RemInv, RemType, RemWords
<1>2. RemSeesStep(t)
      /\ (RemCommitted(t) => word'.version = word.version + 1)
  BY <1>1, RemVisibleStep, RemVersionStep
<1>3. ~RemCommitted(t) /\ word'.version = word.version
  <2>1. snap[u].version <= word.version
    BY <1>1 DEF RemSnapshotOk
  <2>2. word'.version # word.version + 1
    BY <1>1, <2>1
  <2> QED BY <1>2, <2>2 DEF RemSeesStep
<1>4. ~RemFreed(t)
  <2> SUFFICES ASSUME RemFreed(t) PROVE FALSE
    OBVIOUS
  <2>1. PICK i \in RemSlots : i = idx[t]
    BY <1>1
  <2>2. RemVisible(i) /\ ~RemVisible(i)'
    BY <1>2, <2>1 DEF RemSeesStep
  <2>3. snap[u].map[i] \in Rem!Visible
    BY <1>1, <1>3, <2>2 DEF RemSnapshotOk
  <2> QED BY <2>2, <2>3, RemStatesApart DEF RemFresh
<1>5. RemSameView
  BY <1>2, <1>3, <1>4 DEF RemSeesStep, RemSameView
<1>6. RemFresh(u)
  BY <1>1, <1>3, <1>5, RemStatesApart DEF RemFresh, RemSameView
<1> QED BY <1>3, <1>4, <1>5, <1>6

LEMMA RemSearchesStep ==
  ASSUME RemPuts, NEW t \in Threads, RemStep(t)
  PROVE  RemSearches'
<1>0. RemBase /\ RemLeavesAlone(t) /\ RemOp(t) /\ idx[t] \in RemSlots
  BY RemStepOthers, RemTypeFacts DEF RemPuts
<1>1. ASSUME NEW u \in Threads, u # t, RemFresh(u)'
      PROVE  RemSearchOk(u)'
  <2>1. /\ pc'[u] = pc[u] /\ call'[u] = call[u] /\ snap'[u] = snap[u]
        /\ idx'[u] = idx[u] /\ cur'[u] = cur[u]
    BY <1>0, <1>1 DEF RemLeavesAlone
  <2>2. RemWorking(u)
    BY <1>1, <2>1 DEF RemFresh, RemWorking
  <2>3. RemSearchOk(u) /\ RemSameView
    BY <1>1, <2>1, <2>2, RemFreshStep DEF RemPuts, RemSearches
  <2>4. PICK i \in RemSlots : i = idx[u]
    BY <1>0, RemTypeFacts
  <2>5. ASSUME NEW j \in RemSlots, RemPassed(u, j)', RemVisible(j)'
        PROVE  key'[j] # call'[u].key
    BY <2>1, <2>3, <2>5 DEF RemSearchOk, RemPassed, RemSameView
  <2>6. ASSUME pc'[u] = "search_map", RemVisible(i)'
        PROVE  cur'[u] = val'[i]
    BY <2>1, <2>3, <2>4, <2>6 DEF RemSearchOk, RemSameView
  <2>7. ASSUME pc'[u] \in {"search_key", "search_again"}
        PROVE  RemVisible(i)' /\ cur'[u] = val'[i]
    BY <2>1, <2>3, <2>4, <2>7 DEF RemSearchOk, RemSameView
  <2>8. idx'[u] = i
    BY <2>1, <2>4
  <2> QED BY <2>5, <2>6, <2>7, <2>8 DEF RemSearchOk, RemVisible
<1>2. ASSUME RemFresh(t)' PROVE RemSearchOk(t)'
  <2>1. RemWorking(t)' /\ RemPutStep(t)
    BY <1>0, <1>2, RemPutMoves DEF RemFresh
  <2>2. CASE RemLoads(t)
    <3>1. pc'[t] = "search_val" /\ idx'[t] = 1
      BY <1>0, <2>2 DEF RemLoads, RemOp
    <3>2. \A i \in RemSlots : ~(i < 1)
      BY DEF RemSlots
    <3> QED BY <3>1, <3>2 DEF RemSearchOk, RemPassed
  <2>3. ASSUME snap' = snap, call' = call,
               pc[t] \notin {"idle", "snapshot"}
        PROVE  RemSearchOk(t) /\ RemSameView
    <3>1. RemWorking(t)
      BY <2>1, <2>3 DEF RemWorking
    <3> QED
      BY <1>2, <2>3, <3>1, RemFreshStep DEF RemPuts, RemSearches
  <2>4. CASE RemSearchStep(t) /\ RemReads(t)
    <3>1. RemSearchOk(t)
      BY <2>3, <2>4 DEF RemReads
    <3>2. UNCHANGED <<word, key, val>>
      BY <2>4 DEF RemSearchStep
    <3> QED
      BY <2>4, <3>1, <3>2
      DEF RemReads, RemSearchOk, RemPassed, RemSearching, RemVisible
  <2>5. CASE RemSearchStep(t) /\ (RemFindsMap(t) \/ RemFindsKey(t))
    <3>1. RemSearchOk(t)
      BY <2>3, <2>5 DEF RemFindsMap, RemFindsKey
    <3>2. UNCHANGED <<word, key, val>>
      BY <2>5 DEF RemSearchStep
    <3> QED
      BY <2>5, <3>1, <3>2
      DEF RemFindsMap, RemFindsKey, RemSearchOk, RemPassed, RemSearching,
          RemVisible
  (* The slot is not the key's; if it is the last, none is.                *)
  <2>6. ASSUME RemSearchOk(t), RemMissed(t),
               \/ pc'[t] = "search_val" /\ idx'[t] = idx[t] + 1
               \/ pc'[t] \in {"claim", "commit"} /\ idx[t] = MapSlots,
               UNCHANGED <<word, key, val, call>>
        PROVE  RemSearchOk(t)'
    <3>1. \A i \in RemSlots : i < idx[t] + 1 => i = idx[t] \/ i < idx[t]
      BY <1>0 DEF RemSlots
    <3>2. idx[t] = MapSlots =>
            \A i \in RemSlots : i = idx[t] \/ i < idx[t]
      BY MapBounds DEF RemSlots
    <3>3. pc[t] \in RemSearching
          /\ (RemVisible(idx[t]) => key[idx[t]] # call[t].key)
      BY <2>6 DEF RemMissed, RemSearching
    <3>4. ASSUME NEW i \in RemSlots, RemPassed(t, i)', RemVisible(i)'
          PROVE  key'[i] # call'[t].key
      <4>1. RemVisible(i) /\ (i = idx[t] \/ i < idx[t])
        BY <2>6, <3>1, <3>2, <3>4 DEF RemPassed, RemSearching, RemVisible
      <4> QED BY <2>6, <3>3, <4>1 DEF RemSearchOk, RemPassed
    <3> QED BY <2>6, <3>4 DEF RemSearchOk
  <2>7. CASE RemSearchStep(t) /\ RemMovesOn(t)
    <3>1. RemSearchOk(t)
      BY <2>3, <2>7 DEF RemMovesOn, RemMissed
    <3> QED
      BY <2>6, <2>7, <3>1 DEF RemMovesOn, RemSearchStep
  <2>8. CASE RemFailed(t)
    <3>1. PICK r : RemEnds(t, r) /\ r = Rem!B!NoVal
      BY <2>8 DEF RemFailed
    <3>2. pc[t] \in RemSearching
      BY <3>1 DEF RemEnds
    <3>3. RemSearchOk(t)
      BY <2>3, <2>8, <3>2 DEF RemFailed, RemSearching
    <3>4. pc[t] # "search_again"
      <4>1. ASSUME pc[t] = "search_again" PROVE FALSE
        <5>1. RemVisible(idx[t]) /\ cur[t] = val[idx[t]]
          BY <3>3, <4>1 DEF RemSearchOk
        <5>2. val[idx[t]] # Rem!B!NoVal
          BY <1>0, <5>1 DEF RemPuts, RemFilling
        <5> QED BY <3>1, <4>1, <5>1, <5>2 DEF RemEnds, RemMissed
      <4> QED BY <4>1
    <3>5. RemMissed(t) /\ idx[t] = MapSlots
      BY <3>1, <3>4 DEF RemEnds
    <3> QED BY <2>6, <2>8, <3>3, <3>5 DEF RemFailed
  <2>9. CASE RemFound(t)
    BY <2>9 DEF RemFound, RemSearchOk, RemPassed, RemSearching
  <2>10. CASE RemClaimed(t) \/ RemWroteVal(t) \/ RemWroteKey(t)
    <3>1. /\ snap' = snap /\ call' = call
          /\ pc[t] \in {"claim", "write_val", "write_key"}
          /\ pc'[t] \in {"write_val", "write_key", "commit"}
      BY <2>10 DEF RemClaimed, RemWroteVal, RemWroteKey
    <3>2. RemSearchOk(t) /\ RemSameView
      BY <2>3, <3>1
    <3>3. \A i \in RemSlots :
            RemVisible(i)' => key'[i] # call'[t].key
      BY <3>1, <3>2 DEF RemSearchOk, RemPassed, RemSameView
    <3> QED BY <3>1, <3>3 DEF RemSearchOk
  <2> QED
    BY <2>1, <2>2, <2>4, <2>5, <2>7, <2>8, <2>9, <2>10 DEF RemPutStep
<1> QED BY <1>1, <1>2 DEF RemSearches

(* A put that commits has found its key absent.                            *)
LEMMA RemFoundAbsent ==
  ASSUME RemPuts, NEW t \in Threads, RemCommitted(t)
  PROVE  /\ \A i \in RemSlots : RemVisible(i) => key[i] # call[t].key
         /\ key[slot[t]] = call[t].key /\ val[slot[t]] = call[t].val
         /\ call[t].op = "put" /\ call[t].key \in Keys
         /\ call[t].val \in Rem!B!Vals
<1>1. /\ pc[t] = "commit" /\ slot[t] \in RemSlots /\ RemBase
      /\ snap[t].version = word.version
      /\ \A i \in RemSlots : i # slot[t] => word.map[i] = snap[t].map[i]
  BY DEF RemCommitted, RemPuts
<1>2. RemFills(t, slot[t]) /\ call[t].op = "put" /\ slot[t] # 0
  BY <1>1, RemSlotFacts, RemNames DEF RemPutting
<1>3. RemWorking(t)
  BY <1>1, <1>2 DEF RemWorking
<1>4. snap[t].map[slot[t]] \notin Rem!Visible
  BY <1>2, <1>3 DEF RemPuts, RemSnapshots, RemSnapshotOk
<1>5. RemFresh(t)
  BY <1>1, <1>3, <1>4 DEF RemFresh, RemVisible
<1>6. RemSearchOk(t)
  BY <1>5 DEF RemPuts, RemSearches
<1>7. \A i \in RemSlots : RemVisible(i) => key[i] # call[t].key
  BY <1>1, <1>6 DEF RemSearchOk, RemPassed
<1>8. key[slot[t]] = call[t].key /\ val[slot[t]] = call[t].val
  BY <1>1, <1>2 DEF RemPuts, RemFilling, RemFilled, RemWriting
<1>9. call[t].key \in Keys /\ call[t].val \in Rem!B!Vals
  BY <1>1, <1>2, RemTypeFacts, RemCallTypes
<1> QED BY <1>2, <1>7, <1>8, <1>9

(* So has one that claims its slot.                                        *)
LEMMA RemClaimAbsent ==
  ASSUME RemPuts, NEW t \in Threads, RemClaimed(t)
  PROVE  /\ \A i \in RemSlots : RemVisible(i) => key[i] # call[t].key
         /\ call[t].key \in Keys
<1>1. /\ pc[t] = "claim" /\ RemBase /\ word = snap[t]
  BY DEF RemClaimed, RemPuts
<1>2. call[t].op = "put"
  BY <1>1, RemTypeFacts DEF RemControl, RemPutting
<1>3. RemFresh(t)
  BY <1>1, <1>2 DEF RemFresh, RemWorking, RemVisible
<1>4. RemSearchOk(t)
  BY <1>3 DEF RemPuts, RemSearches
<1>5. \A i \in RemSlots : RemVisible(i) => key[i] # call[t].key
  BY <1>1, <1>4 DEF RemSearchOk, RemPassed
<1>6. call[t].key \in Keys
  BY <1>1, <1>2, RemTypeFacts, RemCallTypes
<1> QED BY <1>5, <1>6

LEMMA RemUniqueStep ==
  ASSUME RemPuts, NEW t \in Threads, RemStep(t)
  PROVE  RemUnique'
<1>1. RemSeesStep(t) /\ RemUnique
  BY RemVisibleStep DEF RemPuts
<1>2. CASE ~RemCommitted(t)
  BY <1>1, <1>2 DEF RemSeesStep, RemUnique
<1>3. CASE RemCommitted(t)
  <2>1. /\ \A i \in RemSlots : RemVisible(i) => key[i] # call[t].key
        /\ key[slot[t]] = call[t].key /\ key' = key
    BY <1>1, <1>3, RemFoundAbsent DEF RemSeesStep
  <2>2. \A i \in RemSlots : RemVisible(i)' => RemVisible(i) \/ i = slot[t]
    BY <1>1 DEF RemSeesStep
  <2> QED BY <1>1, <2>1, <2>2 DEF RemUnique
<1> QED BY <1>2, <1>3

-----------------------------------------------------------------------------
LEMMA RemStoreType ==
  val \in [RemSlots -> RemValues]
    => Rem!Store \in [Keys -> Rem!B!Vals \cup {Rem!B!NoVal}]
<1> SUFFICES ASSUME val \in [RemSlots -> RemValues], NEW k \in Keys
             PROVE  Rem!Store[k] \in Rem!B!Vals \cup {Rem!B!NoVal}
  BY DEF Rem!Store
<1>1. Rem!Entry(k) \subseteq RemSlots
  BY RemNames DEF Rem!Entry
<1>2. CASE Rem!Entry(k) = {}
  BY <1>2 DEF Rem!Store
<1>3. CASE Rem!Entry(k) # {}
  <2>1. (CHOOSE i \in Rem!Entry(k) : TRUE) \in RemSlots
    BY <1>1, <1>3
  <2> QED BY <1>3, <2>1 DEF Rem!Store, RemValues
<1> QED BY <1>2, <1>3

LEMMA RemBaseStep ==
  ASSUME RemBase, NEW t \in Threads, RemStep(t)
  PROVE  RemBase'
<1>1. RemGood(t) /\ RemInv'
  <2>1. RemGood(t)
    BY RemStepGood
  <2>2. \A i \in RemSlots : RemHeld(i)'
    BY <2>1, RemHeldStep DEF RemGood, RemBase
  <2>3. \A u \in Threads : RemControl(u)'
    BY <2>1 DEF RemGood, RemOthers, RemControl, RemBase, RemInv
  <2> QED BY <2>1, <2>2, <2>3 DEF RemGood, RemInv
<1>2. \A u \in Threads : RemOp(u)'
  <2>1. ASSUME NEW u \in Threads, u # t PROVE RemOp(u)'
    <3>1. RemOp(u) /\ pc'[u] = pc[u] /\ call'[u] = call[u]
          /\ slot'[u] = slot[u] /\ idx'[u] = idx[u]
      BY <1>1, <2>1 DEF RemGood, RemOthers, RemBase
    <3> QED BY <3>1 DEF RemOp
  <2> QED BY <2>1, RemOpStep
<1>3. RemFields'
  <2>1. key' \in [RemSlots -> Keys \cup {NoKey}]
    <3>1. key \in [RemSlots -> Keys \cup {NoKey}]
          /\ call[t].key \in Keys \cup {NoKey}
      BY RemTypeFacts, RemCallTypes DEF RemBase, RemFields
    <3> QED
      BY <3>1, RemKinds
      DEF RemKind, RemQuietStep, RemClaimed, RemWroteVal, RemWroteKey,
          RemCommitted, RemReleasedStep, RemMarked, RemFreed, RemUndone
  <2>2. cur' \in [Threads -> Rem!B!Vals \cup {Rem!B!NoVal}]
    BY RemCallEffect
    DEF RemProceeds, RemBegins, RemBase, RemFields, RemValues
  <2>3. seen' \in [Threads -> SUBSET (Rem!B!Vals \cup {Rem!B!NoVal})]
    <3>1. (val \in [RemSlots -> RemValues]
             => Rem!Store \in [Keys -> Rem!B!Vals \cup {Rem!B!NoVal}])'
      BY RemStoreType, PTL
    <3>2. Rem!Store' \in [Keys -> Rem!B!Vals \cup {Rem!B!NoVal}]
      BY <1>1, <3>1 DEF RemInv, RemType, RemValues
    <3>3. \A u \in Threads : call'[u] # Rem!B!Idle => call'[u].key \in Keys
      BY <1>1, RemCallTypes DEF RemInv, RemType
    <3>4. seen \in [Threads -> SUBSET (Rem!B!Vals \cup {Rem!B!NoVal})]
      BY DEF RemBase, RemFields
    <3>5. seen' = [u \in Threads |->
                     IF call'[u] = Rem!B!Idle THEN {}
                     ELSE seen[u] \cup {Rem!Store'[call'[u].key]}]
      BY DEF RemStep, Rem!Observe
    <3> HIDE DEF Rem!Store
    <3> QED BY <3>2, <3>3, <3>4, <3>5
  <2> QED BY <2>1, <2>2, <2>3 DEF RemFields
<1> QED BY <1>1, <1>2, <1>3 DEF RemBase

LEMMA RemPutsStep ==
  ASSUME RemPuts, NEW t \in Threads, RemStep(t)
  PROVE  RemPuts'
<1>1. RemBase /\ RemFilling /\ RemPutsDiffer /\ RemVersions /\ RemSnapshots
  BY DEF RemPuts
<1> QED
  BY <1>1, RemBaseStep, RemFillingStep, RemVersionStep, RemSnapshotStep,
     RemSearchesStep, RemUniqueStep DEF RemPuts

LEMMA RemPutsInit == Rem!Init => RemPuts
<1> SUFFICES ASSUME Rem!Init PROVE RemPuts
  OBVIOUS
<1> USE RemStatesApart
<1>1. RemInv
  BY RemInitInv
<1>2. /\ word = Rem!B!Free /\ key = [i \in RemSlots |-> NoKey]
      /\ \A t \in Threads : /\ pc[t] = "idle" /\ call[t] = Rem!B!Idle
                            /\ slot[t] = 0 /\ idx[t] = 1
      /\ puts = 0 /\ cur = [t \in Threads |-> Rem!B!NoVal]
      /\ seen = [t \in Threads |-> {}]
  BY RemNames DEF Rem!Init, Rem!B!Init
<1>3. Rem!B!Idle.op = "none"
  BY RemCallTypes
<1>4. \A i \in RemSlots : ~RemVisible(i)
  BY <1>2, RemNames DEF RemVisible, Rem!B!Free
<1>5. \A t \in Threads, i \in RemSlots : ~RemFills(t, i)
  BY <1>2, RemNames DEF RemFills
<1>6. RemFields
  BY <1>2 DEF RemFields
<1>7. \A t \in Threads : RemOp(t)
  BY <1>2, <1>3 DEF RemOp, RemSearching, RemLooking, Rem!Marking
<1>8. RemPutsDiffer /\ RemPendingVals = {}
  BY <1>2, <1>3 DEF RemPutsDiffer, RemPendingVals, RemPut
<1>9. RemVersions
  <2>1. Cardinality(RemPendingVals) = 0
    BY <1>8, FS_EmptySet
  <2>2. word.version = 0
    BY <1>2 DEF Rem!B!Free
  <2> QED BY <1>2, <2>1, <2>2 DEF RemVersions
<1>10. \A t \in Threads : ~RemWorking(t)
  BY <1>2 DEF RemWorking
<1> QED
  BY <1>1, <1>4, <1>5, <1>6, <1>7, <1>8, <1>9, <1>10
  DEF RemPuts, RemBase, RemFilling, RemSnapshots, RemSearches, RemFresh,
      RemUnique

-----------------------------------------------------------------------------
(* The map that the bucket stands for.                                     *)

RemPresent(i, k) == RemVisible(i) /\ key[i] = k
RemStoreTyped == Rem!Store \in [Keys -> RemValues]
RemStoreFacts ==
  \A k \in Keys :
    /\ \A i \in RemSlots :
         RemPresent(i, k) => /\ Rem!Store[k] = val[i]
                             /\ Rem!Store[k] # Rem!B!NoVal
    /\ (\A i \in RemSlots : ~RemPresent(i, k)) => Rem!Store[k] = Rem!B!NoVal

LEMMA RemStoreIs == RemPuts => RemStoreTyped /\ RemStoreFacts
<1> SUFFICES ASSUME RemPuts PROVE RemStoreTyped /\ RemStoreFacts
  OBVIOUS
<1>1. RemStoreTyped
  BY RemStoreType
  DEF RemStoreTyped, RemValues, RemPuts, RemBase, RemInv, RemType
<1>2. \A k \in Keys : Rem!Entry(k) = {i \in RemSlots : RemPresent(i, k)}
  BY RemNames DEF Rem!Entry, RemPresent, RemVisible
<1>3. ASSUME NEW k \in Keys, NEW i \in RemSlots, RemPresent(i, k)
      PROVE  Rem!Store[k] = val[i] /\ Rem!Store[k] # Rem!B!NoVal
  <2> DEFINE j == CHOOSE n \in Rem!Entry(k) : TRUE
  <2>1. j \in Rem!Entry(k)
    BY <1>2, <1>3
  <2>2. j = i
    BY <1>2, <1>3, <2>1 DEF RemPuts, RemUnique, RemPresent
  <2>3. Rem!Store[k] = val[j]
    BY <2>1 DEF Rem!Store
  <2>4. val[i] # Rem!B!NoVal
    BY <1>3 DEF RemPuts, RemFilling, RemPresent
  <2> QED BY <2>2, <2>3, <2>4
<1>4. ASSUME NEW k \in Keys, \A i \in RemSlots : ~RemPresent(i, k)
      PROVE  Rem!Store[k] = Rem!B!NoVal
  BY <1>2, <1>4 DEF Rem!Store
<1> QED BY <1>1, <1>3, <1>4 DEF RemStoreFacts

LEMMA RemStoreNext ==
  ASSUME RemPuts, NEW t \in Threads, RemStep(t)
  PROVE  /\ RemStoreTyped /\ RemStoreFacts
         /\ RemStoreTyped' /\ RemStoreFacts'
<1>1. (RemPuts => RemStoreTyped /\ RemStoreFacts)'
  BY RemStoreIs, PTL
<1> QED BY <1>1, RemPutsStep, RemStoreIs

LEMMA RemStoreKept ==
  ASSUME RemStoreFacts, RemStoreFacts', NEW k \in Keys,
         \A i \in RemSlots : RemPresent(i, k)' <=> RemPresent(i, k),
         \A i \in RemSlots : RemPresent(i, k) => val'[i] = val[i]
  PROVE  Rem!Store'[k] = Rem!Store[k]
<1>1. CASE \E i \in RemSlots : RemPresent(i, k)
  <2>1. PICK i \in RemSlots : RemPresent(i, k)
    BY <1>1
  <2>2. Rem!Store[k] = val[i] /\ Rem!Store'[k] = val'[i]
    BY <2>1 DEF RemStoreFacts
  <2> QED BY <2>1, <2>2
<1>2. CASE \A i \in RemSlots : ~RemPresent(i, k)
  BY <1>2 DEF RemStoreFacts
<1> QED BY <1>1, <1>2

(* What a remove knows of the slot that it has marked or is going to mark. *)
RemAbsent(t) == Rem!B!NoVal \in seen[t]
RemMarkOk(t) ==
  /\ pc[t] \in {"rem_mark", "rem_check"}
       => RemAbsent(t) \/ RemPresent(idx[t], call[t].key)
  /\ pc[t] = "rem_undo" => RemAbsent(t)
  /\ pc[t] \in {"rem_take", "rem_free"} => key[idx[t]] = call[t].key
  /\ pc[t] = "rem_free" => val[idx[t]] = cur[t]

(* The key of t is mapped to v, and no other key is mapped anew.           *)
RemStoreSet(t, v) ==
  /\ Rem!Store'[call[t].key] = v
  /\ \A k \in Keys \ {call[t].key} : Rem!Store'[k] = Rem!Store[k]

LEMMA RemFreedFacts ==
  ASSUME RemPuts, NEW t \in Threads, RemMarkOk(t), RemStep(t), RemFreed(t)
  PROVE  /\ call[t].key \in Keys /\ call[t].op = "remove"
         /\ RemPresent(idx[t], call[t].key) /\ val[idx[t]] = cur[t]
<1>1. pc[t] = "rem_free" /\ RemBase /\ idx[t] \in RemSlots
  BY RemTypeFacts DEF RemFreed, RemPuts
<1>2. RemVisible(idx[t])
  BY <1>1, RemStatesApart DEF RemFreed, RemVisible
<1>3. key[idx[t]] = call[t].key /\ val[idx[t]] = cur[t]
  BY <1>1 DEF RemMarkOk
<1>4. call[t].op = "remove"
  BY <1>1, RemTypeFacts DEF RemOp, Rem!Marking
<1>5. call[t].key \in Keys
  BY <1>1, <1>4, RemTypeFacts, RemCallTypes
<1> QED BY <1>2, <1>3, <1>4, <1>5 DEF RemPresent

LEMMA RemStoreStep ==
  ASSUME RemPuts, NEW t \in Threads, RemMarkOk(t), RemStep(t)
  PROVE  /\ ~RemCommitted(t) /\ ~RemFreed(t) => Rem!Store' = Rem!Store
         /\ RemCommitted(t) => /\ Rem!Store[call[t].key] = Rem!B!NoVal
                               /\ RemStoreSet(t, call[t].val)
         /\ RemFreed(t) => /\ Rem!Store[call[t].key] = cur[t]
                           /\ cur[t] # Rem!B!NoVal
                           /\ RemStoreSet(t, Rem!B!NoVal)
<1>1. /\ RemStoreTyped /\ RemStoreFacts /\ RemStoreTyped' /\ RemStoreFacts'
      /\ RemSeesStep(t) /\ RemUnique /\ slot[t] \in RemSlots \cup {0}
      /\ idx[t] \in RemSlots
  BY RemStoreNext, RemVisibleStep, RemTypeFacts DEF RemPuts
<1>2. ASSUME ~RemCommitted(t), ~RemFreed(t) PROVE Rem!Store' = Rem!Store
  <2>1. ASSUME NEW k \in Keys PROVE Rem!Store'[k] = Rem!Store[k]
    <3>1. \A i \in RemSlots : RemPresent(i, k)' <=> RemPresent(i, k)
      BY <1>1, <1>2 DEF RemSeesStep, RemPresent
    <3>2. \A i \in RemSlots : RemPresent(i, k) => val'[i] = val[i]
      BY <1>1 DEF RemSeesStep, RemPresent
    <3> QED BY <1>1, <3>1, <3>2, RemStoreKept
  <2> QED BY <1>1, <2>1 DEF RemStoreTyped
<1>3. ASSUME RemCommitted(t)
      PROVE  /\ Rem!Store[call[t].key] = Rem!B!NoVal
             /\ RemStoreSet(t, call[t].val)
  <2>0. PICK j \in RemSlots, k0 \in Keys : j = slot[t] /\ k0 = call[t].key
    BY <1>3, RemFoundAbsent DEF RemCommitted
  <2>1. /\ \A i \in RemSlots : ~RemPresent(i, k0)
        /\ key[j] = k0 /\ val[j] = call[t].val /\ key' = key /\ val' = val
    BY <1>1, <1>3, <2>0, RemFoundAbsent DEF RemSeesStep, RemPresent
  <2>2. /\ RemVisible(j)' /\ ~RemVisible(j) /\ ~RemFreed(t)
        /\ \A i \in RemSlots \ {j} : RemVisible(i)' <=> RemVisible(i)
    <3>1. ~RemFreed(t)
      BY <1>3 DEF RemCommitted, RemFreed
    <3> QED BY <1>1, <1>3, <2>0, <3>1 DEF RemSeesStep
  <2>3. Rem!Store[k0] = Rem!B!NoVal
    BY <1>1, <2>1 DEF RemStoreFacts
  <2>4. Rem!Store'[k0] = call[t].val
    <3>1. RemPresent(j, k0)' /\ val'[j] = call[t].val
      BY <2>1, <2>2 DEF RemPresent
    <3> QED BY <1>1, <3>1 DEF RemStoreFacts
  <2>5. ASSUME NEW k \in Keys \ {k0} PROVE Rem!Store'[k] = Rem!Store[k]
    <3>1. \A i \in RemSlots : RemPresent(i, k)' <=> RemPresent(i, k)
      BY <2>1, <2>2 DEF RemPresent
    <3> QED BY <1>1, <2>1, <3>1, RemStoreKept
  <2> QED BY <2>0, <2>3, <2>4, <2>5 DEF RemStoreSet
<1>4. ASSUME RemFreed(t)
      PROVE  /\ Rem!Store[call[t].key] = cur[t] /\ cur[t] # Rem!B!NoVal
             /\ RemStoreSet(t, Rem!B!NoVal)
  <2>0. PICK j \in RemSlots, k0 \in Keys : j = idx[t] /\ k0 = call[t].key
    BY <1>1, <1>4, RemFreedFacts
  <2>1. /\ RemPresent(j, k0) /\ val[j] = cur[t] /\ key' = key /\ val' = val
    BY <1>1, <1>4, <2>0, RemFreedFacts DEF RemSeesStep
  <2>2. /\ ~RemVisible(j)' /\ ~RemCommitted(t)
        /\ \A i \in RemSlots \ {j} : RemVisible(i)' <=> RemVisible(i)
    <3>1. ~RemCommitted(t)
      BY <1>4 DEF RemCommitted, RemFreed
    <3> QED BY <1>1, <1>4, <2>0, <3>1 DEF RemSeesStep
  <2>3. \A i \in RemSlots : RemPresent(i, k0) => i = j
    BY <1>1, <2>1 DEF RemPresent, RemUnique
  <2>4. Rem!Store[k0] = cur[t] /\ cur[t] # Rem!B!NoVal
    BY <1>1, <2>1 DEF RemStoreFacts
  <2>5. Rem!Store'[k0] = Rem!B!NoVal
    <3>1. \A i \in RemSlots : ~RemPresent(i, k0)'
      BY <2>1, <2>2, <2>3 DEF RemPresent
    <3> QED BY <1>1, <3>1 DEF RemStoreFacts
  <2>6. ASSUME NEW k \in Keys \ {k0} PROVE Rem!Store'[k] = Rem!Store[k]
    <3>1. \A i \in RemSlots : RemPresent(i, k)' <=> RemPresent(i, k)
      BY <2>1, <2>2 DEF RemPresent
    <3> QED BY <1>1, <2>1, <3>1, RemStoreKept
  <2> QED BY <2>0, <2>4, <2>5, <2>6 DEF RemStoreSet
<1> QED BY <1>2, <1>3, <1>4

-----------------------------------------------------------------------------
(* The values of the puts are all different.                               *)

(* A put whose value no other thread can have met yet.                     *)
RemUnwritten(t) ==
  call[t].op = "put" /\ (slot[t] = 0 \/ pc[t] \in {"claim", "write_val"})
RemNewValue(t) ==
  RemUnwritten(t) => /\ \A i \in RemSlots : val[i] # call[t].val
                     /\ \A u \in Threads : cur[u] # call[t].val
RemNewValues ==
  /\ \A i \in RemSlots : val[i] <= puts
  /\ \A t \in Threads : cur[t] <= puts
  /\ \A t \in Threads : RemNewValue(t)

LEMMA RemValWritten ==
  ASSUME RemBase, NEW t \in Threads, RemStep(t)
  PROVE  val' = val \/ (RemWroteVal(t) /\ call[t].op = "put")
<1>1. RemWroteVal(t) => call[t].op = "put"
  BY RemTypeFacts DEF RemWroteVal, RemControl, RemPutting
<1> QED
  BY <1>1, RemKinds
  DEF RemKind, RemQuietStep, RemClaimed, RemWroteKey, RemCommitted,
      RemReleasedStep, RemMarked, RemFreed, RemUndone

(* Once its value is written, a put does not write it again.               *)
LEMMA RemWrittenOnce ==
  ASSUME RemBase, NEW t \in Threads, RemStep(t), RemUnwritten(t)',
         ~RemBegins(t)
  PROVE  RemUnwritten(t) /\ call'[t] = call[t] /\ val' = val
<1>1. call'[t] = call[t] /\ call[t].op = "put"
  BY RemCallEffect, RemCallTypes DEF RemProceeds, RemUnwritten
<1>2. slot[t] \in RemSlots \cup {0}
  BY RemTypeFacts
<1>3. ~RemWroteVal(t)
  <2> SUFFICES ASSUME RemWroteVal(t) PROVE FALSE
    OBVIOUS
  <2>1. slot'[t] = slot[t] /\ slot[t] # 0 /\ pc'[t] = "write_key"
    BY RemNames DEF RemWroteVal
  <2> QED BY <2>1 DEF RemUnwritten
<1>4. val' = val
  BY <1>3, RemValWritten
<1>5. ASSUME slot[t] # 0, pc[t] \notin {"claim", "write_val"}
      PROVE  FALSE
  <2>1. PICK i \in RemSlots : i = slot[t]
    BY <1>2, <1>5
  <2>2. RemFills(t, i)
    BY <1>5, <2>1 DEF RemFills
  <2>3. CASE RemQuietStep(t)
    <3>1. slot'[t] = i /\ pc'[t] \notin {"claim", "write_val"}
      BY <2>2, <2>3 DEF RemQuietStep, RemFills, RemWriting
    <3> QED BY <1>5, <2>1, <3>1 DEF RemUnwritten
  <2>4. CASE RemWroteKey(t)
    BY <1>5, <2>4 DEF RemWroteKey, RemUnwritten
  <2>5. CASE RemCommitted(t) \/ RemReleasedStep(t) \/ RemFreed(t)
             \/ RemUndone(t)
    <3>1. call'[t] = Rem!B!Idle
      BY <2>5, RemReturnOp
      DEF RemCommitted, RemReleasedStep, RemFreed, RemUndone
    <3> QED BY <1>1, <3>1, RemCallTypes
  <2>6. ~RemClaimed(t) /\ ~RemMarked(t)
    BY <1>1, <1>5, RemSlotFacts DEF RemClaimed, RemMarked
  <2> QED BY <1>3, <2>3, <2>4, <2>5, <2>6, RemKinds DEF RemKind
<1> QED BY <1>1, <1>4, <1>5 DEF RemUnwritten

LEMMA RemNewValuesStep ==
  ASSUME RemPuts, RemNewValues, NEW t \in Threads, RemStep(t)
  PROVE  RemNewValues'
<1>0. RemBase /\ RemPutsDiffer
  BY DEF RemPuts
<1>1. /\ puts \in Nat /\ puts' \in Nat /\ puts <= MapPuts /\ MapPuts \in Nat
      /\ \A u \in Threads : cur[u] \in Nat /\ cur'[u] \in Nat
                            /\ call[u] \in Rem!B!Calls
      /\ \A i \in RemSlots : val[i] \in Nat /\ val'[i] \in Nat
      /\ idx[t] \in RemSlots /\ Rem!B!NoVal = 0
  <2>1. RemBase'
    BY <1>0, RemBaseStep
  <2> QED
    BY <1>0, <2>1, MapBounds, RemStatesApart, RemTypeFacts
    DEF RemBase, RemInv, RemType, RemFields
<1>2. /\ RemLeavesAlone(t)
      /\ RemProceeds(t) \/ RemBegins(t)
      /\ val' = val \/ (RemWroteVal(t) /\ call[t].op = "put")
  BY <1>0, RemStepOthers, RemCallEffect, RemValWritten
<1>3. /\ \A i \in RemSlots : val'[i] \in {val[i], call[t].val}
      /\ \A i \in RemSlots : val'[i] = val[i] \/ call[t].op = "put"
      /\ cur'[t] \in {cur[t], 0, val[idx[t]]} /\ puts <= puts'
  <2>1. \A i \in RemSlots : \/ val'[i] = val[i]
                            \/ val'[i] = call[t].val /\ call[t].op = "put"
    BY <1>0, <1>2 DEF RemWroteVal, RemBase, RemInv, RemType
  <2>2. cur'[t] \in {cur[t], 0, val[idx[t]]} /\ puts <= puts'
    BY <1>1, <1>2 DEF RemProceeds, RemBegins
  <2> QED BY <2>1, <2>2
<1>4. \A i \in RemSlots : val'[i] <= puts'
  <2> SUFFICES ASSUME NEW i \in RemSlots PROVE val'[i] <= puts'
    OBVIOUS
  <2>1. val'[i] <= puts
    BY <1>0, <1>3 DEF RemNewValues, RemPutsDiffer
  <2> QED BY <1>1, <1>3, <2>1
<1>5. \A u \in Threads : cur'[u] <= puts'
  <2> SUFFICES ASSUME NEW u \in Threads PROVE cur'[u] <= puts'
    OBVIOUS
  <2>1. cur'[u] <= puts
    <3>1. 0 <= puts /\ cur[u] <= puts /\ val[idx[t]] <= puts
      BY <1>1 DEF RemNewValues
    <3> QED BY <1>2, <1>3, <3>1 DEF RemLeavesAlone
  <2> QED BY <1>1, <1>3, <2>1
<1>6. ASSUME NEW u \in Threads, u # t, RemUnwritten(u)'
      PROVE  RemNewValue(u)'
  <2>1. call'[u] = call[u] /\ slot'[u] = slot[u] /\ pc'[u] = pc[u]
    BY <1>2, <1>6 DEF RemLeavesAlone
  <2>2. RemUnwritten(u) /\ RemNewValue(u)
    BY <1>6, <2>1 DEF RemUnwritten, RemNewValues
  <2>3. call[u].val \in 1 .. MapPuts /\ call[u].op = "put"
    BY <1>1, <2>2, RemCallTypes, RemStatesApart DEF RemUnwritten
  <2>4. call[t].op = "put" => call[t].val # call[u].val
    BY <1>0, <1>6, <2>3 DEF RemPutsDiffer, RemPut
  <2>5. \A i \in RemSlots : val'[i] # call[u].val
    BY <1>3, <2>2, <2>4 DEF RemNewValue
  <2>6. \A w \in Threads : cur'[w] # call[u].val
    <3>1. call[u].val # 0
      BY <2>3
    <3>2. \A w \in Threads : cur'[w] \in {cur[w], 0, val[idx[t]]}
      BY <1>2, <1>3 DEF RemLeavesAlone
    <3> QED BY <1>1, <2>2, <3>1, <3>2 DEF RemNewValue
  <2> QED BY <2>1, <2>5, <2>6 DEF RemNewValue
<1>7. ASSUME RemUnwritten(t)' PROVE RemNewValue(t)'
  <2>1. CASE ~RemBegins(t)
    <3>1. RemUnwritten(t) /\ call'[t] = call[t] /\ val' = val
      BY <1>0, <1>7, <2>1, RemWrittenOnce
    <3>2. RemNewValue(t)
      BY DEF RemNewValues
    <3>3. call[t].val # 0
      BY <1>1, <3>1, RemCallTypes, RemStatesApart DEF RemUnwritten
    <3>4. \A w \in Threads : cur'[w] \in {cur[w], 0, val[idx[t]]}
      BY <1>2, <1>3 DEF RemLeavesAlone
    <3> QED BY <1>1, <3>1, <3>2, <3>3, <3>4 DEF RemNewValue
  <2>2. CASE RemBegins(t)
    <3>1. /\ call'[t].val = puts + 1 /\ val' = val /\ cur' = cur
      BY <1>7, <2>2 DEF RemBegins, RemUnwritten
    <3>2. \A n \in Nat : n <= puts => n # puts + 1
      BY <1>1
    <3>3. /\ \A i \in RemSlots : val[i] # puts + 1
          /\ \A u \in Threads : cur[u] # puts + 1
      BY <1>1, <3>2 DEF RemNewValues
    <3> QED BY <3>1, <3>3 DEF RemNewValue
  <2> QED BY <2>1, <2>2
<1>8. \A u \in Threads : RemNewValue(u)'
  BY <1>6, <1>7 DEF RemNewValue
<1> QED BY <1>4, <1>5, <1>8 DEF RemNewValues

-----------------------------------------------------------------------------
(* What the calls have seen of the map.                                    *)

RemAgain == {"search_again", "rem_again"}

RemObservedOk(t) ==
  IF call[t] = Rem!B!Idle THEN seen[t] = {}
                          ELSE Rem!Store[call[t].key] \in seen[t]

(* A scan has not passed the key, or has seen it absent.                   *)
RemAhead(t) ==
  RemAbsent(t) \/ \E j \in RemSlots : /\ j >= idx[t]
                                      /\ RemPresent(j, call[t].key)

(* The value is read; the slot is filled with the key meanwhile.           *)
RemValOk(t, i) ==
  val[i] # cur[t] /\ RemPresent(i, call[t].key) => RemAbsent(t)

(* Then the slot was visible; it may be freed, claimed and filled again.   *)
RemReadOk(t, i) ==
  /\ val[i] = cur[t] /\ key[i] = call[t].key
       => cur[t] \in seen[t] /\ (RemVisible(i) \/ RemAbsent(t))
  /\ val[i] # cur[t] /\ (key[i] = call[t].key \/ pc[t] \in RemAgain)
       => RemAbsent(t)
  /\ val[i] = cur[t] /\ pc[t] \in RemAgain => key[i] = call[t].key
  /\ \A u \in Threads : RemFills(u, i) =>
       /\ call[u].key = call[t].key => RemAbsent(t)
       /\ val[i] = cur[t] => pc[u] = "write_val"

RemCallOk(t) ==
  /\ RemObservedOk(t)
  /\ pc[t] \in RemSearching => RemAhead(t)
  /\ pc[t] \in RemLooking => met[t] \/ RemAhead(t)
  /\ pc[t] \in {"search_map", "rem_map"} => RemValOk(t, idx[t])
  /\ pc[t] \in {"search_key", "rem_key"} \cup RemAgain
       => RemReadOk(t, idx[t])
  /\ pc[t] = "release" => \E v \in seen[t] : v # Rem!B!NoVal
  /\ RemMarkOk(t)

RemLinear == RemPuts /\ RemNewValues /\ \A t \in Threads : RemCallOk(t)

(* What a step makes of one slot.                                          *)
RemSlotKept(i) ==
  /\ RemVisible(i)' <=> RemVisible(i)
  /\ val'[i] = val[i] /\ key'[i] = key[i]
  /\ \A u \in Threads :
       /\ RemFills(u, i)' <=> RemFills(u, i)
       /\ RemFills(u, i) => /\ call'[u].key = call[u].key
                            /\ pc'[u] = "write_val" <=> pc[u] = "write_val"
RemSlotFilled(t, i) ==
  /\ slot[t] = i
  /\ \/ RemClaimed(t) \/ RemWroteVal(t) \/ RemWroteKey(t)
     \/ RemCommitted(t) \/ RemReleasedStep(t)

LEMMA RemSlotStep ==
  ASSUME RemBase, NEW t \in Threads, RemStep(t), NEW i \in RemSlots
  PROVE  \/ RemSlotKept(i) \/ RemSlotFilled(t, i)
         \/ RemFreed(t) /\ idx[t] = i
<1>1. RemSeesStep(t) /\ RemLeavesAlone(t)
      /\ val \in [RemSlots -> RemValues]
      /\ key \in [RemSlots -> Keys \cup {NoKey}]
  BY RemVisibleStep, RemStepOthers
  DEF RemBase, RemInv, RemType, RemFields, RemValues
<1>2. \A u \in Threads \ {t} :
        /\ RemFills(u, i)' <=> RemFills(u, i)
        /\ call'[u].key = call[u].key
        /\ pc'[u] = "write_val" <=> pc[u] = "write_val"
  BY <1>1 DEF RemLeavesAlone, RemFills
<1>3. CASE RemQuietStep(t)
  <2>1. /\ RemVisible(i)' <=> RemVisible(i)
        /\ val'[i] = val[i] /\ key'[i] = key[i]
    BY <1>3 DEF RemQuietStep, RemVisible
  <2>2. /\ RemFills(t, i)' <=> RemFills(t, i)
        /\ RemFills(t, i) => call'[t].key = call[t].key
        /\ pc'[t] # "write_val" /\ pc[t] # "write_val"
    BY <1>3 DEF RemQuietStep, RemWriting
  <2> QED BY <1>2, <2>1, <2>2 DEF RemSlotKept
<1>4. ASSUME RemVisible(i)' <=> RemVisible(i),
             val'[i] = val[i], key'[i] = key[i],
             ~RemFills(t, i), ~RemFills(t, i)'
      PROVE  RemSlotKept(i)
  BY <1>2, <1>4 DEF RemSlotKept
<1>5. CASE /\ slot[t] # i
           /\ \/ RemClaimed(t) \/ RemWroteVal(t) \/ RemWroteKey(t)
              \/ RemCommitted(t) \/ RemReleasedStep(t)
  <2>1. val'[i] = val[i] /\ key'[i] = key[i]
    BY <1>1, <1>5
    DEF RemClaimed, RemWroteVal, RemWroteKey, RemCommitted, RemReleasedStep
  <2>2. ~RemFreed(t)
    BY <1>5 DEF RemFreed, RemClaimed, RemWroteVal, RemWroteKey, RemCommitted,
                RemReleasedStep
  <2>3. RemVisible(i)' <=> RemVisible(i)
    BY <1>1, <1>5, <2>2 DEF RemSeesStep
  <2>4. slot'[t] # i
    <3>1. CASE RemCommitted(t) \/ RemReleasedStep(t)
      BY <3>1, RemReturnOp, RemNames DEF RemCommitted, RemReleasedStep
    <3>2. CASE RemClaimed(t) \/ RemWroteVal(t) \/ RemWroteKey(t)
      BY <1>5, <3>2 DEF RemClaimed, RemWroteVal, RemWroteKey
    <3> QED BY <1>5, <3>1, <3>2
  <2> QED BY <1>4, <1>5, <2>1, <2>3, <2>4 DEF RemFills
<1>6. CASE \/ RemMarked(t) \/ RemUndone(t)
           \/ RemFreed(t) /\ idx[t] # i
  <2>1. val'[i] = val[i] /\ key'[i] = key[i] /\ ~RemCommitted(t)
        /\ slot[t] = 0
    BY <1>6, RemSlotFacts
    DEF RemMarked, RemUndone, RemFreed, RemCommitted, Rem!Marking
  <2>2. RemVisible(i)' <=> RemVisible(i)
    <3>1. RemFreed(t) => idx[t] # i
      BY <1>6 DEF RemMarked, RemUndone, RemFreed
    <3> QED BY <1>1, <2>1, <3>1 DEF RemSeesStep
  <2>3. slot'[t] = 0
    <3>1. CASE RemMarked(t)
      BY <2>1, <3>1 DEF RemMarked
    <3>2. CASE RemUndone(t) \/ RemFreed(t)
      BY <3>2, RemReturnOp DEF RemUndone, RemFreed
    <3> QED BY <1>6, <3>1, <3>2
  <2> QED BY <1>4, <2>1, <2>2, <2>3, RemNames DEF RemFills
<1> QED
  BY <1>3, <1>5, <1>6, RemKinds DEF RemKind, RemSlotFilled

-----------------------------------------------------------------------------
(* The step of one thread seen from the call of another.                   *)

LEMMA RemSeenStep ==
  ASSUME NEW t \in Threads, RemStep(t), NEW u \in Threads
  PROVE  /\ RemObservedOk(u)'
         /\ call'[u] = call[u] /\ call[u] # Rem!B!Idle =>
              /\ \A v \in seen[u] : v \in seen'[u]
              /\ Rem!Store'[call[u].key] \in seen'[u]
              /\ RemAbsent(u) => RemAbsent(u)'
<1>1. seen' = [w \in Threads |->
                 IF call'[w] = Rem!B!Idle THEN {}
                 ELSE seen[w] \cup {Rem!Store'[call'[w].key]}]
  BY DEF RemStep, Rem!Observe
<1>2. call'[u] = Rem!B!Idle => seen'[u] = {}
  BY <1>1
<1>3. call'[u] # Rem!B!Idle
        => seen'[u] = seen[u] \cup {Rem!Store'[call'[u].key]}
  BY <1>1
<1>4. Rem!B!Idle' = Rem!B!Idle
  BY DEF Rem!B!Idle
<1>5. RemObservedOk(u)'
  BY <1>2, <1>3, <1>4 DEF RemObservedOk
<1>6. call'[u] = call[u] /\ call[u] # Rem!B!Idle =>
        /\ \A v \in seen[u] : v \in seen'[u]
        /\ Rem!Store'[call[u].key] \in seen'[u]
        /\ RemAbsent(u) => RemAbsent(u)'
  BY <1>3, RemStatesApart DEF RemAbsent
<1> QED BY <1>5, <1>6

(* A key that goes is seen absent then.                                    *)
LEMMA RemLostSeen ==
  ASSUME RemPuts, NEW t \in Threads, RemMarkOk(t), RemStep(t),
         NEW u \in Threads, call[u] # Rem!B!Idle, call'[u] = call[u],
         NEW j \in RemSlots, RemPresent(j, call[u].key)
  PROVE  RemPresent(j, call[u].key)' \/ RemAbsent(u)'
<1>1. RemSeesStep(t) /\ key'[j] = key[j] /\ RemVisible(j)
  BY RemVisibleStep DEF RemPuts, RemSeesStep, RemPresent
<1>2. CASE RemVisible(j)'
  BY <1>1, <1>2 DEF RemPresent
<1>3. CASE ~RemVisible(j)'
  <2>1. RemFreed(t) /\ j = idx[t]
    BY <1>1, <1>3 DEF RemSeesStep
  <2>2. call[t].key = call[u].key
    BY <2>1, RemFreedFacts DEF RemPresent
  <2>3. Rem!Store'[call[u].key] = Rem!B!NoVal
    BY <2>1, <2>2, RemStoreStep DEF RemStoreSet
  <2> QED BY <2>3, RemSeenStep, RemStatesApart DEF RemAbsent
<1> QED BY <1>2, <1>3

(* A key that comes was absent before.                                     *)
LEMMA RemGainedSeen ==
  ASSUME RemPuts, NEW t \in Threads, RemMarkOk(t), RemStep(t),
         NEW u \in Threads, call[u] # Rem!B!Idle, RemObservedOk(u),
         call'[u] = call[u],
         NEW j \in RemSlots, ~RemPresent(j, call[u].key),
         RemPresent(j, call[u].key)'
  PROVE  RemAbsent(u)
<1>1. RemSeesStep(t) /\ RemVisible(j)' /\ key'[j] = call[u].key
  BY RemVisibleStep DEF RemPuts, RemPresent
<1>2. ~RemVisible(j)
  BY <1>1 DEF RemSeesStep, RemPresent
<1>3. RemCommitted(t) /\ j = slot[t] /\ key' = key
  BY <1>1, <1>2 DEF RemSeesStep
<1>4. call[t].key = call[u].key
  BY <1>1, <1>3, RemFoundAbsent
<1>5. Rem!Store[call[u].key] = Rem!B!NoVal
  BY <1>3, <1>4, RemStoreStep
<1> QED BY <1>5 DEF RemObservedOk, RemAbsent

(* What a scan has established of a slot stays true.                       *)
LEMMA RemReadStep ==
  ASSUME RemPuts, RemNewValues, NEW t \in Threads, RemMarkOk(t), RemStep(t),
         NEW u \in Threads \ {t}, call[u] # Rem!B!Idle, RemObservedOk(u),
         NEW i \in RemSlots, RemReadOk(u, i)
  PROVE  RemReadOk(u, i)'
<1>0. RemBase /\ RemLeavesAlone(t) /\ RemSeesStep(t)
      /\ val \in [RemSlots -> RemValues]
      /\ key \in [RemSlots -> Keys \cup {NoKey}]
  BY RemStepOthers, RemVisibleStep
  DEF RemPuts, RemBase, RemInv, RemType, RemFields, RemValues
<1>1. pc'[u] = pc[u] /\ call'[u] = call[u] /\ cur'[u] = cur[u]
  BY <1>0 DEF RemLeavesAlone
<1>2. /\ \A v \in seen[u] : v \in seen'[u]
      /\ RemAbsent(u) => RemAbsent(u)'
  BY <1>1, RemSeenStep
<1> DEFINE k == call[u].key
<1>3. \A w \in Threads \ {t} :
        /\ RemFills(w, i)' <=> RemFills(w, i)
        /\ call'[w] = call[w] /\ pc'[w] = pc[w]
  BY <1>0 DEF RemLeavesAlone, RemFills
<1>4. RemFills(t, i) => \A w \in Threads \ {t} : ~RemFills(w, i)
  BY <1>0, RemSlotFacts
(* It suffices to look at each part.                                       *)
<1>5. ASSUME val'[i] = cur[u] /\ key'[i] = k
               => cur[u] \in seen'[u] /\ (RemVisible(i)' \/ RemAbsent(u)'),
             val'[i] # cur[u] /\ (key'[i] = k \/ pc[u] \in RemAgain)
               => RemAbsent(u)',
             val'[i] = cur[u] /\ pc[u] \in RemAgain => key'[i] = k,
             \A w \in Threads : RemFills(w, i)' =>
               /\ call'[w].key = k => RemAbsent(u)'
               /\ val'[i] = cur[u] => pc'[w] = "write_val"
      PROVE  RemReadOk(u, i)'
  BY <1>1, <1>5 DEF RemReadOk
<1>6. CASE RemSlotKept(i)
  <2>1. /\ val'[i] = cur[u] /\ key'[i] = k
             => cur[u] \in seen'[u] /\ (RemVisible(i)' \/ RemAbsent(u)')
        /\ val'[i] # cur[u] /\ (key'[i] = k \/ pc[u] \in RemAgain)
             => RemAbsent(u)'
        /\ val'[i] = cur[u] /\ pc[u] \in RemAgain => key'[i] = k
    BY <1>2, <1>6 DEF RemReadOk, RemSlotKept
  <2>2. \A w \in Threads : RemFills(w, i)' =>
          /\ call'[w].key = k => RemAbsent(u)'
          /\ val'[i] = cur[u] => pc'[w] = "write_val"
    BY <1>2, <1>6 DEF RemReadOk, RemSlotKept
  <2> QED BY <1>5, <2>1, <2>2
<1>7. CASE slot[t] = i /\ RemClaimed(t)
  <2>1. /\ ~RemVisible(i) /\ ~RemVisible(i)' /\ val'[i] = val[i]
        /\ key'[i] = key[i] /\ call'[t] = call[t] /\ pc'[t] = "write_val"
    <3>1. ~RemVisible(i)
      BY <1>7, RemStatesApart DEF RemClaimed, RemVisible
    <3>2. ~RemCommitted(t)
      BY <1>7 DEF RemClaimed, RemCommitted
    <3> QED
      BY <1>0, <1>7, <3>1, <3>2 DEF RemSeesStep, RemClaimed
  <2>2. call[t].key = k => RemAbsent(u)
    <3>1. /\ \A j \in RemSlots : RemVisible(j) => key[j] # call[t].key
          /\ call[t].key \in Keys
      BY <1>0, <1>7, RemClaimAbsent
    <3>2. Rem!Store[call[t].key] = Rem!B!NoVal
      BY <3>1, RemStoreIs DEF RemStoreFacts, RemPresent
    <3> QED BY <3>2 DEF RemObservedOk, RemAbsent
  <2>3. \A w \in Threads : RemFills(w, i)' =>
          /\ call'[w].key = k => RemAbsent(u)'
          /\ val'[i] = cur[u] => pc'[w] = "write_val"
    BY <1>2, <1>3, <2>1, <2>2 DEF RemReadOk
  <2> QED BY <1>2, <1>5, <2>1, <2>3 DEF RemReadOk
<1>8. CASE slot[t] = i /\ RemWroteVal(t)
  <2>1. RemFills(t, i) /\ call[t].op = "put" /\ RemUnwritten(t)
        /\ ~RemVisible(i)
    <3>1. RemFills(t, i)
      BY <1>8 DEF RemWroteVal, RemFills
    <3>2. call[t].op = "put" /\ word.map[i] = "insert"
      BY <1>0, <3>1, RemSlotFacts, RemStatesApart
    <3> QED
      BY <1>8, <3>1, <3>2, RemStatesApart
      DEF RemWroteVal, RemUnwritten, RemVisible
  <2>2. /\ val'[i] = call[t].val /\ key'[i] = key[i]
        /\ call'[t] = call[t]
    BY <1>0, <1>8 DEF RemWroteVal
  <2>3. val'[i] # cur[u]
    BY <2>1, <2>2 DEF RemNewValues, RemNewValue
  <2>4. key[i] = k \/ pc[u] \in RemAgain => RemAbsent(u)
    BY <2>1 DEF RemReadOk
  <2>5. \A w \in Threads : RemFills(w, i)' =>
          (call'[w].key = k => RemAbsent(u)')
    BY <1>2, <1>3, <2>1, <2>2 DEF RemReadOk
  <2> QED BY <1>2, <1>5, <2>2, <2>3, <2>4, <2>5
<1>9. CASE slot[t] = i /\ RemWroteKey(t)
  <2>1. RemFills(t, i) /\ pc[t] # "write_val"
    BY <1>9 DEF RemWroteKey, RemFills
  <2>2. /\ key'[i] = call[t].key /\ val'[i] = val[i]
        /\ call'[t] = call[t]
    BY <1>0, <1>9 DEF RemWroteKey
  <2>3. val[i] # cur[u] /\ (call[t].key = k => RemAbsent(u))
    BY <2>1 DEF RemReadOk
  <2>4. \A w \in Threads : RemFills(w, i)' =>
          (call'[w].key = k => RemAbsent(u)')
    BY <1>2, <1>3, <2>1, <2>2 DEF RemReadOk
  <2>5. pc[u] \in RemAgain => RemAbsent(u)
    BY <2>3 DEF RemReadOk
  <2> QED BY <1>2, <1>5, <2>2, <2>3, <2>4, <2>5
<1>10. CASE slot[t] = i /\ (RemCommitted(t) \/ RemReleasedStep(t))
  <2>1. RemFills(t, i) /\ pc[t] # "write_val" /\ key' = key /\ val' = val
    BY <1>10 DEF RemCommitted, RemReleasedStep, RemFills
  <2>2. val[i] # cur[u]
    BY <2>1 DEF RemReadOk
  <2>3. slot'[t] = 0
    BY <1>0, <1>10, RemReturnOp DEF RemCommitted, RemReleasedStep
  <2>4. \A w \in Threads : ~RemFills(w, i)'
    BY <1>3, <1>4, <2>1, <2>3, RemNames DEF RemFills
  <2> QED BY <1>2, <1>5, <2>1, <2>2, <2>4 DEF RemReadOk
<1>11. CASE RemFreed(t) /\ idx[t] = i
  <2>1. RemVisible(i) /\ ~RemVisible(i)' /\ key' = key /\ val' = val
    BY <1>0, <1>11 DEF RemSeesStep
  <2>2. \A w \in Threads : ~RemFills(w, i)
    BY <1>0, <2>1, RemSlotFacts, RemStatesApart DEF RemVisible
  <2>3. slot'[t] = 0
    BY <1>0, <1>11, RemReturnOp DEF RemFreed
  <2>4. \A w \in Threads : ~RemFills(w, i)'
    BY <1>3, <2>2, <2>3, RemNames DEF RemFills
  <2>5. key[i] = k => RemAbsent(u)'
    <3> SUFFICES ASSUME key[i] = k PROVE RemAbsent(u)'
      OBVIOUS
    <3>1. RemPresent(i, call[u].key)
      BY <2>1 DEF RemPresent
    <3>2. RemPresent(i, call[u].key)' \/ RemAbsent(u)'
      BY <1>1, <3>1, RemLostSeen
    <3> QED BY <2>1, <3>2 DEF RemPresent
  <2> QED BY <1>2, <1>5, <2>1, <2>4, <2>5 DEF RemReadOk
<1> QED
  BY <1>0, <1>6, <1>7, <1>8, <1>9, <1>10, <1>11, RemSlotStep
  DEF RemSlotFilled

-----------------------------------------------------------------------------
LEMMA RemAheadStep ==
  ASSUME RemPuts, NEW t \in Threads, RemMarkOk(t), RemStep(t),
         NEW u \in Threads \ {t}, call[u] # Rem!B!Idle, RemAhead(u)
  PROVE  RemAhead(u)'
<1>1. call'[u] = call[u] /\ idx'[u] = idx[u]
  BY RemStepOthers DEF RemLeavesAlone, RemPuts
<1>2. RemAbsent(u) => RemAbsent(u)'
  BY <1>1, RemSeenStep
<1>3. ASSUME NEW j \in RemSlots, j >= idx[u], RemPresent(j, call[u].key)
      PROVE  RemAhead(u)'
  <2>1. RemPresent(j, call[u].key)' \/ RemAbsent(u)'
    BY <1>1, <1>3, RemLostSeen
  <2> QED BY <1>1, <1>3, <2>1 DEF RemAhead
<1> QED BY <1>2, <1>3 DEF RemAhead

(* What another thread knows of its call survives a step.                  *)
LEMMA RemOtherStep ==
  ASSUME RemLinear, NEW t \in Threads, RemStep(t), NEW u \in Threads \ {t}
  PROVE  RemCallOk(u)'
<1>0. /\ RemPuts /\ RemNewValues /\ RemBase /\ RemCallOk(u)
      /\ RemMarkOk(t) /\ RemSeesStep(t)
  BY RemVisibleStep DEF RemLinear, RemCallOk, RemPuts
<1>1. /\ pc'[u] = pc[u] /\ call'[u] = call[u] /\ idx'[u] = idx[u]
      /\ cur'[u] = cur[u] /\ met'[u] = met[u] /\ idx[u] \in RemSlots
  BY <1>0, RemStepOthers, RemTypeFacts DEF RemLeavesAlone
<1>2. RemObservedOk(u)' /\ RemObservedOk(u)
  BY <1>0, RemSeenStep DEF RemCallOk
<1>3. pc[u] # "idle" => call[u] # Rem!B!Idle
  BY <1>0, RemTypeFacts, RemCallTypes DEF RemOp
<1>4. pc[u] # "idle" =>
        /\ \A v \in seen[u] : v \in seen'[u]
        /\ RemAbsent(u) => RemAbsent(u)'
        /\ RemAhead(u) => RemAhead(u)'
  BY <1>0, <1>1, <1>3, RemSeenStep, RemAheadStep
<1>5. /\ pc'[u] \in RemSearching => RemAhead(u)'
      /\ pc'[u] \in RemLooking => met'[u] \/ RemAhead(u)'
      /\ pc'[u] = "release" => \E v \in seen'[u] : v # Rem!B!NoVal
  BY <1>0, <1>1, <1>4 DEF RemCallOk, RemSearching, RemLooking
<1> DEFINE k == call[u].key
<1>6. PICK i \in RemSlots : i = idx[u] /\ i = idx'[u]
  BY <1>1
<1>7. pc'[u] \in {"search_map", "rem_map"} => RemValOk(u, i)'
  <2> SUFFICES ASSUME pc[u] \in {"search_map", "rem_map"},
                      val'[i] # cur[u], RemPresent(i, k)'
               PROVE  RemAbsent(u)'
    BY <1>1 DEF RemValOk
  <2>1. CASE RemPresent(i, k)
    <3>1. val'[i] = val[i]
      BY <1>0, <2>1 DEF RemSeesStep, RemPresent
    <3>2. RemValOk(u, i)
      BY <1>0, <1>6 DEF RemCallOk
    <3> QED BY <1>4, <2>1, <3>1, <3>2 DEF RemValOk
  <2>2. CASE ~RemPresent(i, k)
    BY <1>0, <1>1, <1>2, <1>3, <1>4, <2>2, RemGainedSeen
  <2> QED BY <2>1, <2>2
<1>8. pc'[u] \in {"search_key", "rem_key"} \cup RemAgain => RemReadOk(u, i)'
  <2> SUFFICES ASSUME pc[u] \in {"search_key", "rem_key"} \cup RemAgain
               PROVE  RemReadOk(u, i)'
    BY <1>1
  <2>1. RemReadOk(u, i) /\ call[u] # Rem!B!Idle
    BY <1>0, <1>3, <1>6 DEF RemCallOk, RemAgain
  <2> QED BY <1>0, <1>2, <2>1, RemReadStep
<1>9. RemMarkOk(u)'
  <2>0. RemMarkOk(u)
    BY <1>0 DEF RemCallOk
  <2>1. pc[u] \in {"rem_mark", "rem_check"}
          => RemAbsent(u)' \/ RemPresent(i, k)'
    <3> SUFFICES ASSUME pc[u] \in {"rem_mark", "rem_check"},
                        ~RemAbsent(u)
                 PROVE  RemAbsent(u)' \/ RemPresent(i, k)'
      BY <1>4
    <3>1. RemPresent(i, k)
      BY <1>6, <2>0 DEF RemMarkOk
    <3> QED BY <1>0, <1>1, <1>3, <3>1, RemLostSeen
  <2>2. pc[u] = "rem_undo" => RemAbsent(u)'
    BY <1>4, <2>0 DEF RemMarkOk
  <2>3. ASSUME pc[u] \in {"rem_take", "rem_free"}
        PROVE  /\ key'[i] = k
               /\ pc[u] = "rem_free" => val'[i] = cur[u]
    <3>1. RemMarks(u, i)
      BY <1>6, <2>3 DEF RemMarks, Rem!Marking
    <3>2. RemVisible(i)
      BY <1>0, <3>1, RemStatesApart
      DEF RemBase, RemInv, RemHeld, RemVisible
    <3>3. key'[i] = key[i] /\ val'[i] = val[i]
      BY <1>0, <3>2 DEF RemSeesStep
    <3> QED BY <1>6, <2>0, <2>3, <3>3 DEF RemMarkOk
  <2> QED BY <1>1, <1>6, <2>1, <2>2, <2>3 DEF RemMarkOk
<1> QED
  BY <1>1, <1>2, <1>5, <1>6, <1>7, <1>8, <1>9 DEF RemCallOk

-----------------------------------------------------------------------------
(* The step of a thread and its own call.                                  *)

(* The steps of a remove before its mark.                                  *)
RemLookReads(t) ==
  /\ pc[t] = "rem_val" /\ pc'[t] = "rem_map"
  /\ cur'[t] = val[idx[t]]
  /\ UNCHANGED <<call, ret, slot, idx>>
RemLookFinds(t) ==
  /\ \/ /\ pc[t] = "rem_map" /\ pc'[t] = "rem_key"
        /\ RemVisible(idx[t])
     \/ /\ pc[t] = "rem_key" /\ pc'[t] = "rem_again"
        /\ key[idx[t]] = call[t].key
     \/ /\ pc[t] = "rem_again" /\ pc'[t] = "rem_mark"
        /\ val[idx[t]] = cur[t]
  /\ UNCHANGED <<call, ret, slot, idx, cur>>
RemLookMissed(t) ==
  \/ pc[t] = "rem_map" /\ (met'[t] \/ ~RemVisible(idx[t]))
  \/ pc[t] = "rem_key" /\ key[idx[t]] # call[t].key
  \/ pc[t] = "rem_again" /\ val[idx[t]] # cur[t]
RemLookOn(t) ==
  /\ RemLookMissed(t) /\ idx[t] # MapSlots
  /\ pc'[t] = "rem_val" /\ idx'[t] = idx[t] + 1
  /\ UNCHANGED <<call, ret, slot, cur>>
RemLookEnds(t) ==
  RemLookMissed(t) /\ idx[t] = MapSlots /\ Rem!B!Return(t, 0)
RemLookStep(t) ==
  /\ UNCHANGED <<word, key, val, puts>>
  /\ met[t] => met'[t]
  /\ RemLookReads(t) \/ RemLookFinds(t) \/ RemLookOn(t) \/ RemLookEnds(t)

LEMMA RemLookMoves ==
  ASSUME RemBase, NEW t \in Threads,
         \/ Rem!RemoveVal(t) \/ Rem!RemoveMap(t) \/ Rem!RemoveKey(t)
         \/ Rem!RemoveAgain(t)
  PROVE  RemLookStep(t)
<1>0. met \in [Threads -> BOOLEAN]
  BY DEF RemBase, RemInv, RemType
<1>1. /\ UNCHANGED <<word, key, val, puts>>
      /\ met[t] => met'[t]
      /\ Rem!RemoveMap(t) /\ word.map[idx[t]] = Rem!REMOV => met'[t]
  BY <1>0
  DEF Rem!RemoveVal, Rem!RemoveMap, Rem!RemoveKey, Rem!RemoveAgain,
      Rem!Meets, Rem!shared
<1>2. CASE Rem!RemoveVal(t)
  BY <1>1, <1>2
  DEF Rem!RemoveVal, Rem!B!At, Rem!B!Goto, RemLookStep, RemLookReads,
      RemBase, RemInv, RemType, RemFields
<1>3. CASE Rem!RemoveNext(t) /\ RemLookMissed(t)
  <2>1. pc[t] \in RemLooking
    BY <1>3 DEF RemLookMissed, RemLooking
  <2>2. CASE idx[t] = MapSlots
    BY <1>1, <1>3, <2>2 DEF Rem!RemoveNext, RemLookStep, RemLookEnds
  <2>3. CASE idx[t] # MapSlots
    <3>1. /\ idx' = [idx EXCEPT ![t] = idx[t] + 1]
          /\ Rem!B!Goto(t, "rem_val")
          /\ UNCHANGED <<call, ret, snap, slot, cur>>
      BY <1>3, <2>3 DEF Rem!RemoveNext
    <3>2. pc'[t] = "rem_val" /\ idx'[t] = idx[t] + 1
      BY <2>1, <2>3, <3>1, RemPassTo
    <3> QED BY <1>1, <1>3, <2>3, <3>1, <3>2 DEF RemLookStep, RemLookOn
  <2> QED BY <2>2, <2>3
<1>4. ASSUME NEW l, Rem!B!Continue(t, l),
             \/ /\ pc[t] = "rem_map" /\ l = "rem_key"
                /\ RemVisible(idx[t])
             \/ /\ pc[t] = "rem_key" /\ l = "rem_again"
                /\ key[idx[t]] = call[t].key
             \/ /\ pc[t] = "rem_again" /\ l = "rem_mark"
                /\ val[idx[t]] = cur[t]
      PROVE  RemLookStep(t)
  <2>1. pc'[t] = l /\ UNCHANGED <<call, ret, slot, idx, cur>>
    BY <1>4, RemContinueTo
  <2>2. RemLookFinds(t)
    BY <1>4, <2>1 DEF RemLookFinds
  <2> QED BY <1>1, <2>2 DEF RemLookStep
<1>5. CASE Rem!RemoveMap(t)
  <2>1. pc[t] = "rem_map"
    BY <1>5 DEF Rem!RemoveMap, Rem!B!At
  <2>2. CASE word.map[idx[t]] = Rem!B!VALID
    <3>1. Rem!B!Continue(t, "rem_key")
      BY <1>5, <2>2 DEF Rem!RemoveMap
    <3> QED BY <1>4, <2>1, <2>2, <3>1, RemStatesApart DEF RemVisible
  <2>3. CASE word.map[idx[t]] # Rem!B!VALID
    <3>1. Rem!RemoveNext(t)
      BY <1>5, <2>3 DEF Rem!RemoveMap
    <3>2. RemLookMissed(t)
      BY <1>1, <1>5, <2>1, <2>3, RemStatesApart
      DEF RemLookMissed, RemVisible
    <3> QED BY <1>3, <3>1, <3>2
  <2> QED BY <2>2, <2>3
<1>6. CASE Rem!RemoveKey(t)
  <2>1. pc[t] = "rem_key"
    BY <1>6 DEF Rem!RemoveKey, Rem!B!At
  <2> QED BY <1>3, <1>4, <1>6, <2>1 DEF Rem!RemoveKey, RemLookMissed
<1>7. CASE Rem!RemoveAgain(t)
  <2>1. pc[t] = "rem_again"
    BY <1>7 DEF Rem!RemoveAgain, Rem!B!At
  <2> QED BY <1>3, <1>4, <1>7, <2>1 DEF Rem!RemoveAgain, RemLookMissed
<1> QED BY <1>2, <1>5, <1>6, <1>7

(* t returns an answer that held at some moment of its call.               *)
RemAnswers(t) ==
  \E v \in seen[t] :
    \/ call[t].op = "get" /\ Rem!B!Return(t, v)
    \/ call[t].op = "put" /\ v # Rem!B!NoVal /\ Rem!B!Return(t, 0)
    \/ call[t].op = "remove" /\ v = Rem!B!NoVal /\ Rem!B!Return(t, 0)

(* t came to a mark, and takes its key for absent.                         *)
RemMistakes(t) ==
  call[t].op = "remove" /\ met'[t] /\ Rem!B!Return(t, 0)

RemExplained(t) ==
  UNCHANGED <<call, ret>> \/ RemAnswers(t) \/ RemMistakes(t)

(* A scan that begins has the key ahead, or has seen it absent.            *)
RemAtStart(t) ==
  /\ RemStoreFacts /\ RemObservedOk(t) /\ idx[t] = 1
  /\ call[t] # Rem!B!Idle /\ call[t] \in Rem!B!Calls
RemStarts == \A t \in Threads : RemAtStart(t) => RemAhead(t)

LEMMA RemAheadStart == RemStarts
<1> SUFFICES ASSUME NEW t \in Threads, RemAtStart(t), ~RemAbsent(t)
             PROVE  \E j \in RemSlots : /\ j >= idx[t]
                                        /\ RemPresent(j, call[t].key)
  BY DEF RemStarts, RemAhead
<1>1. call[t].key \in Keys /\ Rem!Store[call[t].key] # Rem!B!NoVal
  BY RemCallTypes DEF RemAtStart, RemObservedOk, RemAbsent
<1>2. PICK j \in RemSlots : RemPresent(j, call[t].key)
  BY <1>1 DEF RemAtStart, RemStoreFacts
<1> QED BY <1>2 DEF RemAtStart, RemSlots

(* A scan that stays at its slot, or leaves it behind.                     *)
LEMMA RemAheadKept ==
  ASSUME NEW t \in Threads, RemStep(t), RemAhead(t), call[t] # Rem!B!Idle,
         UNCHANGED <<word, key, call>>, idx[t] \in RemSlots,
         \/ idx'[t] = idx[t]
         \/ /\ idx'[t] = idx[t] + 1
            /\ RemAbsent(t) \/ ~RemPresent(idx[t], call[t].key)
  PROVE  RemAhead(t)'
<1>1. RemAbsent(t) => RemAbsent(t)'
  BY RemSeenStep
<1>2. \A j \in RemSlots : RemPresent(j, call[t].key)' <=>
                            RemPresent(j, call[t].key)
  BY DEF RemPresent, RemVisible
<1>3. \A j \in RemSlots : j >= idx[t] /\ j # idx[t] => j >= idx[t] + 1
  BY DEF RemSlots
<1> QED BY <1>1, <1>2, <1>3 DEF RemAhead

LEMMA RemAheadEnd ==
  ASSUME NEW t \in Threads, RemAhead(t), idx[t] = MapSlots,
         RemAbsent(t) \/ ~RemPresent(idx[t], call[t].key)
  PROVE  RemAbsent(t)
<1>1. \A j \in RemSlots : j >= idx[t] => j = idx[t]
  BY MapBounds DEF RemSlots
<1> QED BY <1>1 DEF RemAhead

(* A slot that is visible after its value was read holds what the call     *)
(* observes.                                                               *)
LEMMA RemReadsMap ==
  ASSUME RemPuts, NEW t \in Threads, RemStep(t), RemObservedOk(t),
         NEW i \in RemSlots, i = idx[t], RemVisible(i), RemValOk(t, i),
         call[t] # Rem!B!Idle, UNCHANGED <<word, key, val, call, cur>>,
         pc'[t] \in {"search_key", "rem_key"}
  PROVE  RemReadOk(t, i)'
<1>0. RemBase /\ RemBase' /\ RemStoreFacts /\ call[t].key \in Keys
  BY RemStoreNext, RemBaseStep, RemTypeFacts, RemCallTypes DEF RemPuts
<1>1. /\ \A v \in seen[t] : v \in seen'[t]
      /\ RemAbsent(t) => RemAbsent(t)'
      /\ RemVisible(i)'
  BY RemSeenStep DEF RemVisible
<1>2. val[i] = cur[t] /\ key[i] = call[t].key => cur[t] \in seen'[t]
  <2> SUFFICES ASSUME val[i] = cur[t], key[i] = call[t].key
               PROVE  cur[t] \in seen[t]
    BY <1>1
  <2>1. RemPresent(i, call[t].key)
    BY DEF RemPresent
  <2>2. Rem!Store[call[t].key] = val[i]
    BY <1>0, <2>1 DEF RemStoreFacts
  <2> QED BY <2>2 DEF RemObservedOk
<1>3. val[i] # cur[t] /\ key[i] = call[t].key => RemAbsent(t)'
  BY <1>1 DEF RemValOk, RemPresent
<1>4. \A u \in Threads : ~RemFills(u, i)'
  <2>1. \A u \in Threads : RemFills(u, i)' => word'.map[i] = Rem!B!INSRT
    BY <1>0 DEF RemBase, RemInv, RemHeld
  <2> QED BY <1>1, <2>1, RemStatesApart DEF RemVisible
<1>5. pc'[t] \notin RemAgain
  BY DEF RemAgain
<1> QED BY <1>1, <1>2, <1>3, <1>4, <1>5 DEF RemReadOk

LEMMA RemReadsKey ==
  ASSUME RemPuts, NEW t \in Threads, RemStep(t),
         NEW i \in RemSlots, key[i] = call[t].key, RemReadOk(t, i),
         call[t] # Rem!B!Idle,
         UNCHANGED <<word, key, val, call, cur, slot>>,
         pc[t] \in {"search_key", "rem_key"}, pc'[t] \in RemAgain
  PROVE  RemReadOk(t, i)'
<1>1. /\ \A v \in seen[t] : v \in seen'[t]
      /\ RemAbsent(t) => RemAbsent(t)'
      /\ RemVisible(i)' <=> RemVisible(i)
  BY RemSeenStep DEF RemVisible
<1>2. \A u \in Threads :
        /\ RemFills(u, i)' => RemFills(u, i)
        /\ pc'[u] = "write_val" <=> pc[u] = "write_val"
  BY RemStepOthers DEF RemPuts, RemLeavesAlone, RemFills, RemAgain
<1> QED BY <1>1, <1>2 DEF RemReadOk

-----------------------------------------------------------------------------
LEMMA RemOwnFacts ==
  ASSUME RemLinear, NEW t \in Threads, RemStep(t)
  PROVE  /\ RemPuts /\ RemPuts' /\ RemBase /\ RemBase' /\ RemCallOk(t)
         /\ RemObservedOk(t)'
         /\ RemAtStart(t)' => RemAhead(t)'
         /\ idx[t] \in RemSlots /\ RemOp(t)
         /\ pc[t] # "idle" => call[t] # Rem!B!Idle
         /\ pc'[t] \in {"idle", "snapshot", "claim", "write_val",
                        "write_key", "commit"} => RemCallOk(t)'
<1>1. RemPuts /\ RemCallOk(t)
  BY DEF RemLinear
<1>2. RemPuts' /\ RemBase /\ RemBase' /\ RemOp(t) /\ idx[t] \in RemSlots
  BY <1>1, RemPutsStep, RemBaseStep, RemTypeFacts DEF RemPuts
<1>3. RemStarts'
  BY RemAheadStart, PTL
<1>4. RemObservedOk(t)'
  BY RemSeenStep
<1>5. pc[t] # "idle" => call[t] # Rem!B!Idle
  BY <1>2, RemCallTypes DEF RemOp
<1>6. pc'[t] \in {"idle", "snapshot", "claim", "write_val", "write_key",
                  "commit"} => RemCallOk(t)'
  BY <1>4
  DEF RemCallOk, RemSearching, RemLooking, RemAgain, RemMarkOk
<1> QED BY <1>1, <1>2, <1>3, <1>4, <1>5, <1>6 DEF RemStarts

LEMMA RemSearchOwn ==
  ASSUME RemLinear, NEW t \in Threads, RemStep(t), RemSearchStep(t)
  PROVE  RemCallOk(t)' /\ RemExplained(t)
<1>0. /\ RemPuts /\ RemBase /\ RemCallOk(t) /\ RemObservedOk(t)'
      /\ idx[t] \in RemSlots /\ UNCHANGED <<word, key, val>>
      /\ pc[t] \in RemSearching /\ call[t] # Rem!B!Idle /\ RemAhead(t)
      /\ RemObservedOk(t)
  <2>1. pc[t] \in RemSearching
    BY DEF RemSearchStep, RemReads, RemFindsMap, RemFindsKey, RemMovesOn,
           RemMissed, RemEnds, RemSearching
  <2>2. pc[t] # "idle"
    BY <2>1 DEF RemSearching
  <2> QED BY <2>1, <2>2, RemOwnFacts DEF RemSearchStep, RemCallOk
<1>1. PICK i \in RemSlots : i = idx[t]
  BY <1>0
(* A search that stays in its loop.                                        *)
<1>2. ASSUME UNCHANGED <<call, ret>>, pc'[t] \in RemSearching, RemAhead(t)',
             pc'[t] = "search_map" => RemValOk(t, idx[t])',
             pc'[t] \in {"search_key", "search_again"}
               => RemReadOk(t, idx[t])'
      PROVE  RemCallOk(t)' /\ RemExplained(t)
  BY <1>0, <1>2
  DEF RemCallOk, RemExplained, RemSearching, RemLooking, RemAgain, RemMarkOk
<1>3. CASE RemReads(t)
  <2>1. RemAhead(t)'
    BY <1>0, <1>3, RemAheadKept DEF RemReads
  <2>2. RemValOk(t, idx[t])'
    BY <1>0, <1>3 DEF RemReads, RemValOk
  <2> QED BY <1>2, <1>3, <2>1, <2>2 DEF RemReads, RemSearching
<1>4. CASE RemFindsMap(t)
  <2>1. RemAhead(t)'
    BY <1>0, <1>4, RemAheadKept DEF RemFindsMap
  <2>2. RemReadOk(t, i)'
    BY <1>0, <1>1, <1>4, RemReadsMap DEF RemFindsMap, RemCallOk
  <2>3. i = idx'[t]
    BY <1>1, <1>4 DEF RemFindsMap
  <2>4. RemReadOk(t, idx[t])'
    BY <2>2, <2>3 DEF RemReadOk
  <2> QED BY <1>2, <1>4, <2>1, <2>4 DEF RemFindsMap, RemSearching
<1>5. CASE RemFindsKey(t)
  <2>1. RemAhead(t)'
    BY <1>0, <1>5, RemAheadKept DEF RemFindsKey
  <2>2. RemReadOk(t, i)'
    BY <1>0, <1>1, <1>5, RemReadsKey DEF RemFindsKey, RemCallOk, RemAgain
  <2>3. i = idx'[t]
    BY <1>1, <1>5 DEF RemFindsKey
  <2>4. RemReadOk(t, idx[t])'
    BY <2>2, <2>3 DEF RemReadOk
  <2> QED BY <1>2, <1>5, <2>1, <2>4 DEF RemFindsKey, RemSearching
<1>6. RemMissed(t) => ~RemPresent(idx[t], call[t].key)
  BY DEF RemMissed, RemPresent
<1>7. CASE RemMovesOn(t)
  <2>1. RemAhead(t)'
    BY <1>0, <1>6, <1>7, RemAheadKept DEF RemMovesOn
  <2> QED BY <1>2, <1>7, <2>1 DEF RemMovesOn, RemSearching
<1>8. ASSUME NEW r, RemEnds(t, r)
      PROVE  RemCallOk(t)' /\ RemExplained(t)
  <2>1. r \in seen[t]
    <3>1. CASE RemMissed(t) /\ idx[t] = MapSlots /\ r = Rem!B!NoVal
      BY <1>0, <1>6, <3>1, RemAheadEnd DEF RemAbsent
    <3>2. CASE pc[t] = "search_again" /\ val[idx[t]] = cur[t] /\ r = cur[t]
      BY <1>0, <3>2 DEF RemCallOk, RemReadOk, RemAgain
    <3>3. CASE /\ pc[t] = "search_again" /\ val[idx[t]] # cur[t]
               /\ r = Rem!B!NoVal
      BY <1>0, <3>3 DEF RemCallOk, RemReadOk, RemAgain, RemAbsent
    <3> QED BY <1>8, <3>1, <3>2, <3>3 DEF RemEnds
  <2>2. CASE \/ call[t].op = "get" /\ Rem!B!Return(t, r)
             \/ /\ call[t].op = "put" /\ r # Rem!B!NoVal
                /\ Rem!B!Return(t, 0)
    <3>1. pc'[t] = "idle"
      BY <1>0, <2>2, RemReturnOp
    <3>2. RemAnswers(t)
      BY <2>1, <2>2 DEF RemAnswers
    <3> QED BY <3>1, <3>2, RemOwnFacts DEF RemExplained
  <2>3. CASE /\ r # Rem!B!NoVal /\ pc'[t] = "release"
             /\ UNCHANGED <<call, ret>>
    <3>1. r \in seen'[t]
      BY <1>0, <2>1, <2>3, RemSeenStep
    <3>2. RemCallOk(t)'
      BY <1>0, <2>3, <3>1
      DEF RemCallOk, RemSearching, RemLooking, RemAgain, RemMarkOk
    <3> QED BY <2>3, <3>2 DEF RemExplained
  <2>4. CASE /\ UNCHANGED <<call, ret>>
             /\ pc'[t] \in {"snapshot", "claim", "commit"}
    BY <2>4, RemOwnFacts DEF RemExplained
  <2> QED
    BY <1>0, <1>8, <2>2, <2>3, <2>4, RemDoneTo DEF RemEnds
<1> QED
  BY <1>3, <1>4, <1>5, <1>7, <1>8 DEF RemSearchStep

LEMMA RemLookOwn ==
  ASSUME RemLinear, NEW t \in Threads, RemStep(t), RemLookStep(t)
  PROVE  RemCallOk(t)' /\ RemExplained(t)
<1>0. /\ RemPuts /\ RemBase /\ RemCallOk(t) /\ RemObservedOk(t)'
      /\ idx[t] \in RemSlots /\ UNCHANGED <<word, key, val>>
      /\ pc[t] \in RemLooking /\ call[t] # Rem!B!Idle
      /\ met'[t] \/ RemAhead(t)
      /\ RemObservedOk(t) /\ call[t].op = "remove"
  <2>1. pc[t] \in RemLooking
    BY DEF RemLookStep, RemLookReads, RemLookFinds, RemLookOn, RemLookEnds,
           RemLookMissed, RemLooking
  <2>2. pc[t] # "idle"
    BY <2>1 DEF RemLooking
  <2> QED
    BY <2>1, <2>2, RemOwnFacts DEF RemLookStep, RemCallOk, RemOp
<1>1. PICK i \in RemSlots : i = idx[t]
  BY <1>0
<1>2. ASSUME UNCHANGED <<call, ret>>, pc'[t] \in RemLooking,
             met'[t] \/ RemAhead(t)',
             pc'[t] = "rem_map" => RemValOk(t, idx[t])',
             pc'[t] \in {"rem_key", "rem_again"} => RemReadOk(t, idx[t])'
      PROVE  RemCallOk(t)' /\ RemExplained(t)
  BY <1>0, <1>2
  DEF RemCallOk, RemExplained, RemSearching, RemLooking, RemAgain, RemMarkOk
<1>3. CASE RemLookReads(t)
  <2>1. met'[t] \/ RemAhead(t)'
    BY <1>0, <1>3, RemAheadKept DEF RemLookReads
  <2>2. RemValOk(t, idx[t])'
    BY <1>0, <1>3 DEF RemLookReads, RemValOk
  <2> QED BY <1>2, <1>3, <2>1, <2>2 DEF RemLookReads, RemLooking
<1>4. CASE RemLookFinds(t)
  <2>0. UNCHANGED <<word, key, val, call, cur, slot, idx, ret>>
        /\ i = idx'[t]
    BY <1>0, <1>1, <1>4 DEF RemLookFinds
  <2>1. met'[t] \/ RemAhead(t)'
    BY <1>0, <2>0, RemAheadKept
  <2>2. CASE pc[t] = "rem_map"
    <3>0. pc'[t] = "rem_key" /\ RemVisible(idx[t])
      BY <1>4, <2>2 DEF RemLookFinds
    <3>1. RemReadOk(t, i)'
      BY <1>0, <1>1, <2>0, <2>2, <3>0, RemReadsMap DEF RemCallOk
    <3>2. RemReadOk(t, idx[t])'
      BY <2>0, <3>1 DEF RemReadOk
    <3> QED BY <1>2, <2>0, <2>1, <3>0, <3>2 DEF RemLooking
  <2>3. CASE pc[t] = "rem_key"
    <3>0. pc'[t] = "rem_again" /\ key[idx[t]] = call[t].key
      BY <1>4, <2>3 DEF RemLookFinds
    <3>1. RemReadOk(t, i)'
      BY <1>0, <1>1, <2>0, <2>3, <3>0, RemReadsKey DEF RemCallOk, RemAgain
    <3>2. RemReadOk(t, idx[t])'
      BY <2>0, <3>1 DEF RemReadOk
    <3> QED BY <1>2, <2>0, <2>1, <3>0, <3>2 DEF RemLooking
  <2>4. CASE pc[t] = "rem_again"
    <3>0. pc'[t] = "rem_mark" /\ val[idx[t]] = cur[t]
      BY <1>4, <2>4 DEF RemLookFinds
    <3>1. RemReadOk(t, i) /\ key[i] = call[t].key
      BY <1>0, <1>1, <2>4, <3>0 DEF RemCallOk, RemReadOk, RemAgain
    <3>2. RemAbsent(t) \/ RemPresent(i, call[t].key)
      BY <1>1, <3>0, <3>1 DEF RemReadOk, RemPresent
    <3>3. RemAbsent(t)' \/ RemPresent(i, call[t].key)'
      BY <1>0, <2>0, <3>2, RemSeenStep DEF RemPresent, RemVisible
    <3>4. RemMarkOk(t)'
      BY <2>0, <3>0, <3>3 DEF RemMarkOk, RemPresent
    <3>5. RemCallOk(t)'
      BY <1>0, <3>0, <3>4
      DEF RemCallOk, RemSearching, RemLooking, RemAgain
    <3> QED BY <2>0, <3>5 DEF RemExplained
  <2> QED BY <1>4, <2>2, <2>3, <2>4 DEF RemLookFinds
(* A slot is passed over that does not hold the key, or because of a mark. *)
<1>5. RemLookMissed(t)
        => met'[t] \/ RemAbsent(t) \/ ~RemPresent(idx[t], call[t].key)
  <2>1. pc[t] = "rem_again" /\ val[idx[t]] # cur[t] => RemAbsent(t)
    BY <1>0 DEF RemCallOk, RemReadOk, RemAgain
  <2> QED BY <2>1 DEF RemLookMissed, RemPresent
<1>6. CASE RemLookOn(t)
  <2>1. met'[t] \/ RemAhead(t)'
    BY <1>0, <1>5, <1>6, RemAheadKept DEF RemLookOn
  <2> QED BY <1>2, <1>6, <2>1 DEF RemLookOn, RemLooking
<1>7. CASE RemLookEnds(t)
  <2>1. met'[t] \/ RemAbsent(t)
    BY <1>0, <1>5, <1>7, RemAheadEnd DEF RemLookEnds
  <2>2. pc'[t] = "idle" /\ Rem!B!Return(t, 0)
    BY <1>0, <1>7, RemReturnOp DEF RemLookEnds
  <2>3. RemAnswers(t) \/ RemMistakes(t)
    BY <1>0, <2>1, <2>2 DEF RemAnswers, RemMistakes, RemAbsent
  <2> QED BY <2>2, <2>3, RemOwnFacts DEF RemExplained
<1> QED
  BY <1>3, <1>4, <1>6, <1>7 DEF RemLookStep

-----------------------------------------------------------------------------
(* The steps of a remove from its mark on.                                 *)
LEMMA RemMarkOwn ==
  ASSUME RemLinear, NEW t \in Threads, RemStep(t),
         \/ Rem!RemoveMark(t) \/ Rem!RemoveCheck(t) \/ Rem!RemoveTake(t)
         \/ Rem!RemoveFree(t) \/ Rem!RemoveUndo(t)
  PROVE  RemCallOk(t)' /\ (RemExplained(t) \/ RemFreed(t))
<1>0. /\ RemPuts /\ RemBase /\ RemMarkOk(t) /\ RemObservedOk(t)'
      /\ idx[t] \in RemSlots /\ UNCHANGED <<key, val>>
      /\ call[t] # Rem!B!Idle /\ call[t].op = "remove" /\ RemSeesStep(t)
  <2>1. /\ pc[t] \in {"rem_mark"} \cup Rem!Marking
        /\ UNCHANGED <<key, val>>
    BY DEF Rem!RemoveMark, Rem!RemoveCheck, Rem!RemoveTake, Rem!RemoveFree,
           Rem!RemoveUndo, Rem!B!At, Rem!Marking, Rem!shared
  <2>2. pc[t] # "idle"
    BY <2>1 DEF Rem!Marking
  <2> QED
    BY <2>1, <2>2, RemOwnFacts, RemVisibleStep DEF RemCallOk, RemOp
<1>1. PICK i \in RemSlots : i = idx[t]
  BY <1>0
<1> DEFINE k == call[t].key
(* A remove that goes on.                                                  *)
<1>2. ASSUME UNCHANGED <<call, ret>>, pc'[t] \in Rem!Marking, RemMarkOk(t)'
      PROVE  RemCallOk(t)' /\ RemExplained(t)
  BY <1>0, <1>2
  DEF RemCallOk, RemExplained, RemSearching, RemLooking, RemAgain,
      Rem!Marking
<1>3. ASSUME Rem!B!Return(t, 0), met'[t] \/ RemAbsent(t)
      PROVE  RemCallOk(t)' /\ RemExplained(t)
  <2>1. pc'[t] = "idle"
    BY <1>0, <1>3, RemReturnOp
  <2>2. RemAnswers(t) \/ RemMistakes(t)
    BY <1>0, <1>3 DEF RemAnswers, RemMistakes, RemAbsent
  <2> QED BY <2>1, <2>2, RemOwnFacts DEF RemExplained
<1>4. call'[t] = call[t] => (RemAbsent(t) => RemAbsent(t)')
  BY <1>0, RemSeenStep
<1>5. CASE Rem!RemoveMark(t)
  <2>1. pc[t] = "rem_mark"
    BY <1>5 DEF Rem!RemoveMark, Rem!B!At
  <2>2. RemAbsent(t) \/ RemPresent(i, k)
    BY <1>0, <1>1, <2>1 DEF RemMarkOk
  <2>3. CASE word.map[idx[t]] = Rem!B!VALID
    <3>1. Rem!B!Continue(t, "rem_check")
      BY <1>5, <2>3 DEF Rem!RemoveMark
    <3>2. pc'[t] = "rem_check" /\ UNCHANGED <<call, ret, idx>>
      BY <1>0, <3>1, RemContinueTo
    <3>3. ~RemFreed(t)
      BY <2>1 DEF RemFreed
    <3>4. RemPresent(i, k) => RemPresent(i, k)'
      BY <1>0, <3>2, <3>3 DEF RemSeesStep, RemPresent
    <3>5. RemMarkOk(t)'
      BY <1>1, <1>4, <2>2, <3>2, <3>4 DEF RemMarkOk, RemPresent, RemVisible
    <3> QED BY <1>2, <3>2, <3>5 DEF Rem!Marking
  <2>4. CASE word.map[idx[t]] # Rem!B!VALID
    <3>1. Rem!B!Return(t, 0) /\ Rem!Meets(t)
      BY <1>5, <2>4 DEF Rem!RemoveMark
    <3>2. word.map[idx[t]] = Rem!REMOV => met'[t]
      BY <1>0, <3>1 DEF Rem!Meets, RemBase, RemInv, RemType
    <3>3. met'[t] \/ ~RemVisible(i)
      BY <1>1, <2>4, <3>2, RemStatesApart DEF RemVisible
    <3> QED BY <1>3, <2>2, <3>1, <3>3 DEF RemPresent
  <2> QED BY <2>3, <2>4
<1>6. CASE Rem!RemoveCheck(t)
  <2>1. pc[t] = "rem_check" /\ UNCHANGED word
        /\ Rem!B!Continue(t, IF key[idx[t]] = k THEN "rem_take"
                                                ELSE "rem_undo")
    BY <1>6 DEF Rem!RemoveCheck, Rem!B!At, Rem!shared
  <2>2. RemAbsent(t) \/ RemPresent(i, k)
    BY <1>0, <1>1, <2>1 DEF RemMarkOk
  <2>3. /\ UNCHANGED <<call, ret, idx>>
        /\ \/ key[i] = k /\ pc'[t] = "rem_take"
           \/ key[i] # k /\ pc'[t] = "rem_undo"
    BY <1>0, <1>1, <2>1, RemContinueTo
  <2>4. RemMarkOk(t)'
    BY <1>0, <1>1, <1>4, <2>2, <2>3 DEF RemMarkOk, RemPresent
  <2> QED BY <1>2, <2>3, <2>4 DEF Rem!Marking
<1>7. CASE Rem!RemoveTake(t)
  <2>1. /\ pc[t] = "rem_take" /\ pc'[t] = "rem_free"
        /\ UNCHANGED <<call, ret, idx>> /\ cur'[t] = val[idx[t]]
    BY <1>0, <1>7
    DEF Rem!RemoveTake, Rem!B!At, Rem!B!Goto, RemBase, RemInv, RemType,
        RemFields
  <2>2. RemMarkOk(t)'
    BY <1>0, <2>1 DEF RemMarkOk
  <2> QED BY <1>2, <2>1, <2>2 DEF Rem!Marking
<1>8. CASE Rem!RemoveFree(t)
  <2>1. pc[t] = "rem_free" /\ Rem!B!Return(t, cur[t])
        /\ word' = [word EXCEPT !.map[idx[t]] = Rem!B!INVLD]
    BY <1>8 DEF Rem!RemoveFree, Rem!B!At, Rem!SetMapByte
  <2>2. word.map[idx[t]] = Rem!REMOV
    <3>1. RemMarks(t, i)
      BY <1>1, <2>1 DEF RemMarks, Rem!Marking
    <3> QED BY <1>0, <1>1, <3>1 DEF RemBase, RemInv, RemHeld
  <2>3. word' # word
    <3>1. word'.map[idx[t]] = Rem!B!INVLD
      BY <1>0, <2>1 DEF RemBase, RemInv, RemType, RemWords
    <3> QED BY <2>2, <3>1, RemStatesApart
  <2>4. RemFreed(t)
    BY <1>0, <2>1, <2>3, RemKinds
    DEF RemKind, RemQuietStep, RemClaimed, RemWroteVal, RemWroteKey,
        RemCommitted, RemReleasedStep, RemMarked, RemUndone
  <2>5. pc'[t] = "idle"
    BY <1>0, <2>1, RemReturnOp
  <2> QED BY <2>4, <2>5, RemOwnFacts
<1>9. CASE Rem!RemoveUndo(t)
  <2>1. pc[t] = "rem_undo" /\ Rem!B!Return(t, 0)
    BY <1>9 DEF Rem!RemoveUndo, Rem!B!At
  <2>2. RemAbsent(t)
    BY <1>0, <2>1 DEF RemMarkOk
  <2> QED BY <1>3, <2>1, <2>2
<1> QED BY <1>5, <1>6, <1>7, <1>8, <1>9

(* The steps of a put that are not a search.                               *)
LEMMA RemPutOwn ==
  ASSUME RemLinear, NEW t \in Threads, RemStep(t),
         \/ Rem!Claim(t) \/ Rem!WriteVal(t) \/ Rem!WriteKey(t)
         \/ Rem!Commit(t) \/ Rem!Release(t)
  PROVE  RemCallOk(t)' /\ (RemExplained(t) \/ RemCommitted(t))
<1>0. /\ RemPuts /\ RemBase /\ RemCallOk(t)
      /\ pc[t] \in RemPutting /\ call[t].op = "put" /\ slot[t] \in RemSlots
  <2>1. pc[t] \in RemPutting
    BY DEF Rem!Claim, Rem!WriteVal, Rem!WriteKey, Rem!Commit, Rem!Release,
           Rem!B!Claim, Rem!B!WriteVal, Rem!B!WriteKey, Rem!B!Commit,
           Rem!B!Release, Rem!B!At, RemPutting
  <2>2. RemBase
    BY RemOwnFacts
  <2>3. RemControl(t) /\ slot[t] \in RemSlots \cup {0}
    BY <2>2, RemTypeFacts
  <2> QED BY <2>1, <2>2, <2>3, RemOwnFacts DEF RemControl
<1>1. ASSUME NEW l, Rem!B!Continue(t, l),
             l \in {"write_val", "write_key", "commit"}
      PROVE  RemCallOk(t)' /\ RemExplained(t)
  <2>1. pc'[t] = l /\ UNCHANGED <<call, ret>>
    BY <1>0, <1>1, RemContinueTo
  <2> QED BY <1>1, <2>1, RemOwnFacts DEF RemExplained
<1>2. ASSUME NEW e, Rem!B!Retry(t, e)
      PROVE  RemCallOk(t)' /\ RemExplained(t)
  BY <1>0, <1>2, RemRetryOp, RemOwnFacts DEF RemExplained
<1>3. CASE Rem!Claim(t) \/ Rem!WriteVal(t) \/ Rem!WriteKey(t)
  BY <1>1, <1>2, <1>3
  DEF Rem!Claim, Rem!WriteVal, Rem!WriteKey, Rem!B!Claim, Rem!B!WriteVal,
      Rem!B!WriteKey
<1>4. CASE Rem!Commit(t)
  <2> DEFINE s1 == Rem!B!SetMap(snap[t], slot[t], Rem!B!INSRT)
  <2>1. pc[t] = "commit"
    BY <1>4 DEF Rem!Commit, Rem!B!Commit, Rem!B!At
  <2>2. CASE word # s1
    BY <1>2, <1>4, <2>2 DEF Rem!Commit, Rem!B!Commit
  <2>3. CASE word = s1
    <3>1. /\ word' = Rem!B!SetMapAndIncVersion(word, slot[t], Rem!B!VALID)
          /\ Rem!B!Return(t, 1)
      BY <1>4, <2>3 DEF Rem!Commit, Rem!B!Commit
    <3>2. word.map[slot[t]] = Rem!B!INSRT
      BY <1>0, <2>1, RemSlotFacts
    <3>3. word' # word
      <4>1. word'.map[slot[t]] = Rem!B!VALID
        BY <1>0, <3>1
        DEF Rem!B!SetMapAndIncVersion, RemBase, RemInv, RemType, RemWords
      <4> QED BY <3>2, <4>1, RemStatesApart
    <3>4. RemCommitted(t)
      BY <1>0, <2>1, <3>3, RemKinds
      DEF RemKind, RemQuietStep, RemClaimed, RemWroteVal, RemWroteKey,
          RemFreed, RemReleasedStep, RemMarked, RemUndone
    <3>5. pc'[t] = "idle"
      BY <1>0, <3>1, RemReturnOp
    <3> QED BY <3>4, <3>5, RemOwnFacts
  <2> QED BY <2>2, <2>3
<1>5. CASE Rem!Release(t)
  <2>1. pc[t] = "release" /\ Rem!B!Return(t, 0)
    BY <1>5 DEF Rem!Release, Rem!B!Release, Rem!B!At
  <2>2. RemAnswers(t)
    BY <1>0, <2>1 DEF RemCallOk, RemAnswers
  <2>3. pc'[t] = "idle"
    BY <1>0, <2>1, RemReturnOp
  <2> QED BY <2>2, <2>3, RemOwnFacts DEF RemExplained
<1> QED BY <1>3, <1>4, <1>5

LEMMA RemOwnStep ==
  ASSUME RemLinear, NEW t \in Threads, RemStep(t)
  PROVE  /\ RemCallOk(t)'
         /\ \/ RemBegins(t) \/ RemCommitted(t) \/ RemFreed(t)
            \/ RemExplained(t)
<1>0. /\ RemPuts /\ RemBase /\ RemBase' /\ RemCallOk(t) /\ RemOp(t)
      /\ RemObservedOk(t)' /\ RemStoreFacts'
      /\ RemAtStart(t)' => RemAhead(t)'
  BY RemOwnFacts, RemStoreNext
<1>1. ASSUME idx'[t] = 1, call'[t] # Rem!B!Idle,
             pc'[t] \in {"search_val", "rem_val"}
      PROVE  RemCallOk(t)'
  <2>1. call'[t] \in Rem!B!Calls
    BY <1>0 DEF RemBase, RemInv, RemType
  <2>2. Rem!B!Idle' = Rem!B!Idle /\ Rem!B!Calls' = Rem!B!Calls
    BY DEF Rem!B!Idle, Rem!B!Calls, Rem!B!Vals
  <2>3. RemAtStart(t)'
    BY <1>0, <1>1, <2>1, <2>2 DEF RemAtStart
  <2> QED
    BY <1>0, <1>1, <2>3
    DEF RemCallOk, RemSearching, RemLooking, RemAgain, RemMarkOk
<1>2. CASE Rem!Get(t) \/ Rem!Put(t) \/ Rem!Remove(t)
  <2>1. RemBegins(t)
    BY <1>0, <1>2, RemBeginsCall
  <2>2. idx'[t] = 1
    BY <1>0, <2>1 DEF RemBegins, RemOp
  <2>3. CASE pc'[t] = "snapshot"
    BY <2>1, <2>3, RemOwnFacts
  <2>4. CASE pc'[t] \in {"search_val", "rem_val"}
    BY <1>1, <2>1, <2>2, <2>4 DEF RemBegins
  <2> QED BY <2>1, <2>3, <2>4 DEF RemBegins
<1>3. CASE Rem!ReadSnapshot(t)
  <2>1. pc[t] = "snapshot" /\ UNCHANGED <<call, ret, idx>>
        /\ pc' = [pc EXCEPT ![t] = IF call[t].op = "put" THEN "search_val"
                                                         ELSE "rem_key"]
    BY <1>3 DEF Rem!ReadSnapshot, Rem!B!ReadSnapshot, Rem!B!At, Rem!B!Goto
  <2>2. call[t].op = "put" /\ idx[t] = 1
    BY <1>0, <2>1 DEF RemOp
  <2>3. pc'[t] = "search_val" /\ call'[t] # Rem!B!Idle /\ idx'[t] = 1
    BY <1>0, <2>1, <2>2, RemCallTypes DEF RemBase, RemInv, RemType
  <2> QED BY <1>1, <2>1, <2>3 DEF RemExplained
<1>4. CASE \/ Rem!SearchVal(t) \/ Rem!SearchMap(t) \/ Rem!SearchKey(t)
           \/ Rem!SearchAgain(t)
  BY <1>0, <1>4, RemSearchMoves, RemSearchOwn
<1>5. CASE \/ Rem!RemoveVal(t) \/ Rem!RemoveMap(t) \/ Rem!RemoveKey(t)
           \/ Rem!RemoveAgain(t)
  BY <1>0, <1>5, RemLookMoves, RemLookOwn
<1>6. CASE \/ Rem!RemoveMark(t) \/ Rem!RemoveCheck(t) \/ Rem!RemoveTake(t)
           \/ Rem!RemoveFree(t) \/ Rem!RemoveUndo(t)
  BY <1>6, RemMarkOwn
<1>7. CASE \/ Rem!Claim(t) \/ Rem!WriteVal(t) \/ Rem!WriteKey(t)
           \/ Rem!Commit(t) \/ Rem!Release(t)
  BY <1>7, RemPutOwn
<1> QED
  BY <1>2, <1>3, <1>4, <1>5, <1>6, <1>7 DEF RemStep, RemSteps, Rem!Work

-----------------------------------------------------------------------------
(* The invariant of the refinement, and the steps of the map.              *)

LEMMA RemInitLinear == Rem!Init => RemLinear /\ Rem!Map!Init
<1> SUFFICES ASSUME Rem!Init PROVE RemLinear /\ Rem!Map!Init
  OBVIOUS
<1>1. /\ word = Rem!B!Free /\ val = [i \in RemSlots |-> Rem!B!NoVal]
      /\ call = [t \in Threads |-> Rem!B!Idle]
      /\ pc = [t \in Threads |-> "idle"]
      /\ cur = [t \in Threads |-> Rem!B!NoVal] /\ puts = 0
      /\ seen = [t \in Threads |-> {}] /\ ret = [t \in Threads |-> 0]
  BY RemNames DEF Rem!Init, Rem!B!Init
<1>2. RemPuts
  BY RemPutsInit
<1>3. RemNewValues
  BY <1>1, RemStatesApart, RemCallTypes
  DEF RemNewValues, RemNewValue, RemUnwritten
<1>4. \A t \in Threads : RemCallOk(t)
  BY <1>1
  DEF RemCallOk, RemObservedOk, RemSearching, RemLooking, RemAgain,
      RemMarkOk
<1>5. Rem!Store = [k \in Keys |-> Rem!B!NoVal]
  <2>1. \A i \in RemSlots : ~RemVisible(i)
    BY <1>1, RemNames, RemStatesApart DEF RemVisible, Rem!B!Free
  <2>2. \A k \in Keys : Rem!Entry(k) = {}
    BY <2>1, RemNames DEF Rem!Entry, RemVisible
  <2> QED BY <2>2 DEF Rem!Store
<1>6. Rem!Map!Init
  BY <1>1, <1>5
  DEF Rem!Map!Init, Rem!Map!Idle, Rem!B!Idle, Rem!Map!NoVal, Rem!B!NoVal
<1> QED BY <1>2, <1>3, <1>4, <1>6 DEF RemLinear

LEMMA RemMapStep ==
  ASSUME RemLinear, NEW t \in Threads, RemStep(t)
  PROVE  [Rem!MapStep]_(Rem!Map!vars)
<1> USE DEF Rem!Map!Idle, Rem!B!Idle, Rem!Map!NoVal, Rem!B!NoVal
<1>0. /\ RemPuts /\ RemBase /\ RemMarkOk(t)
      /\ \A u \in Threads : RemObservedOk(u)
      /\ RemStoreTyped /\ RemStoreTyped'
      /\ seen \in [Threads -> SUBSET RemValues]
  BY RemStoreNext
  DEF RemLinear, RemPuts, RemCallOk, RemBase, RemFields, RemValues
<1>1. Rem!Map!Observe
  BY DEF RemStep, Rem!Observe, Rem!Map!Observe
<1>2. CASE RemBegins(t)
  <2>1. Rem!Store' = Rem!Store
    BY <1>0, <1>2, RemStoreStep DEF RemBegins, RemCommitted, RemFreed
  <2>2. PICK c \in Rem!B!Calls \ {Rem!B!Idle} :
          call' = [call EXCEPT ![t] = c]
    BY <1>2 DEF RemBegins
  <2>3. Rem!Map!Calls = Rem!B!Calls
    BY DEF Rem!Map!Calls, Rem!B!Calls
  <2>4. Rem!Map!Invoke(t)
    BY <1>2, <2>1, <2>2, <2>3 DEF RemBegins, Rem!Map!Invoke
  <2> QED BY <1>1, <2>4 DEF Rem!Map!Next, Rem!MapStep
<1>3. CASE RemCommitted(t)
  <2>1. /\ call[t].key \in Keys /\ call[t].op = "put"
        /\ Rem!Store[call[t].key] = 0 /\ RemStoreSet(t, call[t].val)
    BY <1>0, <1>3, RemFoundAbsent, RemStoreStep
  <2>2. Rem!Store' = [Rem!Store EXCEPT ![call[t].key] = call[t].val]
    BY <1>0, <2>1 DEF RemStoreSet, RemStoreTyped
  <2>3. Rem!Map!Return(t, 1)
    BY <1>3 DEF RemCommitted, Rem!B!Return, Rem!Map!Return
  <2>4. Rem!Map!Insert(t)
    BY <2>1, <2>2, <2>3 DEF Rem!Map!Insert
  <2> QED BY <1>1, <2>4 DEF Rem!Map!Next, Rem!MapStep
<1>4. CASE RemFreed(t)
  <2>1. /\ call[t].key \in Keys /\ call[t].op = "remove"
        /\ Rem!Store[call[t].key] = cur[t] /\ cur[t] # 0
        /\ RemStoreSet(t, 0)
    BY <1>0, <1>4, RemFreedFacts, RemStoreStep
  <2>2. Rem!Store' = [Rem!Store EXCEPT ![call[t].key] = 0]
    BY <1>0, <2>1 DEF RemStoreSet, RemStoreTyped
  <2>3. Rem!Map!Return(t, cur[t])
    BY <1>4 DEF RemFreed, Rem!B!Return, Rem!Map!Return
  <2>4. Rem!Map!Delete(t)
    BY <2>1, <2>2, <2>3 DEF Rem!Map!Delete
  <2> QED BY <1>1, <2>4 DEF Rem!Map!Next, Rem!MapStep
<1>5. CASE ~RemCommitted(t) /\ ~RemFreed(t) /\ RemExplained(t)
  <2>1. Rem!Store' = Rem!Store
    BY <1>0, <1>5, RemStoreStep
  <2>2. CASE RemAnswers(t)
    <3>1. Rem!Map!Answer(t)
      BY <2>1, <2>2
      DEF RemAnswers, Rem!B!Return, Rem!Map!Answer, Rem!Map!Return
    <3> QED BY <1>1, <3>1 DEF Rem!Map!Next, Rem!MapStep
  <2>3. CASE RemMistakes(t)
    <3>1. Rem!MissesMarked(t)
      BY <1>1, <2>1, <2>3
      DEF RemMistakes, Rem!B!Return, Rem!MissesMarked, Rem!Map!Return
    <3> QED BY <3>1 DEF Rem!MapStep
  <2>4. CASE UNCHANGED <<call, ret>>
    <3>1. \A u \in Threads : seen'[u] = seen[u]
      BY <1>0, <2>1, <2>4 DEF RemStep, Rem!Observe, RemObservedOk
    <3>2. seen' = seen
      BY <1>0, <3>1 DEF RemStep, Rem!Observe
    <3> QED BY <2>1, <2>4, <3>2 DEF Rem!Map!vars
  <2> QED BY <1>5, <2>2, <2>3, <2>4 DEF RemExplained
<1> QED BY <1>2, <1>3, <1>4, <1>5, RemOwnStep

LEMMA RemNextLinear ==
  RemLinear /\ [Rem!Next]_(Rem!vars)
    => RemLinear' /\ [Rem!MapStep]_(Rem!Map!vars)
<1> SUFFICES ASSUME RemLinear, [Rem!Next]_(Rem!vars)
             PROVE  RemLinear' /\ [Rem!MapStep]_(Rem!Map!vars)
  OBVIOUS
<1>1. ASSUME NEW t \in Threads, RemStep(t)
      PROVE  RemLinear' /\ [Rem!MapStep]_(Rem!Map!vars)
  <2>1. RemPuts' /\ RemNewValues'
    BY <1>1, RemPutsStep, RemNewValuesStep DEF RemLinear
  <2>2. RemCallOk(t)'
    BY <1>1, RemOwnStep
  <2>3. \A u \in Threads \ {t} : RemCallOk(u)'
    BY <1>1, RemOtherStep
  <2> QED BY <1>1, <2>1, <2>2, <2>3, RemMapStep DEF RemLinear
<1>2. CASE UNCHANGED Rem!vars
  <2>0. UNCHANGED <<word, key, val, call, pc, snap, slot, idx, cur, puts,
                    ret, seen, met>>
    BY <1>2 DEF Rem!vars, Rem!shared, Rem!locals
  <2>1. Rem!Store' = Rem!Store
    BY <2>0 DEF Rem!Store, Rem!Entry
  <2>2. /\ \A i \in RemSlots : RemVisible(i)' <=> RemVisible(i)
        /\ \A t \in Threads : RemOp(t)' <=> RemOp(t)
        /\ \A t \in Threads, i \in RemSlots :
             RemFills(t, i)' <=> RemFills(t, i)
        /\ \A t \in Threads : \A v : RemPut(t, v)' <=> RemPut(t, v)
    BY <2>0 DEF RemVisible, RemOp, RemFills, RemPut
  <2>3. RemBase'
    <3>1. RemInv'
      BY <1>2, RemNextInv DEF RemLinear, RemPuts, RemBase
    <3>2. RemFields' <=> RemFields
      BY <2>0 DEF RemFields
    <3> QED BY <2>2, <3>1, <3>2 DEF RemLinear, RemPuts, RemBase
  <2>4. RemFilling' /\ RemPutsDiffer' /\ RemUnique'
    BY <2>0, <2>2
    DEF RemLinear, RemPuts, RemFilling, RemFilled, RemPutsDiffer, RemUnique
  <2>5. RemVersions'
    <3>1. RemPendingVals' = RemPendingVals
      BY <2>2 DEF RemPendingVals
    <3> QED BY <2>0, <3>1 DEF RemLinear, RemPuts, RemVersions
  <2>6. RemSnapshots' /\ RemSearches'
    <3>1. \A t \in Threads :
            /\ RemWorking(t)' <=> RemWorking(t)
            /\ RemSnapshotOk(t)' <=> RemSnapshotOk(t)
            /\ \A i \in RemSlots : RemPassed(t, i)' <=> RemPassed(t, i)
      BY <2>0, <2>2 DEF RemWorking, RemSnapshotOk, RemPassed
    <3>2. \A t \in Threads : RemFresh(t)' <=> RemFresh(t)
      BY <2>0, <2>2, <3>1 DEF RemFresh
    <3>3. \A t \in Threads : RemVisible(idx[t])' <=> RemVisible(idx[t])
      BY <2>0 DEF RemVisible
    <3>4. \A t \in Threads : RemSearchOk(t)' <=> RemSearchOk(t)
      BY <2>0, <2>2, <3>1, <3>3 DEF RemSearchOk
    <3> QED
      BY <3>1, <3>2, <3>4
      DEF RemLinear, RemPuts, RemSnapshots, RemSearches
  <2>7. RemNewValues'
    <3>1. \A t \in Threads : RemNewValue(t)' <=> RemNewValue(t)
      BY <2>0 DEF RemNewValue, RemUnwritten
    <3> QED BY <2>0, <3>1 DEF RemLinear, RemNewValues
  <2>8. \A t \in Threads : RemCallOk(t)'
    <3> SUFFICES ASSUME NEW t \in Threads PROVE RemCallOk(t)'
      OBVIOUS
    <3>0. RemCallOk(t) /\ idx[t] \in RemSlots
      BY RemTypeFacts DEF RemLinear, RemPuts
    <3>1. PICK i \in RemSlots : i = idx[t] /\ i = idx'[t]
      BY <2>0, <3>0
    <3>2. /\ RemAbsent(t)' <=> RemAbsent(t)
          /\ \A j \in RemSlots : RemPresent(j, call[t].key)' <=>
                                   RemPresent(j, call[t].key)
          /\ RemObservedOk(t)' <=> RemObservedOk(t)
      BY <2>0, <2>1, <2>2
      DEF RemAbsent, RemPresent, RemObservedOk, Rem!B!Idle
    <3>3. /\ RemAhead(t)' <=> RemAhead(t)
          /\ RemValOk(t, i)' <=> RemValOk(t, i)
          /\ RemReadOk(t, i)' <=> RemReadOk(t, i)
      BY <2>0, <2>2, <3>2 DEF RemAhead, RemValOk, RemReadOk
    <3>4. RemMarkOk(t)'
      BY <2>0, <3>0, <3>1, <3>2 DEF RemCallOk, RemMarkOk
    <3>5. /\ pc'[t] \in {"search_map", "rem_map"} => RemValOk(t, i)'
          /\ pc'[t] \in {"search_key", "rem_key"} \cup RemAgain
               => RemReadOk(t, i)'
      BY <2>0, <3>0, <3>1, <3>3 DEF RemCallOk
    <3>6. /\ RemObservedOk(t)'
          /\ pc'[t] \in RemSearching => RemAhead(t)'
          /\ pc'[t] \in RemLooking => met'[t] \/ RemAhead(t)'
          /\ pc'[t] = "release" => \E v \in seen'[t] : v # Rem!B!NoVal
      BY <2>0, <3>0, <3>2, <3>3 DEF RemCallOk
    <3> QED BY <3>1, <3>4, <3>5, <3>6 DEF RemCallOk
  <2>9. UNCHANGED Rem!Map!vars
    BY <2>0, <2>1 DEF Rem!Map!vars
  <2> QED
    BY <2>3, <2>4, <2>5, <2>6, <2>7, <2>8, <2>9 DEF RemLinear, RemPuts
<1> QED BY <1>1, <1>2 DEF Rem!Next, RemStep, RemSteps

RemLinearOf == variant = "map_rem" => RemLinear

LEMMA RemLinearSteps ==
  Spec => /\ [](RemLinearOf)
          /\ variant = "map_rem" => Rem!Map!Init
          /\ [][variant = "map_rem" => [Rem!MapStep]_(Rem!Map!vars)]_vars
<1>1. Init => RemLinearOf /\ (variant = "map_rem" => Rem!Map!Init)
  BY RemInitLinear DEF Init, RemLinearOf
<1>2. RemLinearOf /\ [Next]_vars
        => /\ RemLinearOf'
           /\ variant = "map_rem" => [Rem!MapStep]_(Rem!Map!vars)
  <2> SUFFICES ASSUME RemLinearOf, [Next]_vars, variant = "map_rem"
               PROVE  RemLinear' /\ [Rem!MapStep]_(Rem!Map!vars)
    BY DEF RemLinearOf, Next, vars
  <2>1. [Rem!Next]_(Rem!vars)
    BY DEF Next, vars, calls, threads, ofMapRem, Rem!vars, Rem!shared,
           Rem!locals
  <2>2. RemLinear
    BY DEF RemLinearOf
  <2> QED BY <2>1, <2>2, RemNextLinear
<1> QED BY <1>1, <1>2, PTL DEF Spec

(* src/clht_lf_only_map_rem.c: every call takes effect at one moment, but  *)
(* for a remove that comes to a slot which another remove has marked: it   *)
(* may answer that the key is absent.  This holds for any number of        *)
(* threads, keys, slots and puts.                                          *)
THEOREM MapRemRefines == Spec => MapRemImplementsMap
BY RemLinearSteps, PTL DEF MapRemImplementsMap
=============================================================================
