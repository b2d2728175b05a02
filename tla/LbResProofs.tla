---------------------------- MODULE LbResProofs ----------------------------
(***************************************************************************)
(* Proofs about LbRes: the mutex of each table and the list of its tables  *)
(* while they are resized, for any number of threads, tables and keys.     *)
(***************************************************************************)
EXTENDS LbRes, NatFacts, SequenceTheorems, TLAPS

-----------------------------------------------------------------------------
(* The inductive invariant.                                                *)

TableOf(n) ==
  [num : {n}, chain : [0 .. n - 1 -> Seq(Cells)],
   mutex : Threads \cup {NoThread}, expands : Nat,
   marked : SUBSET (0 .. n - 1), prev : Nat, released : BOOLEAN]
Table == UNION {TableOf(n) : n \in Nat \ {0}}

HeapType ==
  /\ tables \in Seq(Table) /\ Len(tables) \in 1 .. MaxTables
  /\ \A v \in 1 .. Len(tables) : tables[v].prev \in Null .. v - 1
  /\ ht \in 1 .. Len(tables)
  /\ resize_lock \in BOOLEAN

LocalType ==
  /\ call \in [Threads -> Calls]
  /\ pc \in [Threads -> Labels]
  /\ tab \in [Threads -> Null .. ht]
  /\ {bin, idx, by} \subseteq [Threads -> Nat]
  /\ copied \in [Threads -> Keys \cup {NoKey}]
  /\ cur \in [Threads -> Vals \cup {NoVal}]
  /\ resize \in [Threads -> BOOLEAN]
  /\ ret \in [Threads -> Vals \cup {0, 1}]

HistoryType ==
  /\ updates \in 0 .. MaxUpdates /\ net \in Int /\ raced \in BOOLEAN
  /\ seen \in [Threads -> SUBSET (Vals \cup {NoVal})]

(* The steps of a call, those with a table, and those of a copy.           *)
Calling == {"get_val", "get_key", "exists", "lock", "write_key"}
Tabless == {"idle", "status", "ht_old"}
CopyLabels == {"copy_lock", "copy_key", "copy_val"}

Copying(t) == pc[t] \in CopyLabels
Holding(t) == Copying(t) \/ At(t, "resize_unlock")   \* resize_lock
(* The thread that is to resize the current table.                         *)
Chosen(t) == resize[t] \/ pc[t] \in {"ht_old", "resize_lock"} \cup CopyLabels

(* What thread t knows at each of its steps.                               *)
ThreadInv(t) ==
  /\ pc[t] \in Calling => call[t] # Idle
  /\ pc[t] \notin Tabless => tab[t] # Null
  /\ resize[t] => pc[t] \in {"unlock", "status", "resize_unlock"}
  /\ At(t, "status") => resize[t]
  /\ pc[t] \in {"ht_old", "resize_lock"} => by[t] # 0
  /\ At(t, "resize_lock") \/ Copying(t) => tab[t] = ht
  /\ At(t, "resize_unlock") => tab[t] < ht
  /\ Holding(t) => resize_lock
  /\ pc[t] \in {"copy_key", "copy_val"} => bin[t] < tables[tab[t]].num
  /\ At(t, "copy_val") =>
       copied[t] \in Keys /\ idx[t] \in DOMAIN tables[tab[t]].chain[bin[t]]

(* A table triggers one resize at most, so one thread at most is chosen;   *)
(* resize_lock alone would let a second one in after the first.            *)
OneChosen ==
  /\ \A t, u \in Threads : Chosen(t) /\ Chosen(u) => t = u
  /\ \A t, u \in Threads : Holding(t) /\ Holding(u) => t = u
Triggered(v) == tables[v].expands >= Threshold(v)

ListInv ==
  /\ Len(tables) = IF \E t \in Threads : Copying(t) THEN ht + 1 ELSE ht
  /\ \A v \in 1 .. ht - 1 : Triggered(v)
  /\ (\E t \in Threads : Chosen(t)) => Triggered(ht)
  /\ \A v \in 2 .. ht : tables[v].prev = v - 1
  /\ \A v \in 1 .. Len(tables) : tables[v].released => v < ht

IInv ==
  /\ HeapType /\ LocalType /\ HistoryType
  /\ \A t \in Threads : ThreadInv(t)
  /\ OneChosen /\ ListInv /\ LockDiscipline

-----------------------------------------------------------------------------
(* Types of the operators.                                                 *)

LEMMA CallTypes ==
  /\ Idle \in Calls
  /\ \A k \in Keys, op \in {"get", "remove"} :
       /\ [op |-> op, key |-> k, val |-> NoVal] \in Calls
       /\ [op |-> op, key |-> k, val |-> NoVal] # Idle
  /\ \A k \in Keys, v \in Vals :
       /\ [op |-> "put", key |-> k, val |-> v] \in Calls
       /\ [op |-> "put", key |-> k, val |-> v] # Idle
  /\ \A c \in Calls : c.op = "put" => c.val \in Vals /\ c.key \in Keys
  /\ \A c \in Calls : c # Idle => c.key \in Keys
BY DEF Calls, Idle

LEMMA KeyTypes ==
  /\ Keys \subseteq Nat
  /\ Unused \in Cells
  /\ \A k \in Keys, v \in Vals : [key |-> k, val |-> v] \in Cells
  /\ \A c \in Cells, k \in Keys \cup {NoKey} : [c EXCEPT !.key = k] \in Cells
  /\ \A c \in Cells, v \in Vals : [c EXCEPT !.val = v] \in Cells
BY LbAssumption DEF Unused, Cells

LEMMA TableFields ==
  ASSUME NEW T \in Table
  PROVE  /\ T.num \in Nat \ {0}
         /\ T \in TableOf(T.num)
<1>1. PICK n \in Nat \ {0} : T \in TableOf(n)
  BY DEF Table
<1>2. T.num = n
  BY <1>1 DEF TableOf
<1> QED BY <1>1, <1>2

LEMMA TableTyped ==
  ASSUME HeapType, NEW v \in 1 .. Len(tables)
  PROVE  /\ tables[v] \in Table
         /\ tables[v].num \in Nat \ {0}
         /\ tables[v] \in TableOf(tables[v].num)
<1>1. tables \in Seq(Table)
  BY DEF HeapType
<1>2. tables[v] \in Table
  BY <1>1, ElementOfSeq
<1> QED BY <1>2, TableFields

LEMMA BinType ==
  ASSUME HeapType, NEW v \in 1 .. Len(tables), NEW k \in Nat
  PROVE  /\ Bin(v, k) \in 0 .. tables[v].num - 1
         /\ Chain(v, k) \in Seq(Cells)
<1>1. Bin(v, k) \in 0 .. tables[v].num - 1
  BY TableTyped, ModInRange DEF Bin
<1>2. tables[v].chain \in [0 .. tables[v].num - 1 -> Seq(Cells)]
  BY TableTyped DEF TableOf
<1> QED BY <1>1, <1>2 DEF Chain

LEMMA HavingType ==
  ASSUME NEW chain \in Seq(Cells), NEW k
  PROVE  /\ Having(chain, k) \subseteq 1 .. Len(chain)
         /\ Having(chain, k) # {} => Min(Having(chain, k)) \in Having(chain, k)
<1>1. Having(chain, k) \subseteq 1 .. Len(chain)
  BY DEF Having
<1>2. Having(chain, k) \in SUBSET Nat
  BY <1>1
<1> QED BY <1>1, <1>2, MinIsLeast

StoreTyped == Store \in [Keys -> Vals \cup {NoVal}]

LEMMA StoreType == HeapType => StoreTyped
<1> SUFFICES ASSUME HeapType, NEW k \in Keys
             PROVE  Lookup(ht, k) \in Vals \cup {NoVal}
  BY DEF StoreTyped, Store
<1>1. ht \in 1 .. Len(tables) /\ k \in Nat
  BY KeyTypes DEF HeapType
<1> DEFINE chain == Chain(ht, k)
           found == Having(chain, k)
<1>2. chain \in Seq(Cells)
  BY <1>1, BinType
<1>3. found # {} => Min(found) \in 1 .. Len(chain)
  <2> HIDE DEF chain
  <2> QED BY <1>2, HavingType
<1>4. found # {} => chain[Min(found)] \in Cells
  <2> HIDE DEF chain
  <2> QED BY <1>2, <1>3, ElementOfSeq
<1> QED BY <1>4 DEF Lookup, Cells

(* The history of a call holds values.                                     *)
LEMMA ObserveType ==
  ASSUME HistoryType, HeapType', call' \in [Threads -> Calls], Observe
  PROVE  seen' \in [Threads -> SUBSET (Vals \cup {NoVal})]
<1>1. StoreTyped'
  BY StoreType, PTL
<1>2. \A t \in Threads : call'[t] # Idle => call'[t].key \in Keys
  BY CallTypes
<1> QED
  BY <1>1, <1>2 DEF Observe, HistoryType, StoreTyped

LEMMA FiniteDomain ==
  ASSUME NEW s \in Seq(Cells)
  PROVE  IsFiniteSet(DOMAIN s)
<1>1. Len(s) \in Nat /\ DOMAIN s = 1 .. Len(s)
  OBVIOUS
<1>2. IsFiniteSet(1 .. Len(s))
  BY <1>1, FS_Interval
<1> QED BY <1>1, <1>2, Zenon

LEMMA SizeType ==
  ASSUME HeapType, NEW v \in 1 .. Len(tables)
  PROVE  Size(v) \in Nat
<1> DEFINE chain == tables[v].chain
           of(b) == {b} \X (DOMAIN chain[b] \ Having(chain[b], NoKey))
           places == {of(b) : b \in DOMAIN chain}
<1>1. /\ DOMAIN chain = 0 .. tables[v].num - 1
      /\ \A b \in DOMAIN chain : chain[b] \in Seq(Cells)
  BY TableTyped DEF TableOf
<1>2. IsFiniteSet(DOMAIN chain)
  <2>1. IsFiniteSet(0 .. tables[v].num - 1)
    <3>1. 0 \in Int /\ tables[v].num - 1 \in Int
      BY TableTyped
    <3> QED BY <3>1, FS_Interval
  <2> QED BY <1>1, <2>1, Zenon
<1>3. ASSUME NEW b \in DOMAIN chain PROVE IsFiniteSet(of(b))
  <2>1. IsFiniteSet(DOMAIN chain[b])
    BY <1>1, FiniteDomain
  <2>2. IsFiniteSet(DOMAIN chain[b] \ Having(chain[b], NoKey))
    BY <2>1, FS_Difference
  <2>3. IsFiniteSet({b})
    BY FS_Singleton
  <2> QED BY <2>2, <2>3, FS_Product
<1>4. IsFiniteSet(places)
  <2> DEFINE f == [b \in DOMAIN chain |-> of(b)]
  <2>1. f \in Surjection(DOMAIN chain, places)
    BY DEF Surjection
  <2> HIDE DEF f, places, chain
  <2> QED BY <1>2, <2>1, FS_Surjection
<1>5. IsFiniteSet(UNION places)
  <2>1. \A S \in places : IsFiniteSet(S)
    BY <1>3
  <2> HIDE DEF places
  <2> QED BY <1>4, <2>1, FS_UNION
<1>6. Cardinality(UNION places) \in Nat
  <2> HIDE DEF places
  <2> QED BY <1>5, FS_CardinalityType
<1> QED BY <1>6 DEF Size

LEMMA LinkedType ==
  ASSUME NEW chain \in Seq(Cells), NEW c \in Cells
  PROVE  /\ Linked(chain, c) \in Seq(Cells)
         /\ DOMAIN chain \subseteq DOMAIN Linked(chain, c)
<1> DEFINE more == [i \in 1 .. Entries |-> IF i = 1 THEN c ELSE Unused]
<1>1. more \in Seq(Cells)
  BY KeyTypes, LbAssumption
<1> HIDE DEF more
<1>2. /\ chain \o more \in Seq(Cells)
      /\ DOMAIN chain \subseteq DOMAIN (chain \o more)
  BY <1>1
<1>3. Linked(chain, c) = chain \o more
  BY DEF Linked, more
<1> QED BY <1>2, <1>3, Zenon

LEMMA NewTableType ==
  ASSUME NEW n \in Nat \ {0}
  PROVE  NewTable(n) \in TableOf(n) /\ NewTable(n) \in Table
<1>1. [i \in 1 .. Entries |-> Unused] \in Seq(Cells)
  BY KeyTypes, LbAssumption
<1>2. [b \in 0 .. n - 1 |-> [i \in 1 .. Entries |-> Unused]]
        \in [0 .. n - 1 -> Seq(Cells)]
  BY <1>1
<1>3. NewTable(n) \in TableOf(n)
  BY <1>2 DEF NewTable, TableOf, Null
<1> QED BY <1>3 DEF Table

(* One table of the heap is replaced by another.                           *)
LEMMA TablesUpdate ==
  ASSUME HeapType, NEW v \in 1 .. Len(tables), NEW T \in Table,
         tables' = [tables EXCEPT ![v] = T]
  PROVE  /\ tables' \in Seq(Table) /\ Len(tables') = Len(tables)
         /\ tables'[v] = T
         /\ \A u \in 1 .. Len(tables) : u # v => tables'[u] = tables[u]
BY DEF HeapType

LEMMA FactorType ==
  ASSUME HeapType, NEW v \in 1 .. Len(tables)
  PROVE  Max({2, Pow2RoundUp(IncBy(v))}) \in Nat \ {0}
<1>1. IncBy(v) \in Nat
  <2> DEFINE a == tables[v].num * Entries
             b == a * Occup
             c == 100 * Size(v)
  <2>1. a \in Nat \ {0}
    BY TableTyped, LbAssumption
  <2>2. b \in Nat \ {0}
    <3> HIDE DEF a
    <3> QED BY <2>1, LbAssumption
  <2>3. c \in Nat
    BY SizeType
  <2>4. c \div b \in Nat
    <3> HIDE DEF b, c
    <3> QED BY <2>2, <2>3
  <2> QED BY <2>4 DEF IncBy
<1> DEFINE p == Pow2RoundUp(IncBy(v))
<1>2. p \in {2 ^ e : e \in 0 .. IncBy(v)}
  <2> DEFINE x == IncBy(v)
  <2> HIDE DEF x
  <2>1. Pow2RoundUp(x) \in {2 ^ e : e \in 0 .. x}
    BY <1>1, RoundedUp DEF Pow2RoundUp, x
  <2> QED BY <2>1 DEF x
<1>3. p \in Nat
  BY <1>1, <1>2, PowerGrows
<1> HIDE DEF p
<1>4. \E m \in {2, p} : \A y \in {2, p} : m >= y
  BY <1>3
<1>5. Max({2, p}) \in {2, p} /\ Max({2, p}) >= 2
  BY <1>3, <1>4 DEF Max
<1> QED BY <1>3, <1>5 DEF p

-----------------------------------------------------------------------------
(* What a step of one thread leaves alone.                                 *)

OthersKept(t) ==
  \A u \in Threads \ {t} :
    /\ pc'[u] = pc[u] /\ call'[u] = call[u] /\ tab'[u] = tab[u]
    /\ bin'[u] = bin[u] /\ idx'[u] = idx[u] /\ copied'[u] = copied[u]
    /\ by'[u] = by[u] /\ resize'[u] = resize[u]

Evolves ==
  /\ Len(tables) <= Len(tables')
  /\ \A v \in 1 .. Len(tables) :
       /\ tables'[v].num = tables[v].num
       /\ tables[v].expands <= tables'[v].expands
       /\ \A b \in 0 .. tables[v].num - 1 :
            DOMAIN tables[v].chain[b] \subseteq DOMAIN tables'[v].chain[b]

SameList ==
  /\ Len(tables') = Len(tables)
  /\ UNCHANGED ht /\ (resize_lock => resize_lock')
  /\ \A v \in 1 .. Len(tables) :
       /\ tables'[v].prev = tables[v].prev
       /\ tables'[v].released = tables[v].released

SameMutexes ==
  /\ Len(tables') = Len(tables)
  /\ \A v \in 1 .. Len(tables) : tables'[v].mutex = tables[v].mutex

LEMMA ThreadKept ==
  ASSUME HeapType, LocalType, NEW t \in Threads, NEW u \in Threads \ {t},
         OthersKept(t), Evolves, ThreadInv(u), Holding(u) => resize_lock',
         ht' \in Nat, ht <= ht', Chosen(u) => ht' = ht
  PROVE  ThreadInv(u)'
<1> DEFINE v == tab[u]
<1>1. v \in Null .. ht /\ ht \in 1 .. Len(tables) /\ bin[u] \in Nat
  BY DEF HeapType, LocalType
<1>2. UNCHANGED <<pc[u], call[u], tab[u], bin[u], idx[u], copied[u], by[u], resize[u]>>
  BY DEF OthersKept
<1>3. pc[u] \in {"copy_key", "copy_val"} =>
        bin'[u] < tables'[tab'[u]].num
  BY <1>1, <1>2 DEF Evolves, ThreadInv, Tabless, Null
<1>4. At(u, "copy_val") =>
        copied'[u] \in Keys /\ idx'[u] \in DOMAIN tables'[tab'[u]].chain[bin'[u]]
  <2> SUFFICES ASSUME At(u, "copy_val")
               PROVE  copied'[u] \in Keys
                      /\ idx'[u] \in DOMAIN tables'[tab'[u]].chain[bin'[u]]
    OBVIOUS
  <2>1. v \in 1 .. Len(tables)
    BY <1>1 DEF ThreadInv, Tabless, Null, At
  <2>2. bin[u] \in 0 .. tables[v].num - 1
    BY <1>1, <2>1, TableTyped DEF ThreadInv, At
  <2>3. idx[u] \in DOMAIN tables[v].chain[bin[u]] /\ copied[u] \in Keys
    BY DEF ThreadInv
  <2>4. idx[u] \in DOMAIN tables'[v].chain[bin[u]]
    BY <2>1, <2>2, <2>3 DEF Evolves
  <2> QED BY <1>2, <2>3, <2>4
<1>5. At(u, "resize_lock") \/ Copying(u) => tab'[u] = ht'
  BY <1>2 DEF ThreadInv, Chosen, Copying, At
<1>6. At(u, "resize_unlock") => tab'[u] < ht'
  BY <1>1, <1>2 DEF ThreadInv
<1> QED
  BY <1>2, <1>3, <1>4, <1>5, <1>6
  DEF ThreadInv, At, Copying, Holding

LEMMA LockKept ==
  ASSUME HeapType, LocalType, LockDiscipline, NEW t \in Threads,
         OthersKept(t), SameMutexes,
         pc[t] \in Critical <=> pc'[t] \in Critical,
         pc[t] \in Critical => tab'[t] = tab[t]
  PROVE  LockDiscipline'
BY DEF LockDiscipline, OthersKept, SameMutexes

LEMMA FrameStep ==
  ASSUME IInv, NEW t \in Threads, HeapType', LocalType', HistoryType',
         OthersKept(t), Evolves, SameList,
         Copying(t)' <=> Copying(t), Holding(t)' => Holding(t),
         \/ Chosen(t)' => Chosen(t)
         \/ Triggered(ht)' /\ \A u \in Threads : ~Chosen(u),
         ThreadInv(t)', LockDiscipline'
  PROVE  IInv'
<1>1. \A u \in Threads \ {t} :
        /\ Copying(u)' <=> Copying(u)
        /\ Holding(u)' <=> Holding(u)
        /\ Chosen(u)' <=> Chosen(u)
  BY DEF OthersKept, Copying, Holding, Chosen, At
<1>2. ht \in 1 .. Len(tables) /\ ht' = ht /\ Len(tables') = Len(tables)
  BY DEF IInv, HeapType, SameList
<1>3. \A u \in Threads : ThreadInv(u)'
  <2>1. ASSUME NEW u \in Threads \ {t} PROVE ThreadInv(u)'
    <3>1. Holding(u) => resize_lock'
      BY DEF IInv, ThreadInv, SameList
    <3> QED BY <1>2, <3>1, ThreadKept DEF IInv
  <2> QED BY <2>1
<1>4. OneChosen'
  BY <1>1 DEF IInv, OneChosen
<1>5. ListInv'
  <2>1. \A v \in 1 .. Len(tables) : Triggered(v) => Triggered(v)'
    <3> SUFFICES ASSUME NEW v \in 1 .. Len(tables), Triggered(v)
                 PROVE  Triggered(v)'
      OBVIOUS
    <3>1. /\ tables[v].num \in Nat /\ tables[v].expands \in Nat
          /\ tables'[v].expands \in Nat
      <4>1. tables'[v] \in Table
        BY <1>2, ElementOfSeq DEF HeapType
      <4> QED BY <4>1, TableTyped, TableFields DEF IInv, TableOf
    <3> QED BY <3>1 DEF Triggered, Threshold, Evolves
  <2>2. (\E u \in Threads : Copying(u)') <=> (\E u \in Threads : Copying(u))
    BY <1>1
  <2>3. \A v \in 1 .. ht - 1 : v \in 1 .. Len(tables)
    BY <1>2
  <2>4. (\E u \in Threads : Chosen(u)') => Triggered(ht)'
    <3>1. (\E u \in Threads : Chosen(u)) => Triggered(ht)'
      BY <1>2, <2>1 DEF IInv, ListInv
    <3> QED BY <1>1, <3>1
  <2>5. \A v \in 1 .. ht' - 1 : Triggered(v)'
    BY <1>2, <2>1, <2>3 DEF IInv, ListInv
  <2>6. /\ Len(tables') = IF \E u \in Threads : Copying(u)' THEN ht' + 1 ELSE ht'
        /\ \A v \in 2 .. ht' : tables'[v].prev = v - 1
        /\ \A v \in 1 .. Len(tables') : tables'[v].released => v < ht'
    BY <1>2, <2>2 DEF IInv, ListInv, SameList
  <2>7. (\E u \in Threads : Chosen(u))' => Triggered(ht)'
    BY <2>4
  <2> QED BY <2>5, <2>6, <2>7 DEF ListInv
<1> QED BY <1>3, <1>4, <1>5 DEF IInv

(* A step that leaves the heap alone.                                      *)
LEMMA QuietStep ==
  ASSUME IInv, NEW t \in Threads, UNCHANGED heap, LocalType',
         updates' \in 0 .. MaxUpdates, UNCHANGED history, Observe,
         OthersKept(t),
         Copying(t)' <=> Copying(t), Holding(t)' => Holding(t),
         Chosen(t)' => Chosen(t), ThreadInv(t)',
         pc[t] \notin Critical, pc'[t] \notin Critical
  PROVE  IInv'
<1>1. HeapType'
  BY DEF heap, HeapType, IInv
<1>2. HistoryType'
  <2>1. seen' \in [Threads -> SUBSET (Vals \cup {NoVal})]
    BY <1>1, ObserveType DEF IInv, LocalType
  <2> QED BY <2>1 DEF IInv, HistoryType, history
<1>3. Evolves /\ SameList /\ SameMutexes
  <2>1. \A v \in 1 .. Len(tables) : tables[v].expands \in Nat
    BY TableTyped DEF IInv, TableOf
  <2> QED BY <2>1 DEF Evolves, SameList, SameMutexes, heap, HeapType, IInv
<1>4. LockDiscipline'
  BY <1>3, LockKept DEF IInv
<1> QED BY <1>1, <1>2, <1>3, <1>4, FrameStep

-----------------------------------------------------------------------------
(* The steps that leave the heap alone.                                    *)

LEMMA BeginInv ==
  ASSUME IInv, NEW t \in Threads, NEW c \in Calls, NEW label \in {"get_val", "exists"},
         Begin(t, c, label), c # Idle, updates' \in 0 .. MaxUpdates, Observe
  PROVE  IInv'
<1>1. LocalType'
  BY DEF IInv, HeapType, LocalType, Begin, Goto, SetTab, SetIdx, Labels, heap,
         copy, Null
<1>2. OthersKept(t)
  BY DEF IInv, LocalType, OthersKept, Begin, Goto, SetTab, SetIdx, copy
<1>3. /\ pc[t] = "idle" /\ pc'[t] = label /\ call'[t] = c /\ tab'[t] = ht
      /\ resize'[t] = resize[t] /\ UNCHANGED <<heap, history>>
  BY DEF IInv, LocalType, Begin, Goto, SetTab, At
<1>4. ht # Null
  BY DEF IInv, HeapType, Null
<1>5. ~resize[t] /\ ~resize'[t]
  BY <1>3 DEF IInv, ThreadInv
<1>6. ThreadInv(t)'
  BY <1>3, <1>4, <1>5 DEF ThreadInv, Calling, Tabless, At, Copying, Holding, CopyLabels
<1> QED
  BY <1>1, <1>2, <1>3, <1>5, <1>6, QuietStep
  DEF Copying, Holding, Chosen, CopyLabels, Critical, At

LEMMA CallsInv ==
  ASSUME IInv, NEW t \in Threads, Get(t) \/ Put(t) \/ Remove(t), Observe
  PROVE  IInv'
<1>0. updates \in 0 .. MaxUpdates /\ MaxUpdates \in Nat
  BY LbAssumption DEF IInv, HistoryType
<1>1. CASE Get(t)
  <2>1. PICK k \in Keys :
          Begin(t, [op |-> "get", key |-> k, val |-> NoVal], "get_val")
    BY <1>1 DEF Get
  <2>2. updates' \in 0 .. MaxUpdates
    BY <1>0, <1>1 DEF Get
  <2> QED BY <2>1, <2>2, CallTypes, BeginInv
<1>2. CASE Put(t)
  <2>1. PICK k \in Keys :
          Begin(t, [op |-> "put", key |-> k, val |-> updates + 1], "exists")
    BY <1>2 DEF Put
  <2>2. updates' \in 0 .. MaxUpdates /\ updates + 1 \in Vals
    BY <1>0, <1>2 DEF Put, Vals
  <2> QED BY <2>1, <2>2, CallTypes, BeginInv
<1>3. CASE Remove(t)
  <2>1. PICK k \in Keys :
          Begin(t, [op |-> "remove", key |-> k, val |-> NoVal], "exists")
    BY <1>3 DEF Remove
  <2>2. updates' \in 0 .. MaxUpdates
    BY <1>0, <1>3 DEF Remove
  <2> QED BY <2>1, <2>2, CallTypes, BeginInv
<1> QED BY <1>1, <1>2, <1>3

LEMMA ReturnInv ==
  ASSUME IInv, NEW t \in Threads, pc[t] \in {"get_val", "exists"},
         Return(t, 0), Observe
  PROVE  IInv'
<1>1. LocalType'
  BY CallTypes
  DEF IInv, HeapType, LocalType, Return, Decide, Goto, SetTab, SetIdx,
      Labels, heap, copy, Null
<1>2. OthersKept(t)
  BY DEF IInv, LocalType, OthersKept, Return, Decide, Goto, SetTab, SetIdx, copy
<1>3. /\ pc'[t] = "idle" /\ resize'[t] = resize[t]
      /\ UNCHANGED <<heap, history, updates>>
  BY DEF IInv, LocalType, Return, Decide, Goto
<1>4. ~resize[t] /\ ~resize'[t]
  BY <1>3 DEF IInv, ThreadInv
<1>5. ThreadInv(t)'
  BY <1>3, <1>4
  DEF ThreadInv, Calling, Tabless, At, Copying, Holding, CopyLabels
<1>6. updates' \in 0 .. MaxUpdates
  BY <1>3 DEF IInv, HistoryType
<1> QED
  BY <1>1, <1>2, <1>3, <1>4, <1>5, <1>6, QuietStep
  DEF Copying, Holding, Chosen, CopyLabels, Critical, At

(* A search that goes on at label.                                         *)
LEMMA SearchInv ==
  ASSUME IInv, NEW t \in Threads,
         pc[t] \in {"get_val", "get_key", "exists"},
         NEW label \in {"get_val", "get_key", "exists", "lock"},
         pc' = [pc EXCEPT ![t] = label],
         idx' \in [Threads -> Nat], cur' \in [Threads -> Vals \cup {NoVal}],
         \A u \in Threads \ {t} : idx'[u] = idx[u],
         UNCHANGED <<heap, answers, history, tab, resize, copy>>, Observe
  PROVE  IInv'
<1>1. LocalType'
  BY DEF IInv, HeapType, LocalType, Labels, heap, answers, copy
<1>2. OthersKept(t)
  BY DEF IInv, LocalType, OthersKept, answers, copy
<1>3. pc'[t] = label /\ resize'[t] = resize[t]
  BY DEF IInv, LocalType
<1>4. ~resize[t] /\ ~resize'[t]
  BY <1>3 DEF IInv, ThreadInv
<1>5. ThreadInv(t)'
  BY <1>3, <1>4
  DEF IInv, ThreadInv, Calling, Tabless, At, Copying, Holding, CopyLabels, answers
<1>6. updates' \in 0 .. MaxUpdates
  BY DEF IInv, HistoryType, answers
<1> QED
  BY <1>1, <1>2, <1>3, <1>4, <1>5, <1>6, QuietStep
  DEF Copying, Holding, Chosen, CopyLabels, Critical, At

(* The table and the chain of a call in progress.                          *)
LEMMA CallFacts ==
  ASSUME HeapType, LocalType, NEW t \in Threads, ThreadInv(t), pc[t] \in Calling
  PROVE  /\ tab[t] \in 1 .. ht /\ tab[t] \in 1 .. Len(tables)
         /\ call[t].key \in Keys
         /\ MyChain(t) \in Seq(Cells)
         /\ Bin(tab[t], call[t].key) \in 0 .. tables[tab[t]].num - 1
         /\ tables[tab[t]].chain[Bin(tab[t], call[t].key)] = MyChain(t)
<1>1. tab[t] # Null /\ call[t] # Idle
  BY DEF ThreadInv, Calling, Tabless
<1>2. tab[t] \in 1 .. ht /\ tab[t] \in 1 .. Len(tables)
  BY <1>1 DEF HeapType, LocalType, Null
<1>3. call[t] \in Calls
  BY DEF LocalType
<1>4. call[t].key \in Keys
  BY <1>1, <1>3, CallTypes
<1> QED BY <1>2, <1>4, BinType, KeyTypes DEF MyChain, Chain

LEMMA GetValInv ==
  ASSUME IInv, NEW t \in Threads, GetVal(t), Observe
  PROVE  IInv'
<1>1. pc[t] = "get_val"
  BY DEF GetVal, At
<1>2. CASE AtEnd(t) /\ Return(t, 0)
  BY <1>1, <1>2, ReturnInv
<1>3. CASE ~AtEnd(t) /\ ~(AtEnd(t) /\ Return(t, 0))
  <2>1. Entry(t) \in Cells
    <3>1. MyChain(t) \in Seq(Cells)
      BY <1>1, CallFacts DEF IInv, Calling
    <3>2. idx[t] \in DOMAIN MyChain(t)
      BY <1>3 DEF AtEnd
    <3> HIDE DEF MyChain
    <3> QED BY <3>1, <3>2, ElementOfSeq DEF Entry
  <2>2. cur' \in [Threads -> Vals \cup {NoVal}]
    BY <1>3, <2>1 DEF GetVal, IInv, LocalType, Cells
  <2>3. idx' \in [Threads -> Nat] /\ \A u \in Threads \ {t} : idx'[u] = idx[u]
    BY <1>3 DEF GetVal, IInv, LocalType
  <2> QED
    BY <1>1, <1>3, <2>2, <2>3, SearchInv DEF GetVal, Goto
<1> QED BY <1>2, <1>3 DEF GetVal

LEMMA GetKeyInv ==
  ASSUME IInv, NEW t \in Threads, GetKey(t), Observe
  PROVE  IInv'
<1>1. pc[t] = "get_key"
  BY DEF GetKey, At
<1>2. idx' \in [Threads -> Nat] /\ \A u \in Threads \ {t} : idx'[u] = idx[u]
  BY DEF GetKey, SetIdx, IInv, LocalType
<1>3. cur' \in [Threads -> Vals \cup {NoVal}]
  BY DEF GetKey, IInv, LocalType
<1>4. UNCHANGED <<heap, answers, history, tab, resize, copy>>
  BY DEF GetKey
<1>5. \/ pc' = [pc EXCEPT ![t] = "lock"]
      \/ pc' = [pc EXCEPT ![t] = "get_val"]
  BY DEF GetKey, Goto
<1> QED BY <1>1, <1>2, <1>3, <1>4, <1>5, SearchInv

LEMMA ExistsInv ==
  ASSUME IInv, NEW t \in Threads, Exists(t), Observe
  PROVE  IInv'
<1>1. pc[t] = "exists"
  BY DEF Exists, At
<1>2. CASE Return(t, 0)
  BY <1>1, <1>2, ReturnInv
<1>3. CASE ~Return(t, 0)
  <2>1. idx' \in [Threads -> Nat] /\ \A u \in Threads \ {t} : idx'[u] = idx[u]
    BY <1>3 DEF Exists, SetIdx, IInv, LocalType
  <2>2. UNCHANGED <<heap, answers, history, tab, cur, resize, copy>>
    BY <1>3 DEF Exists
  <2>3. cur' \in [Threads -> Vals \cup {NoVal}]
    BY <2>2 DEF IInv, LocalType
  <2>4. \/ pc' = [pc EXCEPT ![t] = "lock"]
        \/ pc' = [pc EXCEPT ![t] = "exists"]
    BY <1>1, <1>3 DEF Exists, Goto, IInv, LocalType
  <2> QED BY <1>1, <2>1, <2>2, <2>3, <2>4, SearchInv
<1> QED BY <1>2, <1>3

LEMMA StatusInv ==
  ASSUME IInv, NEW t \in Threads, Status(t), Observe
  PROVE  IInv'
<1>1. ht \in 1 .. Len(tables) /\ HeapType
  BY DEF IInv, HeapType
<1>2. \/ pc' = [pc EXCEPT ![t] = "idle"] /\ by' = by
      \/ /\ pc' = [pc EXCEPT ![t] = "ht_old"]
         /\ by' = [by EXCEPT ![t] = Max({2, Pow2RoundUp(IncBy(ht))})]
  BY DEF Status, Goto
<1> DEFINE m == Max({2, Pow2RoundUp(IncBy(ht))})
<1>3. m \in Nat \ {0}
  BY <1>1, FactorType
<1> HIDE DEF m
<1>4. LocalType'
  <2>1. by' \in [Threads -> Nat]
    BY <1>2, <1>3 DEF m, IInv, LocalType
  <2>2. pc' \in [Threads -> Labels]
    BY <1>2 DEF IInv, LocalType, Labels
  <2>3. resize' \in [Threads -> BOOLEAN]
    BY DEF IInv, LocalType, Status
  <2>4. UNCHANGED <<call, ret, tab, bin, idx, copied, cur, ht>>
    BY DEF Status, heap, answers
  <2> QED
    BY <2>1, <2>2, <2>3, <2>4 DEF IInv, LocalType
<1>5. OthersKept(t)
  BY <1>2 DEF IInv, LocalType, OthersKept, Status, answers
<1>6. /\ pc[t] = "status" /\ pc'[t] \in {"idle", "ht_old"} /\ ~resize'[t]
      /\ resize[t] /\ (pc'[t] = "ht_old" => by'[t] # 0)
  BY <1>2, <1>3 DEF m, IInv, LocalType, Status, At, ThreadInv
<1>7. ThreadInv(t)'
  BY <1>6
  DEF ThreadInv, Calling, Tabless, At, Copying, Holding, CopyLabels
<1>8. updates' \in 0 .. MaxUpdates /\ UNCHANGED <<heap, history>>
  BY DEF IInv, HistoryType, answers, Status
<1> QED
  BY <1>4, <1>5, <1>6, <1>7, <1>8, QuietStep
  DEF Copying, Holding, Chosen, CopyLabels, Critical, At

LEMMA ReadOldInv ==
  ASSUME IInv, NEW t \in Threads, ReadOld(t), Observe
  PROVE  IInv'
<1>1. LocalType'
  BY DEF IInv, HeapType, LocalType, ReadOld, Goto, SetTab, Labels, heap, answers,
         copy, Null
<1>2. OthersKept(t)
  BY DEF IInv, LocalType, OthersKept, ReadOld, Goto, SetTab, answers, copy
<1>3. /\ pc[t] = "ht_old" /\ pc'[t] = "resize_lock" /\ tab'[t] = ht
      /\ resize'[t] = resize[t] /\ by'[t] # 0 /\ ~resize[t] /\ ht' = ht
      /\ ht # Null
  <2>1. pc[t] = "ht_old" /\ pc'[t] = "resize_lock" /\ tab'[t] = ht
    BY DEF IInv, LocalType, ReadOld, Goto, SetTab, At
  <2>2. resize' = resize /\ by' = by /\ ht' = ht
    BY DEF ReadOld, heap, copy
  <2>3. by[t] # 0 /\ ~resize[t] /\ ht # Null
    BY <2>1 DEF IInv, ThreadInv, HeapType, Null
  <2> QED BY <2>1, <2>2, <2>3
<1>4. ThreadInv(t)'
  BY <1>3
  DEF ThreadInv, Calling, Tabless, At, Copying, Holding, CopyLabels
<1>5. updates' \in 0 .. MaxUpdates /\ UNCHANGED <<heap, history>>
  BY DEF IInv, HistoryType, answers, ReadOld
<1> QED
  BY <1>1, <1>2, <1>3, <1>4, <1>5, QuietStep
  DEF Copying, Holding, Chosen, CopyLabels, Critical, At

(* The table that a resizer copies, its bucket and its chain.              *)
LEMMA CopyFacts ==
  ASSUME IInv, NEW t \in Threads, Copying(t)
  PROVE  /\ tab[t] = ht /\ ht \in 1 .. Len(tables) /\ Len(tables) = ht + 1
         /\ resize_lock /\ ~resize[t]
         /\ bin[t] < tables[ht].num =>
              /\ bin[t] \in 0 .. tables[ht].num - 1
              /\ tables[ht].chain[bin[t]] \in Seq(Cells)
<1>1. tab[t] = ht /\ resize_lock /\ ~resize[t]
  BY DEF IInv, ThreadInv, Holding, Copying, CopyLabels
<1>2. ht \in 1 .. Len(tables) /\ Len(tables) = ht + 1
  BY DEF IInv, HeapType, ListInv
<1>3. bin[t] < tables[ht].num => bin[t] \in 0 .. tables[ht].num - 1
  BY <1>2, TableTyped DEF IInv, LocalType
<1>4. tables[ht].chain \in [0 .. tables[ht].num - 1 -> Seq(Cells)]
  BY <1>2, TableTyped DEF IInv, TableOf
<1> QED BY <1>1, <1>2, <1>3, <1>4

LEMMA CopyKeyInv ==
  ASSUME IInv, NEW t \in Threads, CopyKey(t), Observe
  PROVE  IInv'
<1> DEFINE chain == tables[tab[t]].chain[bin[t]]
<1>1. pc[t] = "copy_key" /\ Copying(t)
  BY DEF CopyKey, At, Copying, CopyLabels
<1>2. bin[t] < tables[tab[t]].num /\ chain \in Seq(Cells)
  BY <1>1, CopyFacts DEF IInv, ThreadInv
<1>3. \/ /\ bin' = [bin EXCEPT ![t] = @ + 1]
         /\ idx' = [idx EXCEPT ![t] = 0]
         /\ pc' = [pc EXCEPT ![t] = "copy_lock"] /\ copied' = copied
      \/ /\ idx' = [idx EXCEPT ![t] = @ + 1]
         /\ UNCHANGED <<pc, bin, copied>>
      \/ /\ idx[t] \in DOMAIN chain /\ chain[idx[t]].key # NoKey
         /\ copied' = [copied EXCEPT ![t] = chain[idx[t]].key]
         /\ pc' = [pc EXCEPT ![t] = "copy_val"]
         /\ UNCHANGED <<idx, bin>>
  BY DEF CopyKey, SetIdx, Goto
<1>4. idx[t] \in DOMAIN chain => chain[idx[t]] \in Cells
  <2> HIDE DEF chain
  <2> QED BY <1>2, ElementOfSeq
<1>5. UNCHANGED <<heap, answers, history, tab, cur, resize, by>>
  BY DEF CopyKey
<1> HIDE DEF chain
<1>6. LocalType'
  <2>1. bin' \in [Threads -> Nat] /\ idx' \in [Threads -> Nat]
    BY <1>3 DEF IInv, LocalType
  <2>2. pc' \in [Threads -> Labels]
    BY <1>3 DEF IInv, LocalType, Labels
  <2>3. copied' \in [Threads -> Keys \cup {NoKey}]
    BY <1>3, <1>4 DEF IInv, LocalType, Cells
  <2>4. UNCHANGED <<call, ret, tab, by, resize, cur, ht>>
    BY <1>5 DEF heap, answers
  <2> QED
    BY <2>1, <2>2, <2>3, <2>4 DEF IInv, LocalType
<1>7. OthersKept(t)
  BY <1>3, <1>5 DEF IInv, LocalType, OthersKept, answers
<1>8. pc'[t] \in CopyLabels /\ Copying(t)' /\ Holding(t)' /\ Chosen(t)
  BY <1>1, <1>3 DEF IInv, LocalType, Copying, CopyLabels, Holding, Chosen
<1>9. ThreadInv(t)'
  <2>1. /\ tab'[t] = ht' /\ tab'[t] # Null /\ resize_lock'
        /\ resize'[t] = resize[t] /\ ~resize[t] /\ UNCHANGED tables
    BY <1>1, <1>5, CopyFacts DEF heap, Null
  <2>2. pc'[t] \in {"copy_key", "copy_val"} => bin'[t] < tables[tab[t]].num
    BY <1>2, <1>3 DEF IInv, LocalType
  <2>3. pc'[t] = "copy_val" =>
          copied'[t] \in Keys /\ idx'[t] \in DOMAIN tables[tab[t]].chain[bin'[t]]
    BY <1>1, <1>3, <1>4 DEF IInv, LocalType, chain, Cells
  <2> QED
    BY <1>5, <1>8, <2>1, <2>2, <2>3
    DEF ThreadInv, Calling, Tabless, At, Copying, Holding, CopyLabels
<1>10. updates' \in 0 .. MaxUpdates
  BY <1>5 DEF IInv, HistoryType, answers
<1> QED
  BY <1>1, <1>5, <1>6, <1>7, <1>8, <1>9, <1>10, QuietStep
  DEF Copying, Holding, CopyLabels, Critical, At

-----------------------------------------------------------------------------
(* The steps with the mutex of a table.                                    *)

(* A table of which a chain, the mutex and the count change.               *)
Changed(T, b, c, m, e) ==
  [T EXCEPT !.mutex = m, !.chain = [@ EXCEPT ![b] = c], !.expands = e]

LEMMA ChangedType ==
  ASSUME NEW T \in Table, NEW b \in 0 .. T.num - 1, NEW c \in Seq(Cells),
         NEW m \in Threads \cup {NoThread}, NEW e \in Nat
  PROVE  LET new == Changed(T, b, c, m, e)
         IN  /\ new \in Table
             /\ new.num = T.num /\ new.mutex = m /\ new.expands = e
             /\ new.prev = T.prev /\ new.released = T.released
             /\ new.marked = T.marked
             /\ new.chain[b] = c
             /\ \A d \in 0 .. T.num - 1 : d # b => new.chain[d] = T.chain[d]
<1> DEFINE new == Changed(T, b, c, m, e)
<1>1. T.num \in Nat \ {0} /\ T \in TableOf(T.num)
  BY TableFields
<1>2. [T.chain EXCEPT ![b] = c] \in [0 .. T.num - 1 -> Seq(Cells)]
  BY <1>1 DEF TableOf
<1>3. /\ new.num = T.num /\ new.mutex = m /\ new.expands = e
      /\ new.prev = T.prev /\ new.released = T.released
      /\ new.marked = T.marked /\ new.chain = [T.chain EXCEPT ![b] = c]
  BY <1>1 DEF Changed, TableOf
<1>4. new \in TableOf(T.num)
  BY <1>1, <1>2 DEF Changed, TableOf
<1>5. /\ new.chain[b] = c
      /\ \A d \in 0 .. T.num - 1 : d # b => new.chain[d] = T.chain[d]
  <2>1. T.chain \in [0 .. T.num - 1 -> Seq(Cells)]
    BY <1>1 DEF TableOf
  <2> QED BY <1>3, <2>1
<1>6. new \in Table
  BY <1>1, <1>4 DEF Table
<1> HIDE DEF new
<1> QED BY <1>3, <1>5, <1>6 DEF new

TableChanges(v, b, c, m, e) ==
  /\ HeapType /\ v \in 1 .. Len(tables)
  /\ b \in 0 .. tables[v].num - 1 /\ c \in Seq(Cells)
  /\ m \in Threads \cup {NoThread} /\ e \in Nat
  /\ DOMAIN tables[v].chain[b] \subseteq DOMAIN c /\ tables[v].expands <= e
  /\ tables' = [tables EXCEPT ![v] = Changed(tables[v], b, c, m, e)]
  /\ UNCHANGED <<ht, resize_lock>>

LEMMA HeapUpdate ==
  ASSUME NEW v, NEW b, NEW c, NEW m, NEW e, TableChanges(v, b, c, m, e)
  PROVE  /\ HeapType' /\ Evolves /\ SameList
         /\ tables'[v].mutex = m /\ tables'[v].expands = e
         /\ \A u \in 1 .. Len(tables) : u # v => tables'[u] = tables[u]
<1> DEFINE T == tables[v]
           new == Changed(T, b, c, m, e)
<1>1. HeapType /\ v \in 1 .. Len(tables) /\ T \in Table
  BY TableTyped DEF TableChanges
<1>2. /\ new \in Table
      /\ new.num = T.num /\ new.mutex = m /\ new.expands = e
      /\ new.prev = T.prev /\ new.released = T.released
      /\ new.chain[b] = c
      /\ \A d \in 0 .. T.num - 1 : d # b => new.chain[d] = T.chain[d]
  <2>1. /\ T \in Table /\ b \in 0 .. T.num - 1 /\ c \in Seq(Cells)
        /\ m \in Threads \cup {NoThread} /\ e \in Nat
    BY <1>1 DEF TableChanges
  <2> HIDE DEF T
  <2> QED BY <2>1, ChangedType
<1>3. tables' = [tables EXCEPT ![v] = new]
  BY DEF TableChanges
<1> HIDE DEF new
<1>4. /\ tables' \in Seq(Table) /\ Len(tables') = Len(tables)
      /\ tables'[v] = new
      /\ \A u \in 1 .. Len(tables) : u # v => tables'[u] = tables[u]
  BY <1>1, <1>2, <1>3, TablesUpdate
<1>5. SameList
  BY <1>2, <1>4 DEF SameList, TableChanges
<1>6. Evolves
  <2>1. \A u \in 1 .. Len(tables) : tables[u].expands \in Nat
    BY <1>1, TableTyped DEF TableOf
  <2>2. Len(tables) \in Nat
    BY <1>1 DEF HeapType
  <2>3. \A d \in 0 .. T.num - 1 : DOMAIN T.chain[d] \subseteq DOMAIN new.chain[d]
    BY <1>2 DEF TableChanges
  <2>4. T.expands <= new.expands
    BY <1>2 DEF TableChanges
  <2> QED BY <1>2, <1>4, <2>1, <2>2, <2>3, <2>4 DEF Evolves
<1>7. HeapType'
  BY <1>1, <1>4, <1>5 DEF HeapType, SameList, TableChanges
<1> QED BY <1>2, <1>4, <1>5, <1>6, <1>7

(* A chain, and the count, of the table of t change, which t has locked.   *)
Mutexed(t, c, e) ==
  tables' = [tables EXCEPT ![tab[t]] =
               Changed(tables[tab[t]], Bin(tab[t], call[t].key), c, t, e)]

(* A step with the mutex, or with which the thread takes it.               *)
LEMMA CriticalStep ==
  ASSUME IInv, NEW t \in Threads, pc[t] \in {"lock", "write_key"},
         NEW c \in Seq(Cells), NEW e \in Nat,
         DOMAIN MyChain(t) \subseteq DOMAIN c,
         tables[tab[t]].expands <= e,
         Mutexed(t, c, e),
         UNCHANGED <<ht, resize_lock, updates>>,
         net' \in Int, raced' \in BOOLEAN, Observe,
         LocalType', OthersKept(t), tab'[t] = tab[t], pc'[t] \in Critical,
         At(t, "lock") => tables[tab[t]].mutex = NoThread,
         pc'[t] = "write_key" => call'[t] # Idle /\ ~resize'[t],
         resize'[t] => e = tables[tab[t]].num /\ tables[tab[t]].expands < e
  PROVE  IInv'
<1> DEFINE v == tab[t]
           b == Bin(tab[t], call[t].key)
<1>1. /\ v \in 1 .. ht /\ v \in 1 .. Len(tables)
      /\ b \in 0 .. tables[v].num - 1
      /\ tables[v].chain[b] = MyChain(t)
  BY CallFacts DEF IInv, Calling
<1>2. /\ HeapType' /\ Evolves /\ SameList
      /\ tables'[v].mutex = t /\ tables'[v].expands = e
      /\ \A u \in 1 .. Len(tables) : u # v => tables'[u] = tables[u]
  <2> TableChanges(v, b, c, t, e)
    BY <1>1 DEF IInv, Mutexed, TableChanges
  <2> HIDE DEF v, b
  <2> QED BY HeapUpdate
<1>3. HistoryType'
  BY <1>2, ObserveType DEF IInv, HistoryType, LocalType
<1>4. LockDiscipline'
  <2> SUFFICES ASSUME NEW w \in 1 .. Len(tables), NEW u \in Threads
               PROVE  tables'[w].mutex = u
                        <=> tab'[u] = w /\ pc'[u] \in Critical
    BY <1>2 DEF LockDiscipline, SameList
  <2>1. tables[w].mutex = u <=> tab[u] = w /\ pc[u] \in Critical
    BY DEF IInv, LockDiscipline
  <2>2. CASE w = v
    <3>1. tables[v].mutex \in {NoThread, t}
      BY <1>1 DEF IInv, LockDiscipline, At, Critical
    <3>2. t # NoThread /\ u # NoThread
      BY LbAssumption
    <3> QED BY <1>2, <2>1, <2>2, <3>1, <3>2 DEF OthersKept
  <2>3. CASE w # v
    <3>1. tables[w].mutex = u => u # t
      BY <2>1, <2>3
    <3> QED BY <1>2, <2>1, <2>3, <3>1 DEF OthersKept
  <2> QED BY <2>2, <2>3
<1>5. ~Holding(t)' /\ ~Copying(t)' /\ ~Copying(t) /\ ~Holding(t) /\ ~Chosen(t)
  BY DEF Holding, Copying, CopyLabels, At, Critical, Chosen, IInv, ThreadInv
<1>6. \/ Chosen(t)' => Chosen(t)
      \/ Triggered(ht)' /\ \A u \in Threads : ~Chosen(u)
  <2>1. CASE ~resize'[t]
    BY <2>1 DEF Chosen, Critical, CopyLabels
  <2>2. CASE resize'[t]
    <3>1. ~Triggered(v)
      <4>1. tables[v].expands \in Nat /\ tables[v].num \in Nat
        BY <1>1, TableTyped DEF IInv, TableOf
      <4> QED BY <2>2, <4>1 DEF Triggered, Threshold
    <3>2. v = ht
      BY <1>1, <3>1 DEF IInv, ListInv, HeapType
    <3>3. \A u \in Threads : ~Chosen(u)
      BY <3>1, <3>2 DEF IInv, ListInv
    <3>4. tables'[ht'].expands >= tables'[ht'].num
      BY <1>1, <1>2, <2>2, <3>2 DEF Evolves
    <3> QED BY <3>3, <3>4 DEF Triggered, Threshold
  <2> QED BY <2>1, <2>2
<1>7. ThreadInv(t)'
  <2>1. tab'[t] # Null
    BY <1>1 DEF Null
  <2>2. resize'[t] => pc'[t] = "unlock"
    BY DEF Critical
  <2> QED
    BY <1>5, <2>1, <2>2 DEF ThreadInv, Critical, Calling, Tabless, At, Copying, CopyLabels
<1> QED BY <1>2, <1>3, <1>4, <1>5, <1>6, <1>7, FrameStep

WithMutex(T, m) == [T EXCEPT !.mutex = m]
WithMarked(T, M) == [T EXCEPT !.marked = M]
WithPrev(T, p) == [T EXCEPT !.prev = p]
WithReleased(T, r) == [T EXCEPT !.released = r]
WithChain(T, b, c) == [T EXCEPT !.chain[b] = c]
Expanded(T) == [T EXCEPT !.expands = @ + 1]

LEMMA ChangedIs ==
  ASSUME NEW T \in Table, NEW b, NEW c, NEW m
  PROVE  /\ WithChain(WithMutex(T, m), b, c) = Changed(T, b, c, m, T.expands)
         /\ WithChain(T, b, c) = Changed(T, b, c, T.mutex, T.expands)
         /\ \A e \in Nat :
              Expanded(Changed(T, b, c, m, e)) = Changed(T, b, c, m, e + 1)
<1> DEFINE f == [T.chain EXCEPT ![b] = c]
           R(x, y, e) == [num |-> T.num, chain |-> x, mutex |-> y, expands |-> e,
                          marked |-> T.marked, prev |-> T.prev,
                          released |-> T.released]
<1>1. T \in TableOf(T.num)
  BY TableFields
<1>2. \A y : WithMutex(T, y) = R(T.chain, y, T.expands)
  BY <1>1 DEF TableOf, WithMutex
<1>3. WithChain(T, b, c) = R(f, T.mutex, T.expands)
  BY <1>1 DEF TableOf, WithChain
<1>4. WithChain(R(T.chain, m, T.expands), b, c) = R(f, m, T.expands)
  BY DEF WithChain
<1>5. ASSUME NEW y, NEW e PROVE Changed(T, b, c, y, e) = R(f, y, e)
  <2>1. Changed(T, b, c, y, e)
          = [[WithMutex(T, y) EXCEPT !.chain = f] EXCEPT !.expands = e]
    BY <1>1 DEF Changed, TableOf, WithMutex
  <2>2. /\ [R(T.chain, y, T.expands) EXCEPT !.chain = f] = R(f, y, T.expands)
        /\ [R(f, y, T.expands) EXCEPT !.expands = e] = R(f, y, e)
    OBVIOUS
  <2> HIDE DEF R, f
  <2> QED BY <1>2, <2>1, <2>2
<1>6. ASSUME NEW e
      PROVE  Expanded(R(f, m, e)) = R(f, m, e + 1)
  BY DEF Expanded
<1> HIDE DEF R, f
<1> QED BY <1>2, <1>3, <1>4, <1>5, <1>6

(* What a step does that locks the table, or has it locked.                *)
LEMMA LockedIs ==
  ASSUME IInv, NEW t \in Threads, pc[t] \in Calling, NEW c
  PROVE  LET e == tables[tab[t]].expands
         IN  /\ tables' = Locked(t, c) => Mutexed(t, c, e)
             /\ tables' = [Locked(t, c) EXCEPT ![tab[t]].expands = @ + 1]
                  => Mutexed(t, c, e + 1)
             /\ /\ tables[tab[t]].mutex = t
                /\ tables' = SetChain(tab[t], call[t].key, c)
                => Mutexed(t, c, e)
<1> DEFINE v == tab[t]
           T == tables[v]
           b == Bin(v, call[t].key)
           e == T.expands
<1>1. v \in DOMAIN tables /\ T \in Table
  <2>1. v \in 1 .. Len(tables)
    BY CallFacts DEF IInv
  <2> QED BY <2>1, TableTyped DEF IInv, HeapType
<1>2. /\ WithChain(WithMutex(T, t), b, c) = Changed(T, b, c, t, e)
      /\ WithChain(T, b, c) = Changed(T, b, c, T.mutex, e)
      /\ Expanded(Changed(T, b, c, t, e)) = Changed(T, b, c, t, e + 1)
  <2>1. T \in Table /\ e \in Nat
    BY <1>1, TableFields DEF TableOf
  <2> HIDE DEF T, b
  <2>2. WithChain(WithMutex(T, t), b, c) = Changed(T, b, c, t, e)
    BY <2>1, ChangedIs
  <2>3. WithChain(T, b, c) = Changed(T, b, c, T.mutex, e)
    BY <2>1, ChangedIs
  <2>4. Expanded(Changed(T, b, c, t, e)) = Changed(T, b, c, t, e + 1)
    BY <2>1, ChangedIs
  <2> QED BY <2>2, <2>3, <2>4
<1>3. Locked(t, c) = [tables EXCEPT ![v] = Changed(T, b, c, t, e)]
  <2>1. Locked(t, c) = [tables EXCEPT ![v] = WithChain(WithMutex(T, t), b, c)]
    BY <1>1 DEF Locked, WithChain, WithMutex
  <2> QED BY <1>2, <2>1, Zenon
<1>4. [Locked(t, c) EXCEPT ![v].expands = @ + 1]
        = [tables EXCEPT ![v] = Changed(T, b, c, t, e + 1)]
  <2> DEFINE X == Changed(T, b, c, t, e)
  <2>1. Expanded(X) = Changed(T, b, c, t, e + 1)
    BY <1>2
  <2>2. Locked(t, c) = [tables EXCEPT ![v] = X]
    BY <1>3
  <2> HIDE DEF X
  <2>3. [[tables EXCEPT ![v] = X] EXCEPT ![v].expands = @ + 1]
          = [tables EXCEPT ![v] = Expanded(X)]
    BY <1>1 DEF Expanded
  <2> QED BY <2>1, <2>2, <2>3
<1>5. T.mutex = t => SetChain(v, call[t].key, c)
                       = [tables EXCEPT ![v] = Changed(T, b, c, t, e)]
  <2>1. SetChain(v, call[t].key, c) = [tables EXCEPT ![v] = WithChain(T, b, c)]
    BY <1>1 DEF SetChain, WithChain
  <2> QED BY <1>2, <2>1
<1> QED BY <1>3, <1>4, <1>5 DEF Mutexed

(* The local state after an answer under the mutex.                        *)
LEMMA ConcludeType ==
  ASSUME IInv, NEW t \in Threads, NEW r \in Vals \cup {0, 1}, Conclude(t, r),
         resize' \in [Threads -> BOOLEAN],
         \A u \in Threads \ {t} : resize'[u] = resize[u]
  PROVE  /\ LocalType' /\ OthersKept(t) /\ tab'[t] = tab[t]
         /\ pc'[t] = "unlock"
         /\ UNCHANGED <<ht, resize_lock, updates>>
<1>1. LocalType'
  <2>1. call' \in [Threads -> Calls] /\ ret' \in [Threads -> Vals \cup {0, 1}]
    BY CallTypes DEF IInv, LocalType, Conclude, Decide
  <2>2. pc' \in [Threads -> Labels] /\ idx' \in [Threads -> Nat]
    BY DEF IInv, LocalType, Conclude, Goto, SetIdx, Labels
  <2>3. cur' \in [Threads -> Vals \cup {NoVal}]
    BY DEF IInv, LocalType, Conclude
  <2>4. UNCHANGED <<tab, bin, copied, by, ht>>
    BY DEF Conclude, copy
  <2> QED BY <2>1, <2>2, <2>3, <2>4 DEF IInv, LocalType
<1>2. OthersKept(t)
  BY DEF IInv, LocalType, OthersKept, Conclude, Decide, Goto, SetIdx, copy
<1> QED
  BY <1>1, <1>2 DEF IInv, LocalType, Conclude, Decide, Goto

LEMMA AccountType ==
  ASSUME IInv, NEW t \in Threads, NEW d \in Int, Account(t, d)
  PROVE  net' \in Int /\ raced' \in BOOLEAN
<1>1. net \in Int /\ raced \in BOOLEAN
  BY DEF IInv, HistoryType
<1> QED BY <1>1 DEF Account

(* The call ends; resize' says whether t is to resize.                     *)
LEMMA ConcludeStep ==
  ASSUME IInv, NEW t \in Threads, pc[t] \in {"lock", "write_key"},
         NEW c \in Seq(Cells), NEW e \in Nat,
         DOMAIN MyChain(t) \subseteq DOMAIN c,
         tables[tab[t]].expands <= e,
         Mutexed(t, c, e),
         net' \in Int, raced' \in BOOLEAN, Observe,
         NEW r \in Vals \cup {0, 1}, Conclude(t, r),
         At(t, "lock") => tables[tab[t]].mutex = NoThread,
         \/ UNCHANGED resize
         \/ /\ resize' = [resize EXCEPT ![t] = Triggers(tab[t])]
            /\ e = tables[tab[t]].expands + 1
  PROVE  IInv'
<1>1. /\ resize' \in [Threads -> BOOLEAN]
      /\ \A u \in Threads \ {t} : resize'[u] = resize[u]
      /\ resize'[t] => e = tables[tab[t]].num /\ tables[tab[t]].expands < e
  <2>1. ~resize[t] /\ resize \in [Threads -> BOOLEAN]
    BY DEF IInv, ThreadInv, LocalType
  <2>2. CASE UNCHANGED resize
    BY <2>1, <2>2
  <2>3. CASE /\ resize' = [resize EXCEPT ![t] = Triggers(tab[t])]
             /\ e = tables[tab[t]].expands + 1
    <3>1. tables[tab[t]].expands \in Nat
      <4>1. tab[t] \in 1 .. Len(tables)
        BY CallFacts DEF IInv, Calling
      <4> QED BY <4>1, TableTyped DEF IInv, TableOf
    <3>2. Triggers(tab[t]) \in BOOLEAN
      BY DEF Triggers
    <3>3. resize'[t] <=> Triggers(tab[t])
      BY <2>1, <2>3, Zenon
    <3>4. /\ resize' \in [Threads -> BOOLEAN]
          /\ \A u \in Threads \ {t} : resize'[u] = resize[u]
      BY <2>1, <2>3, <3>2, Zenon
    <3> QED BY <2>3, <3>1, <3>3, <3>4 DEF Triggers, Threshold
  <2> QED BY <2>2, <2>3
<1>2. /\ LocalType' /\ OthersKept(t) /\ tab'[t] = tab[t]
      /\ pc'[t] = "unlock"
      /\ UNCHANGED <<ht, resize_lock, updates>>
  BY <1>1, ConcludeType
<1> QED BY <1>1, <1>2, CriticalStep DEF Critical

LEMMA GetAgainInv ==
  ASSUME IInv, NEW t \in Threads, GetAgain(t), Observe
  PROVE  IInv'
<1> DEFINE T == tables[tab[t]]
           b == Bin(tab[t], call[t].key)
           r == IF Entry(t).val = cur[t] THEN cur[t] ELSE 0
<1>1. pc[t] = "lock" /\ T.mutex = NoThread
  BY DEF GetAgain, CanLock, At
<1>2. /\ MyChain(t) \in Seq(Cells) /\ T.expands \in Nat
  BY <1>1, CallFacts, TableTyped DEF IInv, Calling, TableOf
<1>3. Mutexed(t, MyChain(t), T.expands)
  BY <1>1, LockedIs DEF GetAgain, Calling
<1>4. r \in Vals \cup {0, 1}
  BY DEF IInv, LocalType, NoVal
<1>5. Conclude(t, r) /\ UNCHANGED <<history, resize>>
  BY DEF GetAgain
<1>6. net' \in Int /\ raced' \in BOOLEAN
  BY <1>5 DEF history, IInv, HistoryType
<1> HIDE DEF r
<1> QED
  BY <1>1, <1>2, <1>3, <1>4, <1>5, <1>6, ConcludeStep

LEMMA PutLockedInv ==
  ASSUME IInv, NEW t \in Threads, PutLocked(t), Observe
  PROVE  IInv'
<1> DEFINE T == tables[tab[t]]
           b == Bin(tab[t], call[t].key)
           chain == MyChain(t)
           free == Having(chain, NoKey)
           c == [key |-> call[t].key, val |-> call[t].val]
<1>1. pc[t] = "lock" /\ T.mutex = NoThread /\ call[t].op = "put"
  BY DEF PutLocked, CanLock, At
<1>2. /\ chain \in Seq(Cells) /\ T.expands \in Nat /\ call[t].key \in Keys
      /\ tab[t] \in 1 .. Len(tables)
  BY <1>1, CallFacts, TableTyped DEF IInv, Calling, TableOf
<1>3. call[t].val \in Vals /\ c \in Cells
  <2>1. call[t] \in Calls
    BY DEF IInv, LocalType
  <2> QED BY <1>1, <1>2, <2>1, CallTypes, KeyTypes
<1>4. CASE /\ tables' = Locked(t, chain)
           /\ Conclude(t, 0)
           /\ UNCHANGED <<history, resize>>
  <2>1. Mutexed(t, chain, T.expands)
    BY <1>1, <1>4, LockedIs DEF Calling
  <2>2. net' \in Int /\ raced' \in BOOLEAN
    BY <1>4 DEF history, IInv, HistoryType
  <2> QED
    BY <1>1, <1>2, <1>4, <2>1, <2>2, ConcludeStep
<1>5. CASE /\ tables' = [Locked(t, Linked(chain, c))
                           EXCEPT ![tab[t]].expands = @ + 1]
           /\ resize' = [resize EXCEPT ![t] = Triggers(tab[t])]
           /\ Account(t, 1)
           /\ Conclude(t, 1)
  <2> DEFINE l == Linked(chain, c)
  <2>1. Mutexed(t, l, T.expands + 1)
    BY <1>1, <1>5, LockedIs DEF Calling
  <2>2. net' \in Int /\ raced' \in BOOLEAN
    BY <1>5, AccountType
  <2>3. l \in Seq(Cells) /\ DOMAIN chain \subseteq DOMAIN l
    BY <1>2, <1>3, LinkedType
  <2>4. T.expands + 1 \in Nat /\ T.expands <= T.expands + 1
    BY <1>2
  <2> HIDE DEF l
  <2> QED
    BY <1>1, <1>2, <1>5, <2>1, <2>2, <2>3, <2>4, ConcludeStep
<1>6. CASE /\ free # {}
           /\ tables' = Locked(t, [chain EXCEPT ![Min(free)].val = call[t].val])
           /\ SetIdx(t, Min(free))
           /\ Goto(t, "write_key")
           /\ UNCHANGED <<ht, resize_lock, answers, history, tab, cur, resize,
                         copy>>
  <2> DEFINE l == [chain EXCEPT ![Min(free)].val = call[t].val]
  <2>1. Mutexed(t, l, T.expands)
    BY <1>1, <1>6, LockedIs DEF Calling
  <2>2. net' \in Int /\ raced' \in BOOLEAN
    BY <1>6 DEF history, IInv, HistoryType
  <2>3. Min(free) \in 1 .. Len(chain)
    <3> HIDE DEF chain
    <3> QED BY <1>2, <1>6, HavingType
  <2>4. l \in Seq(Cells) /\ DOMAIN chain \subseteq DOMAIN l
    <3> DEFINE i == Min(free)
    <3>1. chain[i] \in Cells
      <4> HIDE DEF chain, i
      <4> QED BY <1>2, <2>3, ElementOfSeq DEF i
    <3>2. [chain[i] EXCEPT !.val = call[t].val] \in Cells
      BY <1>3, <3>1, KeyTypes
    <3> HIDE DEF chain, i
    <3>3. [chain EXCEPT ![i] = [chain[i] EXCEPT !.val = call[t].val]] \in Seq(Cells)
      BY <1>2, <2>3, <3>2 DEF i
    <3> QED BY <1>2, <3>3 DEF i
  <2>5. LocalType' /\ OthersKept(t) /\ UNCHANGED updates
    <3>1. Min(free) \in Nat
      BY <2>3
    <3> HIDE DEF free
    <3> QED
      BY <1>6, <3>1
      DEF IInv, LocalType, OthersKept, SetIdx, Goto, Labels, answers, copy
  <2>6. /\ tab'[t] = tab[t] /\ pc'[t] = "write_key" /\ ~resize'[t]
        /\ call'[t] # Idle
    BY <1>1, <1>6 DEF IInv, LocalType, ThreadInv, Goto, answers, Calling
  <2>7. UNCHANGED <<ht, resize_lock>>
    BY <1>6
  <2>8. T.expands <= T.expands /\ pc'[t] \in Critical
    BY <1>2, <2>6 DEF Critical
  <2> HIDE DEF l, chain
  <2> QED
    BY <1>1, <1>2, <2>1, <2>2, <2>4, <2>5, <2>6, <2>7, <2>8, CriticalStep
    DEF chain
<1> QED
  BY <1>4, <1>5, <1>6 DEF PutLocked

LEMMA WriteKeyInv ==
  ASSUME IInv, NEW t \in Threads, WriteKey(t), Observe
  PROVE  IInv'
<1> DEFINE T == tables[tab[t]]
           b == Bin(tab[t], call[t].key)
           chain == MyChain(t)
           i == idx[t]
           l == [chain EXCEPT ![i].key = call[t].key]
<1>1. pc[t] = "write_key" /\ Conclude(t, 1) /\ UNCHANGED resize
  BY DEF WriteKey, At
<1>2. /\ chain \in Seq(Cells) /\ T.expands \in Nat /\ call[t].key \in Keys
      /\ tab[t] \in 1 .. Len(tables)
  BY <1>1, CallFacts, TableTyped DEF IInv, Calling, TableOf
<1>3. T.mutex = t
  BY <1>1, <1>2 DEF IInv, LockDiscipline, Critical
<1>4. Mutexed(t, l, T.expands)
  BY <1>1, <1>3, LockedIs DEF WriteKey, Calling
<1>5. l \in Seq(Cells) /\ DOMAIN chain \subseteq DOMAIN l
  <2>1. i \in DOMAIN chain => [chain[i] EXCEPT !.key = call[t].key] \in Cells
    <3> HIDE DEF chain, i
    <3> QED BY <1>2, KeyTypes, ElementOfSeq
  <2> HIDE DEF chain, i
  <2>2. CASE i \in DOMAIN chain
    BY <1>2, <2>1, <2>2
  <2>3. CASE i \notin DOMAIN chain
    <3>1. l = chain
      BY <1>2, <2>3
    <3> QED BY <1>2, <3>1
  <2> QED BY <2>2, <2>3
<1>6. net' \in Int /\ raced' \in BOOLEAN
  BY AccountType DEF WriteKey
<1> HIDE DEF l
<1> QED
  BY <1>1, <1>2, <1>4, <1>5, <1>6, ConcludeStep DEF At

LEMMA RemoveLockedInv ==
  ASSUME IInv, NEW t \in Threads, RemoveLocked(t), Observe
  PROVE  IInv'
<1> DEFINE T == tables[tab[t]]
           b == Bin(tab[t], call[t].key)
           chain == MyChain(t)
           found == Having(chain, call[t].key)
           i == Min(found)
           l == [chain EXCEPT ![i].key = NoKey]
<1>1. /\ pc[t] = "lock" /\ T.mutex = NoThread /\ UNCHANGED resize
  BY DEF RemoveLocked, CanLock, At
<1>2. /\ chain \in Seq(Cells) /\ T.expands \in Nat
      /\ tab[t] \in 1 .. Len(tables)
  BY <1>1, CallFacts, TableTyped DEF IInv, Calling, TableOf
<1>3. CASE found = {}
  <2>1. /\ tables' = Locked(t, chain)
        /\ Conclude(t, 0)
        /\ UNCHANGED history
    BY <1>3 DEF RemoveLocked
  <2>2. Mutexed(t, chain, T.expands)
    BY <1>1, <2>1, LockedIs DEF Calling
  <2>3. net' \in Int /\ raced' \in BOOLEAN
    BY <2>1 DEF history, IInv, HistoryType
  <2> QED
    BY <1>1, <1>2, <2>1, <2>2, <2>3, ConcludeStep
<1>4. CASE found # {}
  <2>1. /\ tables' = Locked(t, l)
        /\ Conclude(t, chain[i].val)
        /\ Account(t, -1)
    BY <1>4 DEF RemoveLocked
  <2>2. Mutexed(t, l, T.expands)
    BY <1>1, <2>1, LockedIs DEF Calling
  <2>3. net' \in Int /\ raced' \in BOOLEAN
    BY <2>1, AccountType
  <2>4. i \in 1 .. Len(chain)
    <3> HIDE DEF chain
    <3> QED BY <1>2, <1>4, HavingType
  <2>5. chain[i] \in Cells
    <3> HIDE DEF chain, i
    <3> QED BY <1>2, <2>4, ElementOfSeq
  <2>6. chain[i].val \in Vals \cup {0, 1} /\ [chain[i] EXCEPT !.key = NoKey] \in Cells
    BY <2>5, KeyTypes DEF Cells, NoVal
  <2>7. l \in Seq(Cells) /\ DOMAIN chain \subseteq DOMAIN l
    <3> HIDE DEF chain, i
    <3> QED BY <1>2, <2>4, <2>6
  <2> DEFINE r == chain[i].val
  <2>8. Conclude(t, r) /\ r \in Vals \cup {0, 1}
    BY <2>1, <2>6
  <2>9. T.expands <= T.expands
    BY <1>2
  <2> HIDE DEF l, r, chain
  <2> QED
    BY <1>1, <1>2, <2>2, <2>3, <2>7, <2>8, <2>9, ConcludeStep DEF chain
<1> QED BY <1>3, <1>4

LEMMA FieldTypes ==
  ASSUME NEW T \in Table
  PROVE  /\ \A m \in Threads \cup {NoThread} :
              LET new == WithMutex(T, m)
              IN  /\ new \in Table /\ new.num = T.num /\ new.chain = T.chain
                  /\ new.expands = T.expands /\ new.prev = T.prev
                  /\ new.released = T.released /\ new.mutex = m
         /\ \A M \in SUBSET (0 .. T.num - 1) :
              LET new == WithMarked(T, M)
              IN  /\ new \in Table /\ new.num = T.num /\ new.chain = T.chain
                  /\ new.expands = T.expands /\ new.prev = T.prev
                  /\ new.released = T.released /\ new.mutex = T.mutex
         /\ \A p \in Nat :
              LET new == WithPrev(T, p)
              IN  /\ new \in Table /\ new.num = T.num /\ new.chain = T.chain
                  /\ new.expands = T.expands /\ new.prev = p
                  /\ new.released = T.released /\ new.mutex = T.mutex
         /\ \A r \in BOOLEAN :
              LET new == WithReleased(T, r)
              IN  /\ new \in Table /\ new.num = T.num /\ new.chain = T.chain
                  /\ new.expands = T.expands /\ new.prev = T.prev
                  /\ new.released = r /\ new.mutex = T.mutex
<1>1. T.num \in Nat \ {0} /\ T \in TableOf(T.num)
  BY TableFields
<1>2. \A new : new \in TableOf(T.num) => new \in Table
  BY <1>1 DEF Table
<1>3. ASSUME NEW m \in Threads \cup {NoThread}
      PROVE  LET new == WithMutex(T, m)
             IN  /\ new \in TableOf(T.num) /\ new.num = T.num /\ new.chain = T.chain
                 /\ new.expands = T.expands /\ new.prev = T.prev
                 /\ new.released = T.released /\ new.mutex = m
  BY <1>1 DEF TableOf, WithMutex
<1>4. ASSUME NEW M \in SUBSET (0 .. T.num - 1)
      PROVE  LET new == WithMarked(T, M)
             IN  /\ new \in TableOf(T.num) /\ new.num = T.num /\ new.chain = T.chain
                 /\ new.expands = T.expands /\ new.prev = T.prev
                 /\ new.released = T.released /\ new.mutex = T.mutex
  BY <1>1 DEF TableOf, WithMarked
<1>5. ASSUME NEW p \in Nat
      PROVE  LET new == WithPrev(T, p)
             IN  /\ new \in TableOf(T.num) /\ new.num = T.num /\ new.chain = T.chain
                 /\ new.expands = T.expands /\ new.prev = p
                 /\ new.released = T.released /\ new.mutex = T.mutex
  BY <1>1 DEF TableOf, WithPrev
<1>6. ASSUME NEW r \in BOOLEAN
      PROVE  LET new == WithReleased(T, r)
             IN  /\ new \in TableOf(T.num) /\ new.num = T.num /\ new.chain = T.chain
                 /\ new.expands = T.expands /\ new.prev = T.prev
                 /\ new.released = r /\ new.mutex = T.mutex
  BY <1>1 DEF TableOf, WithReleased
<1> QED BY <1>2, <1>3, <1>4, <1>5, <1>6

(* A table changes but for its size and its chains.                        *)
LEMMA TableStep ==
  ASSUME HeapType, NEW v \in 1 .. Len(tables), NEW T \in Table,
         T.num = tables[v].num, T.chain = tables[v].chain,
         T.expands = tables[v].expands, T.prev \in Null .. v - 1,
         tables' = [tables EXCEPT ![v] = T],
         ht' \in 1 .. Len(tables), resize_lock' \in BOOLEAN
  PROVE  /\ HeapType' /\ Evolves
         /\ Len(tables') = Len(tables) /\ tables'[v] = T
         /\ \A u \in 1 .. Len(tables) : u # v => tables'[u] = tables[u]
<1>1. /\ tables' \in Seq(Table) /\ Len(tables') = Len(tables)
      /\ tables'[v] = T
      /\ \A u \in 1 .. Len(tables) : u # v => tables'[u] = tables[u]
  BY TablesUpdate
<1>2. Evolves
  <2>1. \A u \in 1 .. Len(tables) : tables[u].expands \in Nat
    BY TableTyped DEF TableOf
  <2>2. Len(tables) \in Nat
    BY DEF HeapType
  <2> QED BY <1>1, <2>1, <2>2 DEF Evolves
<1>3. HeapType'
  BY <1>1 DEF HeapType
<1> QED BY <1>1, <1>2, <1>3

LEMMA UnlockInv ==
  ASSUME IInv, NEW t \in Threads, Unlock(t), Observe
  PROVE  IInv'
<1> DEFINE v == tab[t]
           T == tables[v]
           new == WithMutex(T, NoThread)
<1>1. pc[t] = "unlock" /\ v # Null
  BY DEF Unlock, At, IInv, ThreadInv, Tabless
<1>2. v \in 1 .. Len(tables)
  BY <1>1 DEF IInv, HeapType, LocalType, Null
<1>3. T \in Table /\ T.mutex = t
  BY <1>1, <1>2, TableTyped DEF IInv, LockDiscipline, Critical
<1>4. /\ new \in Table /\ new.num = T.num /\ new.chain = T.chain
      /\ new.expands = T.expands /\ new.prev = T.prev
      /\ new.released = T.released /\ new.mutex = NoThread
  BY <1>3, FieldTypes
<1>5. tables' = [tables EXCEPT ![v] = new]
  BY <1>2 DEF Unlock, Freed, WithMutex
<1> HIDE DEF new
<1>6. /\ HeapType' /\ Evolves
      /\ Len(tables') = Len(tables) /\ tables'[v] = new
      /\ \A u \in 1 .. Len(tables) : u # v => tables'[u] = tables[u]
  <2>1. T.prev \in Null .. v - 1
    BY <1>2 DEF IInv, HeapType
  <2>2. ht' \in 1 .. Len(tables) /\ resize_lock' \in BOOLEAN
    BY DEF IInv, HeapType, Unlock
  <2> QED BY <1>2, <1>4, <1>5, <2>1, <2>2, TableStep DEF IInv
<1>7. SameList
  BY <1>4, <1>6 DEF SameList, Unlock
<1>8. pc'[t] = (IF resize[t] THEN "status" ELSE "idle") /\ tab'[t] = Null
  BY DEF Unlock, Goto, SetTab, IInv, LocalType
<1>9. LocalType' /\ OthersKept(t)
  <2>1. pc' \in [Threads -> Labels] /\ tab' \in [Threads -> Null .. ht]
    BY DEF Unlock, Goto, SetTab, IInv, LocalType, HeapType, Labels, Null
  <2>2. UNCHANGED <<ht, call, ret, bin, copied, by, idx, cur, resize>>
    BY DEF Unlock, answers, copy
  <2>3. OthersKept(t)
    BY <2>2 DEF Unlock, Goto, SetTab, IInv, LocalType, OthersKept
  <2> QED BY <2>1, <2>2, <2>3 DEF IInv, LocalType
<1>10. HistoryType'
  <2>1. UNCHANGED <<updates, net, raced>>
    BY DEF Unlock, answers, history
  <2>2. seen' \in [Threads -> SUBSET (Vals \cup {NoVal})]
    BY <1>6, <1>9, ObserveType DEF IInv, LocalType
  <2> QED BY <2>1, <2>2 DEF IInv, HistoryType
<1>11. LockDiscipline'
  <2> SUFFICES ASSUME NEW w \in 1 .. Len(tables), NEW u \in Threads
               PROVE  tables'[w].mutex = u
                        <=> tab'[u] = w /\ pc'[u] \in Critical
    BY <1>6 DEF LockDiscipline
  <2>1. tables[w].mutex = u <=> tab[u] = w /\ pc[u] \in Critical
    BY DEF IInv, LockDiscipline
  <2>2. pc'[t] \notin Critical
    BY <1>8 DEF Critical
  <2>3. CASE w = v
    <3>1. u # NoThread
      BY LbAssumption
    <3> QED BY <1>3, <1>4, <1>6, <1>9, <2>1, <2>2, <2>3, <3>1 DEF OthersKept
  <2>4. CASE w # v
    BY <1>6, <1>9, <2>1, <2>2, <2>4 DEF OthersKept
  <2> QED BY <2>3, <2>4
<1>12. /\ ~Holding(t)' /\ ~Copying(t)' /\ ~Copying(t)
       /\ Chosen(t)' => Chosen(t)
  BY <1>1, <1>8 DEF Holding, Copying, CopyLabels, At, Chosen, Unlock
<1>13. ThreadInv(t)'
  BY <1>8, <1>12
  DEF ThreadInv, Calling, Tabless, At, Unlock, Copying, CopyLabels
<1> QED
  BY <1>6, <1>7, <1>9, <1>10, <1>11, <1>12, <1>13, FrameStep

LEMMA CopyLockInv ==
  ASSUME IInv, NEW t \in Threads, CopyLock(t), Observe
  PROVE  IInv'
<1> DEFINE T == tables[ht]
           new == WithMarked(T, T.marked \cup {bin[t]})
<1>1. pc[t] = "copy_lock" /\ Copying(t) /\ Holding(t) /\ Chosen(t)
  BY DEF CopyLock, At, Copying, CopyLabels, Holding, Chosen
<1>2. /\ tab[t] = ht /\ ht \in 1 .. Len(tables) /\ resize_lock /\ ~resize[t]
      /\ T \in Table /\ T.marked \subseteq 0 .. T.num - 1
      /\ bin[t] \in 0 .. T.num - 1
  BY <1>1, CopyFacts, TableTyped DEF CopyLock, BinsLeft, IInv, TableOf
<1>3. UNCHANGED <<ht, resize_lock, answers, history, tab, cur, resize, copied, by>>
  BY DEF CopyLock
<1>4. \/ UNCHANGED <<tables, pc, idx>> /\ bin' = [bin EXCEPT ![t] = @ + 1]
      \/ /\ tables' = [tables EXCEPT ![ht] = new]
         /\ pc' = [pc EXCEPT ![t] = "copy_key"]
         /\ idx' = [idx EXCEPT ![t] = 1]
         /\ UNCHANGED bin
  BY <1>2 DEF CopyLock, Goto, SetIdx, WithMarked
<1>5. /\ new \in Table /\ new.num = T.num /\ new.chain = T.chain
      /\ new.expands = T.expands /\ new.prev = T.prev
      /\ new.released = T.released /\ new.mutex = T.mutex
  <2> DEFINE M == T.marked \cup {bin[t]}
  <2>1. M \in SUBSET (0 .. T.num - 1) /\ T \in Table
    BY <1>2
  <2> HIDE DEF M, T
  <2> QED BY <2>1, FieldTypes DEF M
<1> HIDE DEF new
<1>6. HeapType' /\ Evolves /\ SameList /\ SameMutexes
  <2>1. CASE UNCHANGED tables
    <3>1. \A v \in 1 .. Len(tables) : tables[v].expands \in Nat
      BY TableTyped DEF IInv, TableOf
    <3>2. Len(tables) \in Nat
      BY DEF IInv, HeapType
    <3> QED BY <1>3, <2>1, <3>1, <3>2 DEF Evolves, SameList, SameMutexes, HeapType, IInv
  <2>2. CASE tables' = [tables EXCEPT ![ht] = new]
    <3>1. T.prev \in Null .. ht - 1
      BY <1>2 DEF IInv, HeapType
    <3>2. ht' \in 1 .. Len(tables) /\ resize_lock' \in BOOLEAN
      BY <1>3 DEF IInv, HeapType
    <3>3. /\ HeapType' /\ Evolves
          /\ Len(tables') = Len(tables) /\ tables'[ht] = new
          /\ \A u \in 1 .. Len(tables) : u # ht => tables'[u] = tables[u]
      BY <1>2, <1>5, <2>2, <3>1, <3>2, TableStep DEF IInv
    <3> QED BY <1>3, <1>5, <3>3 DEF SameList, SameMutexes
  <2> QED BY <1>4, <2>1, <2>2
<1>7. LocalType' /\ OthersKept(t)
  <2>1. pc' \in [Threads -> Labels] /\ idx' \in [Threads -> Nat]
        /\ bin' \in [Threads -> Nat]
    BY <1>4 DEF IInv, LocalType, Labels
  <2>2. UNCHANGED <<ht, call, ret, tab, cur, resize, copied, by>>
    BY <1>3 DEF answers
  <2>3. OthersKept(t)
    BY <1>4, <2>2 DEF IInv, LocalType, OthersKept
  <2> QED BY <2>1, <2>2, <2>3 DEF IInv, LocalType
<1>8. HistoryType'
  <2>1. UNCHANGED <<updates, net, raced>>
    BY <1>3 DEF answers, history
  <2>2. seen' \in [Threads -> SUBSET (Vals \cup {NoVal})]
    BY <1>6, <1>7, ObserveType DEF IInv, LocalType
  <2> QED BY <2>1, <2>2 DEF IInv, HistoryType
<1>9. pc'[t] \in {"copy_lock", "copy_key"} /\ (pc'[t] = "copy_key" => bin' = bin)
  BY <1>1, <1>4 DEF IInv, LocalType
<1>10. LockDiscipline'
  <2>1. pc[t] \notin Critical /\ pc'[t] \notin Critical
    BY <1>1, <1>9 DEF Critical
  <2> QED BY <1>6, <1>7, <2>1, LockKept DEF IInv
<1>11. Copying(t)' /\ Holding(t)'
  BY <1>9 DEF Copying, CopyLabels, Holding
<1>12. ThreadInv(t)'
  <2>1. tables'[ht].num = tables[ht].num
    BY <1>2, <1>6 DEF Evolves
  <2>2. pc'[t] = "copy_key" => bin'[t] < tables'[tab'[t]].num
    <3>1. bin[t] < tables[ht].num /\ tab' = tab
      BY <1>2, <1>3, TableTyped DEF IInv
    <3> QED BY <1>2, <1>9, <2>1, <3>1
  <2>3. tab'[t] = ht' /\ tab'[t] # Null /\ resize_lock' /\ ~resize'[t]
    BY <1>2, <1>3 DEF Null
  <2> QED
    BY <1>9, <2>2, <2>3
    DEF ThreadInv, Calling, Tabless, At, Copying, Holding, CopyLabels
<1> QED
  BY <1>1, <1>6, <1>7, <1>8, <1>10, <1>11, <1>12, FrameStep

LEMMA CopyValInv ==
  ASSUME IInv, NEW t \in Threads, CopyVal(t), Observe
  PROVE  IInv'
<1> DEFINE T == tables[New]
           k == copied[t]
           x == tables[tab[t]].chain[bin[t]][idx[t]].val
           c == [key |-> k, val |-> x]
           chain == Chain(New, k)
           free == Having(chain, NoKey)
           b == Bin(New, k)
<1>1. pc[t] = "copy_val" /\ Copying(t) /\ Holding(t) /\ Chosen(t)
  BY DEF CopyVal, At, Copying, CopyLabels, Holding, Chosen
<1>2. /\ tab[t] = ht /\ ht \in 1 .. Len(tables) /\ New = ht + 1
      /\ New \in 1 .. Len(tables)
      /\ resize_lock /\ ~resize[t] /\ k \in Keys
      /\ bin[t] < tables[ht].num
      /\ bin[t] \in 0 .. tables[ht].num - 1
      /\ tables[ht].chain[bin[t]] \in Seq(Cells)
      /\ idx[t] \in DOMAIN tables[ht].chain[bin[t]]
  BY <1>1, CopyFacts DEF IInv, ThreadInv, At, New
<1>3. c \in Cells
  <2> DEFINE from == tables[ht].chain[bin[t]]
  <2>1. from \in Seq(Cells) /\ idx[t] \in DOMAIN from
    BY <1>2
  <2> HIDE DEF from
  <2>2. from[idx[t]] \in Cells
    BY <2>1, ElementOfSeq
  <2>3. x \in Vals \cup {NoVal}
    BY <1>2, <2>2 DEF from, Cells
  <2> HIDE DEF x
  <2> QED BY <1>2, <2>3 DEF Cells
<1>4. /\ T \in Table /\ b \in 0 .. T.num - 1 /\ chain \in Seq(Cells)
      /\ T.chain[b] = chain /\ T.expands \in Nat
      /\ T.mutex \in Threads \cup {NoThread}
  BY <1>2, BinType, TableTyped, KeyTypes DEF IInv, Chain, TableOf
<1>5. UNCHANGED <<ht, resize_lock, answers, history, tab, cur, resize, bin, by>>
  BY DEF CopyVal
<1>6. \E l \in Seq(Cells), e \in Nat :
        /\ DOMAIN chain \subseteq DOMAIN l /\ T.expands <= e
        /\ tables' = [tables EXCEPT ![New] = Changed(T, b, l, T.mutex, e)]
  <2>1. \A l : /\ WithChain(T, b, l) = Changed(T, b, l, T.mutex, T.expands)
               /\ Expanded(Changed(T, b, l, T.mutex, T.expands))
                    = Changed(T, b, l, T.mutex, T.expands + 1)
    <3> HIDE DEF T, b
    <3>1. T \in Table /\ T.expands \in Nat
      BY <1>4
    <3> SUFFICES ASSUME NEW l
                 PROVE /\ WithChain(T, b, l) = Changed(T, b, l, T.mutex, T.expands)
                       /\ Expanded(Changed(T, b, l, T.mutex, T.expands))
                            = Changed(T, b, l, T.mutex, T.expands + 1)
      OBVIOUS
    <3>2. WithChain(T, b, l) = Changed(T, b, l, T.mutex, T.expands)
      BY <3>1, ChangedIs
    <3>3. Expanded(Changed(T, b, l, T.mutex, T.expands))
            = Changed(T, b, l, T.mutex, T.expands + 1)
      BY <3>1, ChangedIs
    <3> QED BY <3>2, <3>3
  <2>2. \A l : SetChain(New, k, l) = [tables EXCEPT ![New] = WithChain(T, b, l)]
    BY <1>2 DEF SetChain, WithChain
  <2>3. CASE free # {}
    <3> DEFINE i == Min(free)
               l == [chain EXCEPT ![i] = c]
    <3>1. i \in 1 .. Len(chain)
      <4> HIDE DEF chain
      <4> QED BY <1>4, <2>3, HavingType
    <3>2. l \in Seq(Cells) /\ DOMAIN chain \subseteq DOMAIN l
      <4> HIDE DEF chain, i, c
      <4> QED BY <1>3, <1>4, <3>1
    <3>3. tables' = SetChain(New, k, l)
      BY <2>3 DEF CopyVal
    <3>4. T.expands <= T.expands
      BY <1>4
    <3>5. tables' = [tables EXCEPT ![New] = Changed(T, b, l, T.mutex, T.expands)]
      <4> HIDE DEF l, T, b
      <4> QED BY <2>1, <2>2, <3>3, Zenon
    <3> HIDE DEF l, T, b, chain
    <3> QED BY <1>4, <3>2, <3>4, <3>5
  <2>4. CASE free = {}
    <3> DEFINE l == Linked(chain, c)
    <3>1. l \in Seq(Cells) /\ DOMAIN chain \subseteq DOMAIN l
      <4> HIDE DEF chain, c
      <4> QED BY <1>3, <1>4, LinkedType
    <3>2. tables' = [SetChain(New, k, l) EXCEPT ![New].expands = @ + 1]
      BY <2>4 DEF CopyVal
    <3> HIDE DEF l
    <3>3. tables' = [tables EXCEPT ![New] = Changed(T, b, l, T.mutex, T.expands + 1)]
      <4> DEFINE X == WithChain(T, b, l)
      <4>1. tables' = [[tables EXCEPT ![New] = X] EXCEPT ![New].expands = @ + 1]
        BY <2>2, <3>2, Zenon
      <4>2. Expanded(X) = Changed(T, b, l, T.mutex, T.expands + 1)
        <5> HIDE DEF T, b
        <5> QED BY <2>1
      <4> HIDE DEF X
      <4>3. tables' = [tables EXCEPT ![New] = Expanded(X)]
        BY <1>2, <4>1 DEF Expanded
      <4> QED BY <4>2, <4>3, Zenon
    <3>4. T.expands + 1 \in Nat /\ T.expands <= T.expands + 1
      BY <1>4
    <3> HIDE DEF T, b, chain
    <3> QED BY <3>1, <3>3, <3>4
  <2> QED BY <2>3, <2>4
<1>7. HeapType' /\ Evolves /\ SameList /\ SameMutexes
  <2>1. PICK l \in Seq(Cells), e \in Nat :
          /\ DOMAIN chain \subseteq DOMAIN l /\ T.expands <= e
          /\ tables' = [tables EXCEPT ![New] = Changed(T, b, l, T.mutex, e)]
    BY <1>6
  <2>2. UNCHANGED <<ht, resize_lock>>
    BY <1>5
  <2> DEFINE m == T.mutex
             v == New
  <2>3. TableChanges(v, b, l, m, e)
    BY <1>2, <1>4, <2>1, <2>2 DEF IInv, TableChanges
  <2>4. /\ HeapType' /\ Evolves /\ SameList
        /\ tables'[v].mutex = m
        /\ \A u \in 1 .. Len(tables) : u # v => tables'[u] = tables[u]
    <3> HIDE DEF m, v, b
    <3> QED BY <2>3, HeapUpdate
  <2> QED BY <2>4 DEF SameMutexes, SameList
<1>8. LocalType' /\ OthersKept(t)
  <2>1. /\ copied' = [copied EXCEPT ![t] = NoKey]
        /\ idx' = [idx EXCEPT ![t] = idx[t] + 1]
        /\ pc' = [pc EXCEPT ![t] = "copy_key"]
    BY DEF CopyVal, SetIdx, Goto
  <2>2. pc' \in [Threads -> Labels] /\ idx' \in [Threads -> Nat]
        /\ copied' \in [Threads -> Keys \cup {NoKey}]
    BY <2>1 DEF IInv, LocalType, Labels
  <2>3. UNCHANGED <<ht, call, ret, tab, cur, resize, bin, by>>
    BY <1>5 DEF answers
  <2>4. OthersKept(t)
    BY <2>1, <2>3 DEF IInv, LocalType, OthersKept
  <2> QED BY <2>2, <2>3, <2>4 DEF IInv, LocalType
<1>9. HistoryType'
  <2>1. UNCHANGED <<updates, net, raced>>
    BY <1>5 DEF answers, history
  <2>2. seen' \in [Threads -> SUBSET (Vals \cup {NoVal})]
    BY <1>7, <1>8, ObserveType DEF IInv, LocalType
  <2> QED BY <2>1, <2>2 DEF IInv, HistoryType
<1>10. pc'[t] = "copy_key"
  BY DEF CopyVal, Goto, IInv, LocalType
<1>11. LockDiscipline'
  <2>1. pc[t] \notin Critical /\ pc'[t] \notin Critical
    BY <1>1, <1>10 DEF Critical
  <2> QED BY <1>7, <1>8, <2>1, LockKept DEF IInv
<1>12. Copying(t)' /\ Holding(t)'
  BY <1>10 DEF Copying, CopyLabels, Holding
<1>13. ThreadInv(t)'
  <2>1. tables'[ht].num = tables[ht].num
    BY <1>2, <1>7 DEF Evolves
  <2>2. bin'[t] < tables'[tab'[t]].num
    BY <1>2, <1>5, <2>1
  <2>3. tab'[t] = ht' /\ tab'[t] # Null /\ resize_lock' /\ ~resize'[t]
    BY <1>2, <1>5 DEF Null
  <2> QED
    BY <1>10, <2>2, <2>3
    DEF ThreadInv, Calling, Tabless, At, Copying, Holding, CopyLabels
<1> QED
  BY <1>1, <1>7, <1>8, <1>9, <1>11, <1>12, <1>13, FrameStep

(* A step that changes the list of tables.                                 *)
LEMMA TriggeredKept ==
  ASSUME HeapType, HeapType', Evolves, NEW v \in 1 .. Len(tables), Triggered(v)
  PROVE  Triggered(v)'
<1>1. tables[v].num \in Nat /\ tables[v].expands \in Nat
  BY TableTyped DEF TableOf
<1>2. v \in 1 .. Len(tables') /\ tables'[v] \in Table
  BY ElementOfSeq DEF HeapType, Evolves
<1>3. tables'[v].expands \in Nat
  BY <1>2, TableFields DEF TableOf
<1> QED BY <1>1, <1>3 DEF Triggered, Threshold, Evolves

LEMMA OthersSame ==
  ASSUME NEW t \in Threads, OthersKept(t), NEW u \in Threads \ {t}
  PROVE  /\ Copying(u)' <=> Copying(u)
         /\ Holding(u)' <=> Holding(u)
         /\ Chosen(u)' <=> Chosen(u)
BY DEF OthersKept, Copying, Holding, Chosen, At

LEMMA ResizeLockInv ==
  ASSUME IInv, NEW t \in Threads, ResizeLock(t), Observe
  PROVE  IInv'
<1>1. pc[t] = "resize_lock" /\ Chosen(t) /\ ~Copying(t) /\ ~Holding(t)
  BY DEF ResizeLock, At, Chosen, Copying, CopyLabels, Holding
<1>2. /\ tab[t] = ht /\ ht \in 1 .. Len(tables) /\ ht # Null
      /\ by[t] \in Nat \ {0} /\ ~resize[t]
  <2>1. tab[t] = ht /\ by[t] # 0 /\ ~resize[t]
    BY <1>1 DEF IInv, ThreadInv, At
  <2>2. ht \in 1 .. Len(tables) /\ ht # Null
    BY DEF IInv, HeapType, Null
  <2>3. by[t] \in Nat
    BY DEF IInv, LocalType
  <2> QED BY <2>1, <2>2, <2>3
<1>3. UNCHANGED <<ht, answers, history, idx, cur, resize, bin, copied>>
      /\ resize_lock' /\ by' = [by EXCEPT ![t] = 0]
  BY DEF ResizeLock
<1>4. CASE resize_lock \/ Len(tables) = MaxTables
  <2>1. UNCHANGED tables /\ pc' = [pc EXCEPT ![t] = "idle"]
        /\ tab' = [tab EXCEPT ![t] = Null]
    BY <1>4 DEF ResizeLock, Goto, SetTab
  <2>2. HeapType' /\ Evolves /\ SameList /\ SameMutexes
    <3>1. \A v \in 1 .. Len(tables) : tables[v].expands \in Nat
      BY TableTyped DEF IInv, TableOf
    <3>2. Len(tables) \in Nat
      BY DEF IInv, HeapType
    <3>3. resize_lock' \in BOOLEAN
      BY DEF ResizeLock
    <3> QED
      BY <1>3, <2>1, <3>1, <3>2, <3>3
      DEF Evolves, SameList, SameMutexes, HeapType, IInv
  <2>3. LocalType' /\ OthersKept(t)
    <3>1. pc' \in [Threads -> Labels] /\ by' \in [Threads -> Nat]
          /\ tab' \in [Threads -> Null .. ht]
      BY <1>2, <1>3, <2>1 DEF IInv, LocalType, Labels, Null
    <3>2. UNCHANGED <<ht, call, ret, cur, resize, bin, idx, copied>>
      BY <1>3 DEF answers
    <3>3. OthersKept(t)
      BY <1>3, <2>1, <3>2 DEF IInv, LocalType, OthersKept
    <3> QED BY <3>1, <3>2, <3>3 DEF IInv, LocalType
  <2>4. HistoryType'
    <3>1. UNCHANGED <<updates, net, raced>>
      BY <1>3 DEF answers, history
    <3>2. seen' \in [Threads -> SUBSET (Vals \cup {NoVal})]
      BY <2>2, <2>3, ObserveType DEF IInv, LocalType
    <3> QED BY <3>1, <3>2 DEF IInv, HistoryType
  <2>5. pc'[t] = "idle" /\ ~resize'[t]
    BY <1>2, <1>3, <2>1 DEF IInv, LocalType
  <2>6. LockDiscipline'
    <3>1. pc[t] \notin Critical /\ pc'[t] \notin Critical
      BY <1>1, <2>5 DEF Critical
    <3> QED BY <2>2, <2>3, <3>1, LockKept DEF IInv
  <2>7. ~Copying(t)' /\ ~Holding(t)' /\ ~Chosen(t)'
    BY <2>5 DEF Copying, CopyLabels, Holding, Chosen, At
  <2>8. ThreadInv(t)'
    BY <2>5, <2>7 DEF ThreadInv, Calling, Tabless, At, Copying, Holding, CopyLabels
  <2> QED
    BY <1>1, <2>2, <2>3, <2>4, <2>6, <2>7, <2>8, FrameStep
<1>5. CASE ~resize_lock /\ Len(tables) # MaxTables
  <2> DEFINE n == by[t] * tables[ht].num
             new == NewTable(n)
  <2>1. tables' = Append(tables, new) /\ pc' = [pc EXCEPT ![t] = "copy_lock"]
        /\ UNCHANGED tab
    BY <1>2, <1>5 DEF ResizeLock, Goto
  <2>2. \A u \in Threads : ~Holding(u) /\ ~Copying(u)
    BY <1>5 DEF IInv, ThreadInv, Holding
  <2>3. Len(tables) = ht
    BY <2>2 DEF IInv, ListInv
  <2>4. /\ new \in Table /\ new.prev = Null /\ ~new.released
        /\ new.mutex = NoThread
    <3>1. n \in Nat \ {0}
      <4>1. tables[ht].num \in Nat \ {0}
        BY <1>2, TableTyped DEF IInv
      <4> DEFINE a == by[t]
                 d == tables[ht].num
      <4>2. a \in Nat \ {0} /\ d \in Nat \ {0}
        BY <1>2, <4>1
      <4> HIDE DEF a, d
      <4>3. a * d \in Nat \ {0}
        BY <4>2
      <4> QED BY <4>3 DEF a, d
    <3> HIDE DEF n
    <3> QED BY <3>1, NewTableType DEF NewTable
  <2> HIDE DEF new
  <2>5. /\ tables' \in Seq(Table) /\ Len(tables') = ht + 1
        /\ tables'[ht + 1] = new
        /\ \A v \in 1 .. ht : tables'[v] = tables[v]
    <3>1. tables \in Seq(Table)
      BY DEF IInv, HeapType
    <3> QED BY <2>1, <2>3, <2>4, <3>1, AppendProperties
  <2>6. HeapType'
    <3>1. ht + 1 \in 1 .. MaxTables
      BY <1>2, <1>5, <2>3, LbAssumption DEF IInv, HeapType
    <3>2. \A v \in 1 .. ht + 1 : tables'[v].prev \in Null .. v - 1
      <4>1. \A v \in 1 .. ht : tables'[v].prev \in Null .. v - 1
        BY <2>3, <2>5 DEF IInv, HeapType
      <4>2. tables'[ht + 1].prev \in Null .. (ht + 1) - 1
        BY <1>2, <2>4, <2>5 DEF Null
      <4> QED BY <1>2, <4>1, <4>2
    <3>3. ht' \in 1 .. ht + 1 /\ resize_lock' \in BOOLEAN
      BY <1>2, <1>3 DEF ResizeLock
    <3> QED BY <2>5, <3>1, <3>2, <3>3 DEF HeapType
  <2>7. Evolves
    <3>1. \A v \in 1 .. Len(tables) : tables[v].expands \in Nat
      BY TableTyped DEF IInv, TableOf
    <3> QED BY <1>2, <2>3, <2>5, <3>1 DEF Evolves
  <2>8. LocalType' /\ OthersKept(t)
    <3>1. pc' \in [Threads -> Labels] /\ by' \in [Threads -> Nat]
      BY <1>3, <2>1 DEF IInv, LocalType, Labels
    <3>2. UNCHANGED <<ht, call, ret, tab, cur, resize, bin, idx, copied>>
      BY <1>3, <2>1 DEF answers
    <3>3. OthersKept(t)
      BY <1>3, <2>1, <3>2 DEF IInv, LocalType, OthersKept
    <3> QED BY <3>1, <3>2, <3>3 DEF IInv, LocalType
  <2>9. HistoryType'
    <3>1. UNCHANGED <<updates, net, raced>>
      BY <1>3 DEF answers, history
    <3>2. seen' \in [Threads -> SUBSET (Vals \cup {NoVal})]
      BY <2>6, <2>8, ObserveType DEF IInv, LocalType
    <3> QED BY <3>1, <3>2 DEF IInv, HistoryType
  <2>10. pc'[t] = "copy_lock" /\ ~resize'[t] /\ tab'[t] = ht'
    BY <1>2, <1>3, <2>1 DEF IInv, LocalType
  <2>11. Copying(t)' /\ Holding(t)'
    BY <2>10 DEF Copying, CopyLabels, Holding
  <2>12. \A u \in Threads : ThreadInv(u)'
    <3>1. ThreadInv(t)'
      BY <1>2, <1>3, <2>10
      DEF ThreadInv, Calling, Tabless, At, Copying, Holding, CopyLabels, Null
    <3>2. ASSUME NEW u \in Threads \ {t} PROVE ThreadInv(u)'
      <4>1. ht' = ht /\ ht \in Nat /\ ht <= ht /\ resize_lock'
        BY <1>2, <1>3
      <4> QED BY <2>7, <2>8, <4>1, ThreadKept DEF IInv
    <3> QED BY <3>1, <3>2
  <2>13. OneChosen'
    BY <1>1, <2>2, <2>8, OthersSame DEF IInv, OneChosen
  <2>14. ListInv'
    <3>1. \A v \in 1 .. ht : Triggered(v)'
      <4>1. \A v \in 1 .. ht : Triggered(v)
        BY <1>1, <1>2 DEF IInv, ListInv
      <4> QED BY <2>3, <2>6, <2>7, <4>1, TriggeredKept DEF IInv
    <3>2. Len(tables') = IF \E u \in Threads : Copying(u)' THEN ht' + 1 ELSE ht'
      BY <1>3, <2>5, <2>11
    <3>3. \A v \in 2 .. ht' : tables'[v].prev = v - 1
      BY <1>2, <1>3, <2>5 DEF IInv, ListInv
    <3>4. \A v \in 1 .. Len(tables') : tables'[v].released => v < ht'
      BY <1>2, <1>3, <2>3, <2>4, <2>5 DEF IInv, ListInv
    <3>5. (\A v \in 1 .. ht - 1 : Triggered(v))' /\ Triggered(ht)'
      <4>1. ht' = ht
        BY <1>3
      <4>2. \A v \in 1 .. ht' : Triggered(v)'
        BY <3>1, <4>1
      <4> QED BY <1>2, <4>1, <4>2 DEF Triggered, Threshold
    <3> QED BY <3>2, <3>3, <3>4, <3>5 DEF ListInv
  <2>15. LockDiscipline'
    <3> SUFFICES ASSUME NEW w \in 1 .. ht + 1, NEW u \in Threads
                 PROVE  tables'[w].mutex = u
                          <=> tab'[u] = w /\ pc'[u] \in Critical
      BY <2>5 DEF LockDiscipline
    <3>1. CASE w = ht + 1
      <4>1. tab'[u] # w
        BY <1>2, <2>1, <3>1 DEF IInv, LocalType, Null
      <4> QED BY <2>4, <2>5, <3>1, <4>1, LbAssumption
    <3>2. CASE w # ht + 1
      <4>1. w \in 1 .. ht
        BY <1>2, <3>2
      <4>2. tables[w].mutex = u <=> tab[u] = w /\ pc[u] \in Critical
        BY <2>3, <4>1 DEF IInv, LockDiscipline
      <4>3. pc'[u] \in Critical <=> pc[u] \in Critical
        BY <1>1, <2>8, <2>10 DEF OthersKept, Critical
      <4> QED BY <2>1, <2>5, <4>1, <4>2, <4>3
    <3> QED BY <3>1, <3>2
  <2> QED
    BY <2>6, <2>8, <2>9, <2>12, <2>13, <2>14, <2>15 DEF IInv
<1> QED BY <1>4, <1>5 DEF IInv, HeapType

LEMMA SwapInv ==
  ASSUME IInv, NEW t \in Threads, Swap(t), Observe
  PROVE  IInv'
<1> DEFINE v == ht + 1
           T == tables[v]
           new == WithPrev(T, ht)
<1>1. pc[t] = "copy_lock" /\ Copying(t) /\ Holding(t) /\ Chosen(t)
  BY DEF Swap, At, Copying, CopyLabels, Holding, Chosen
<1>2. /\ tab[t] = ht /\ ht \in 1 .. Len(tables) /\ Len(tables) = v
      /\ resize_lock /\ ht # Null
  BY <1>1, CopyFacts DEF IInv, Null
<1>3. v \in 1 .. Len(tables) /\ T \in Table
  <2>1. v \in 1 .. Len(tables)
    BY <1>2
  <2> QED BY <2>1, TableTyped DEF IInv
<1>4. UNCHANGED <<resize_lock, answers, history, tab, idx, cur, copied, by>>
      /\ ht' = v /\ bin' = [bin EXCEPT ![t] = 0]
      /\ pc' = [pc EXCEPT ![t] = "resize_unlock"]
      /\ resize' = [resize EXCEPT ![t] = Triggered(v)]
      /\ tables' = [tables EXCEPT ![v] = new]
  BY <1>2 DEF Swap, Goto, New, Triggered, WithPrev
<1>5. /\ new \in Table /\ new.num = T.num /\ new.chain = T.chain
      /\ new.expands = T.expands /\ new.prev = ht
      /\ new.released = T.released /\ new.mutex = T.mutex
  <2>1. ht \in Nat
    BY <1>2
  <2> HIDE DEF T
  <2> QED BY <1>3, <2>1, FieldTypes
<1> HIDE DEF new
<1>6. /\ HeapType' /\ Evolves
      /\ Len(tables') = Len(tables) /\ tables'[v] = new
      /\ \A u \in 1 .. Len(tables) : u # v => tables'[u] = tables[u]
  <2>1. new.prev \in Null .. v - 1
    BY <1>2, <1>5 DEF Null
  <2>2. ht' \in 1 .. Len(tables) /\ resize_lock' \in BOOLEAN
    BY <1>2, <1>3, <1>4
  <2>3. HeapType /\ tables' = [tables EXCEPT ![v] = new]
    BY <1>4 DEF IInv
  <2> HIDE DEF v
  <2> QED BY <1>3, <1>5, <2>1, <2>2, <2>3, TableStep
<1>7. LocalType' /\ OthersKept(t)
  <2>1. pc' \in [Threads -> Labels] /\ bin' \in [Threads -> Nat]
    BY <1>4 DEF IInv, LocalType, Labels
  <2>2. resize' \in [Threads -> BOOLEAN]
    BY <1>4 DEF IInv, LocalType, Triggered
  <2>3. tab' \in [Threads -> Null .. ht']
    BY <1>2, <1>4 DEF IInv, LocalType, Null
  <2>4. UNCHANGED <<call, ret, tab, cur, idx, copied, by>>
    BY <1>4 DEF answers
  <2>5. OthersKept(t)
    BY <1>4, <2>4 DEF IInv, LocalType, OthersKept
  <2> QED BY <2>1, <2>2, <2>3, <2>4, <2>5 DEF IInv, LocalType
<1>8. HistoryType'
  <2>1. UNCHANGED <<updates, net, raced>>
    BY <1>4 DEF answers, history
  <2>2. seen' \in [Threads -> SUBSET (Vals \cup {NoVal})]
    BY <1>6, <1>7, ObserveType DEF IInv, LocalType
  <2> QED BY <2>1, <2>2 DEF IInv, HistoryType
<1>9. /\ pc'[t] = "resize_unlock" /\ tab'[t] = ht
      /\ resize'[t] <=> Triggered(v)
  BY <1>2, <1>4 DEF IInv, LocalType
<1>10. ~Copying(t)' /\ Holding(t)'
  BY <1>9 DEF Copying, CopyLabels, Holding, At
<1>11. \A u \in Threads \ {t} : ~Chosen(u) /\ ~Holding(u) /\ ~Copying(u)
  BY <1>1 DEF IInv, OneChosen, Holding
<1>12. \A u \in Threads \ {t} : ~Chosen(u)' /\ ~Holding(u)' /\ ~Copying(u)'
  BY <1>7, <1>11, OthersSame
<1>13. \A u \in Threads : ThreadInv(u)'
  <2>1. ThreadInv(t)'
    BY <1>2, <1>4, <1>9, <1>10
    DEF ThreadInv, Calling, Tabless, At, Copying, Holding, CopyLabels
  <2>2. ASSUME NEW u \in Threads \ {t} PROVE ThreadInv(u)'
    <3>1. ht' \in Nat /\ ht <= ht' /\ (Chosen(u) => ht' = ht)
      BY <1>2, <1>4, <1>11
    <3>2. Holding(u) => resize_lock'
      BY <1>11
    <3> QED BY <1>6, <1>7, <3>1, <3>2, ThreadKept DEF IInv
  <2> QED BY <2>1, <2>2
<1>14. OneChosen'
  BY <1>12 DEF OneChosen
<1>15. ListInv'
  <2>1. (\E u \in Threads : Chosen(u)') => Triggered(ht)'
    <3> SUFFICES ASSUME NEW u \in Threads, Chosen(u)' PROVE Triggered(ht)'
      OBVIOUS
    <3>1. u = t /\ resize'[t]
      BY <1>9, <1>12 DEF Chosen, CopyLabels
    <3>2. Triggered(v)
      BY <1>9, <3>1
    <3> QED BY <1>4, <1>5, <1>6, <3>2 DEF Triggered, Threshold
  <2>2. \A u \in 1 .. ht : Triggered(u)'
    <3>1. \A u \in 1 .. ht : Triggered(u)
      BY <1>1, <1>2 DEF IInv, ListInv
    <3> QED BY <1>2, <1>6, <3>1, TriggeredKept DEF IInv
  <2>3. \A u \in 1 .. ht' - 1 : Triggered(u)'
    BY <1>2, <1>4, <2>2
  <2>4. Len(tables') = IF \E u \in Threads : Copying(u)' THEN ht' + 1 ELSE ht'
    BY <1>2, <1>4, <1>6, <1>10, <1>12
  <2>5. \A u \in 2 .. ht' : tables'[u].prev = u - 1
    BY <1>2, <1>4, <1>5, <1>6 DEF IInv, ListInv
  <2>6. \A u \in 1 .. Len(tables') : tables'[u].released => u < ht'
    BY <1>2, <1>4, <1>5, <1>6 DEF IInv, ListInv
  <2>7. (\E u \in Threads : Chosen(u))' => Triggered(ht)'
    BY <2>1
  <2> QED BY <2>3, <2>4, <2>5, <2>6, <2>7 DEF ListInv
<1>16. LockDiscipline'
  <2>1. SameMutexes
    BY <1>5, <1>6 DEF SameMutexes
  <2>2. pc[t] \notin Critical /\ pc'[t] \notin Critical
    BY <1>1, <1>9 DEF Critical
  <2> QED BY <1>7, <2>1, <2>2, LockKept DEF IInv
<1> QED
  BY <1>6, <1>7, <1>8, <1>13, <1>14, <1>15, <1>16 DEF IInv

LEMMA ResizeUnlockInv ==
  ASSUME IInv, NEW t \in Threads, ResizeUnlock(t), Observe
  PROVE  IInv'
<1> DEFINE v == tab[t]
           T == tables[v]
           new == WithReleased(T, TRUE)
<1>1. pc[t] = "resize_unlock" /\ Holding(t) /\ ~Copying(t)
  BY DEF ResizeUnlock, At, Copying, CopyLabels, Holding
<1>2. v < ht /\ v \in 1 .. Len(tables) /\ ht \in 1 .. Len(tables)
  <2>1. v < ht /\ v # Null
    BY <1>1 DEF IInv, ThreadInv, At, Tabless
  <2> QED BY <2>1 DEF IInv, HeapType, LocalType, Null
<1>3. T \in Table
  BY <1>2, TableTyped DEF IInv
<1>4. UNCHANGED <<ht, answers, history, idx, cur, resize, copy>>
      /\ ~resize_lock' /\ resize_lock' \in BOOLEAN
      /\ tab' = [tab EXCEPT ![t] = Null]
      /\ pc' = [pc EXCEPT ![t] = IF resize[t] THEN "status" ELSE "idle"]
      /\ tables' = [tables EXCEPT ![v] = new]
  BY DEF ResizeUnlock, Goto, SetTab, Released, WithReleased
<1>5. /\ new \in Table /\ new.num = T.num /\ new.chain = T.chain
      /\ new.expands = T.expands /\ new.prev = T.prev
      /\ new.released = TRUE /\ new.mutex = T.mutex
  <2> HIDE DEF T
  <2> QED BY <1>3, FieldTypes
<1> HIDE DEF new
<1>6. /\ HeapType' /\ Evolves
      /\ Len(tables') = Len(tables) /\ tables'[v] = new
      /\ \A u \in 1 .. Len(tables) : u # v => tables'[u] = tables[u]
  <2>1. new.prev \in Null .. v - 1
    BY <1>2, <1>5 DEF IInv, HeapType
  <2>2. ht' \in 1 .. Len(tables)
    BY <1>2, <1>4
  <2> QED BY <1>2, <1>4, <1>5, <2>1, <2>2, TableStep DEF IInv
<1>7. LocalType' /\ OthersKept(t)
  <2>1. pc' \in [Threads -> Labels] /\ tab' \in [Threads -> Null .. ht]
    BY <1>2, <1>4 DEF IInv, LocalType, Labels, Null
  <2>2. UNCHANGED <<ht, call, ret, cur, resize, idx, bin, copied, by>>
    BY <1>4 DEF answers, copy
  <2>3. OthersKept(t)
    BY <1>4, <2>2 DEF IInv, LocalType, OthersKept
  <2> QED BY <2>1, <2>2, <2>3 DEF IInv, LocalType
<1>8. HistoryType'
  <2>1. UNCHANGED <<updates, net, raced>>
    BY <1>4 DEF answers, history
  <2>2. seen' \in [Threads -> SUBSET (Vals \cup {NoVal})]
    BY <1>6, <1>7, ObserveType DEF IInv, LocalType
  <2> QED BY <2>1, <2>2 DEF IInv, HistoryType
<1>9. /\ pc'[t] = IF resize[t] THEN "status" ELSE "idle"
      /\ resize'[t] = resize[t]
  BY <1>4 DEF IInv, LocalType
<1>10. /\ ~Copying(t)' /\ ~Holding(t)'
       /\ Chosen(t)' => Chosen(t)
  BY <1>9 DEF Copying, CopyLabels, Holding, At, Chosen
<1>11. \A u \in Threads \ {t} : ~Holding(u) /\ ~Holding(u)'
  BY <1>1, <1>7, OthersSame DEF IInv, OneChosen
<1>12. \A u \in Threads : ThreadInv(u)'
  <2>1. ThreadInv(t)'
    BY <1>9, <1>10
    DEF ThreadInv, Calling, Tabless, At, Copying, Holding, CopyLabels
  <2>2. ASSUME NEW u \in Threads \ {t} PROVE ThreadInv(u)'
    <3>1. ht' \in Nat /\ ht <= ht' /\ (Chosen(u) => ht' = ht)
      BY <1>2, <1>4
    <3>2. Holding(u) => resize_lock'
      BY <1>11
    <3> QED BY <1>6, <1>7, <3>1, <3>2, ThreadKept DEF IInv
  <2> QED BY <2>1, <2>2
<1>13. OneChosen'
  BY <1>7, <1>10, <1>11, OthersSame DEF IInv, OneChosen
<1>14. ListInv'
  <2>1. \A u \in 1 .. ht : Triggered(u) => Triggered(u)'
    BY <1>2, <1>6, TriggeredKept DEF IInv
  <2>2. (\E u \in Threads : Chosen(u)') => Triggered(ht)'
    <3>1. (\E u \in Threads : Chosen(u)') => (\E u \in Threads : Chosen(u))
      BY <1>7, <1>10, OthersSame
    <3>2. (\E u \in Threads : Chosen(u)) => Triggered(ht)
      BY DEF IInv, ListInv
    <3>3. \A u \in 1 .. ht : Triggered(u) => tables'[u].expands >= tables'[u].num
      BY <2>1 DEF Triggered, Threshold
    <3>4. ht \in 1 .. ht /\ ht' = ht
      BY <1>2, <1>4
    <3>5. Triggered(ht) => tables'[ht'].expands >= tables'[ht'].num
      BY <3>3, <3>4
    <3> QED BY <3>1, <3>2, <3>5 DEF Triggered, Threshold
  <2>3. \A u \in 1 .. ht' - 1 : Triggered(u)'
    BY <1>2, <1>4, <2>1 DEF IInv, ListInv
  <2>4. Len(tables') = IF \E u \in Threads : Copying(u)' THEN ht' + 1 ELSE ht'
    <3>1. \A u \in Threads : ~Copying(u) /\ ~Copying(u)'
      BY <1>1, <1>10, <1>11 DEF Holding
    <3>2. Len(tables) = ht
      BY <3>1 DEF IInv, ListInv
    <3> QED BY <1>4, <1>6, <3>1, <3>2
  <2>5. \A u \in 2 .. ht' : tables'[u].prev = u - 1
    BY <1>2, <1>4, <1>5, <1>6 DEF IInv, ListInv
  <2>6. \A u \in 1 .. Len(tables') : tables'[u].released => u < ht'
    BY <1>2, <1>4, <1>5, <1>6 DEF IInv, ListInv
  <2>7. (\E u \in Threads : Chosen(u))' => Triggered(ht)'
    BY <2>2
  <2> QED BY <2>3, <2>4, <2>5, <2>6, <2>7 DEF ListInv
<1>15. LockDiscipline'
  <2>1. SameMutexes
    BY <1>5, <1>6 DEF SameMutexes
  <2>2. pc[t] \notin Critical /\ pc'[t] \notin Critical
    BY <1>1, <1>9 DEF Critical
  <2> QED BY <1>7, <2>1, <2>2, LockKept DEF IInv
<1> QED
  BY <1>6, <1>7, <1>8, <1>12, <1>13, <1>14, <1>15 DEF IInv

-----------------------------------------------------------------------------
(* The invariant holds in every state.                                     *)

LEMMA InitInv ==
  ASSUME Init
  PROVE  IInv
<1>1. NewTable(Buckets) \in Table
  BY NewTableType, LbAssumption
<1>2. tables = <<NewTable(Buckets)>> /\ Len(tables) = 1
      /\ tables[1] = NewTable(Buckets) /\ ht = 1
  BY DEF Init
<1>3. HeapType
  <2> DEFINE T == NewTable(Buckets)
  <2>1. T.prev = Null
    BY DEF NewTable
  <2> HIDE DEF T
  <2>2. tables \in Seq(Table)
    BY <1>1, <1>2
  <2>3. 1 \in 1 .. MaxTables
    BY LbAssumption
  <2>4. \A v \in 1 .. Len(tables) : tables[v].prev \in Null .. v - 1
    <3> SUFFICES ASSUME NEW v \in 1 .. Len(tables)
                 PROVE  tables[v].prev \in Null .. v - 1
      OBVIOUS
    <3>1. v = 1
      BY <1>2
    <3>2. tables[v].prev = 0
      BY <1>2, <2>1, <3>1 DEF T, Null
    <3> QED BY <3>1, <3>2 DEF Null
  <2>5. ht \in 1 .. Len(tables)
    BY <1>2
  <2>6. resize_lock \in BOOLEAN
    BY Zenon DEF Init
  <2> QED BY <1>2, <2>2, <2>3, <2>4, <2>5, <2>6 DEF HeapType
<1>4. LocalType
  BY <1>2, CallTypes DEF Init, LocalType, Labels, Null
<1>5. HistoryType
  <2>1. updates \in 0 .. MaxUpdates /\ net \in Int
    BY LbAssumption DEF Init
  <2>2. raced \in BOOLEAN
    BY Zenon DEF Init
  <2>3. seen \in [Threads -> SUBSET (Vals \cup {NoVal})]
    BY DEF Init
  <2> QED BY <2>1, <2>2, <2>3 DEF HistoryType
<1>6. \A t \in Threads : ThreadInv(t) /\ ~Chosen(t) /\ ~Holding(t) /\ ~Copying(t)
  BY DEF Init, ThreadInv, Calling, Tabless, At, Holding, Copying, CopyLabels, Chosen
<1>7. OneChosen
  BY <1>6 DEF OneChosen
<1>8. ListInv
  <2>1. ~tables[1].released
    BY <1>2 DEF NewTable
  <2> QED BY <1>2, <1>6, <2>1 DEF ListInv
<1>9. LockDiscipline
  <2>1. tables[1].mutex = NoThread
    BY <1>2 DEF NewTable
  <2>2. \A t \in Threads : pc[t] \notin Critical
    BY DEF Init, Critical
  <2> QED BY <1>2, <2>1, <2>2, LbAssumption DEF LockDiscipline
<1> QED BY <1>3, <1>4, <1>5, <1>6, <1>7, <1>8, <1>9 DEF IInv

LEMMA StutterInv ==
  ASSUME IInv, UNCHANGED vars
  PROVE  IInv'
<1>1. UNCHANGED <<tables, ht, resize_lock, call, ret, updates, net, raced, pc,
                  tab, idx, cur, resize, bin, copied, by, seen>>
  BY DEF vars, heap, answers, history, copy
<1>2. HeapType' /\ LocalType' /\ HistoryType' /\ LockDiscipline'
  BY <1>1 DEF IInv, HeapType, LocalType, HistoryType, LockDiscipline
<1>3. \A t \in Threads : ThreadInv(t)'
  BY <1>1 DEF IInv, ThreadInv, At, Copying, Holding
<1>4. OneChosen' /\ ListInv'
  BY <1>1
  DEF IInv, OneChosen, ListInv, Chosen, Copying, Holding, At, Triggered, Threshold
<1> QED BY <1>2, <1>3, <1>4 DEF IInv

LEMMA NextInv ==
  ASSUME IInv, [Next]_vars
  PROVE  IInv'
<1>1. CASE UNCHANGED vars
  BY <1>1, StutterInv
<1>2. CASE Next
  <2>1. Observe
    BY <1>2 DEF Next
  <2>2. ASSUME NEW t \in Threads, Get(t) \/ Put(t) \/ Remove(t) PROVE IInv'
    BY <2>1, <2>2, CallsInv
  <2>3. ASSUME NEW t \in Threads, GetVal(t) \/ GetKey(t) \/ Exists(t) PROVE IInv'
    BY <2>1, <2>3, GetValInv, GetKeyInv, ExistsInv
  <2>4. ASSUME NEW t \in Threads,
               \/ GetAgain(t) \/ PutLocked(t) \/ WriteKey(t) \/ RemoveLocked(t)
               \/ Unlock(t)
        PROVE  IInv'
    BY <2>1, <2>4, GetAgainInv, PutLockedInv, WriteKeyInv, RemoveLockedInv, UnlockInv
  <2>5. ASSUME NEW t \in Threads, Status(t) \/ ReadOld(t) \/ ResizeLock(t)
        PROVE  IInv'
    BY <2>1, <2>5, StatusInv, ReadOldInv, ResizeLockInv
  <2>6. ASSUME NEW t \in Threads,
               CopyLock(t) \/ CopyKey(t) \/ CopyVal(t) \/ Swap(t) \/ ResizeUnlock(t)
        PROVE  IInv'
    BY <2>1, <2>6, CopyLockInv, CopyKeyInv, CopyValInv, SwapInv, ResizeUnlockInv
  <2> QED BY <1>2, <2>2, <2>3, <2>4, <2>5, <2>6 DEF Next
<1> QED BY <1>1, <1>2

(* The state is always one in which the mutexes, the list of tables and    *)
(* the steps of the threads agree: the basis of the theorems below.        *)
THEOREM Invariance == Spec => []IInv
<1>1. Init => IInv
  BY InitInv
<1>2. IInv /\ [Next]_vars => IInv'
  BY NextInv
<1> QED BY <1>1, <1>2, PTL DEF Spec

LEMMA InvTypes == IInv => TypeOK
<1> SUFFICES ASSUME IInv PROVE TypeOK
  OBVIOUS
<1>1. ASSUME NEW v \in 1 .. Len(tables)
      PROVE  /\ DOMAIN tables[v].chain = 0 .. tables[v].num - 1
             /\ \A b \in DOMAIN tables[v].chain : tables[v].chain[b] \in Seq(Cells)
             /\ tables[v].mutex \in Threads \cup {NoThread}
             /\ tables[v].expands \in Nat
             /\ tables[v].marked \subseteq DOMAIN tables[v].chain
             /\ tables[v].prev \in Null .. v - 1
             /\ tables[v].released \in BOOLEAN
  <2> DEFINE T == tables[v]
  <2>1. T \in TableOf(T.num)
    BY TableTyped DEF IInv
  <2>2. T.prev \in Null .. v - 1
    BY DEF IInv, HeapType
  <2> HIDE DEF T
  <2>3. /\ DOMAIN T.chain = 0 .. T.num - 1
        /\ \A b \in DOMAIN T.chain : T.chain[b] \in Seq(Cells)
        /\ T.mutex \in Threads \cup {NoThread} /\ T.expands \in Nat
        /\ T.marked \subseteq DOMAIN T.chain /\ T.released \in BOOLEAN
    BY <2>1 DEF TableOf
  <2> QED BY <2>2, <2>3 DEF T
<1>2. tab \in [Threads -> Null .. Len(tables)]
  BY DEF IInv, HeapType, LocalType, Null
<1>3. HeapType /\ LocalType /\ HistoryType
  BY DEF IInv
<1> QED BY <1>1, <1>2, <1>3 DEF TypeOK, HeapType, LocalType, HistoryType

(* Every table is well formed and every variable of clht_lb_res.c keeps    *)
(* its range: no table links back to itself or to a later one, and a       *)
(* thread has a table of the list or none.                                 *)
THEOREM TypeCorrect == Spec => []TypeOK
BY Invariance, InvTypes, PTL

(* The mutex of a table belongs to the thread between its lock and unlock  *)
(* and to nobody else: clht_get, clht_put and clht_remove unlock on every  *)
(* path, whatever table the resizers have installed meanwhile.             *)
THEOREM Disciplined == Spec => []LockDiscipline
<1>1. IInv => LockDiscipline
  BY DEF IInv
<1> QED BY <1>1, Invariance, PTL

(* Each table is copied into one successor only and only replaced tables   *)
(* are released, although ht_resize_pes reads ht_old before resize_lock:   *)
(* the equality in clht_bucket_create_stats lets one thread in per table.  *)
THEOREM CopiedOnce == Spec => []ResizedOnce
<1>1. IInv => ResizedOnce
  <2> SUFFICES ASSUME IInv PROVE ResizedOnce
    OBVIOUS
  <2>1. ht \in Nat /\ ListInv
    BY DEF IInv, HeapType
  <2> QED BY <2>1 DEF ListInv, ResizedOnce
<1> QED BY <1>1, Invariance, PTL
=============================================================================
