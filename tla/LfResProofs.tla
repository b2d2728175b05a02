---------------------------- MODULE LfResProofs ----------------------------
(***************************************************************************)
(* Proofs about LfRes: the list of its tables while they are created,      *)
(* replaced, collected and destroyed, for any number of threads, tables    *)
(* and keys.                                                               *)
(***************************************************************************)
EXTENDS LfRes, NatFacts, SequenceTheorems, TLAPS

-----------------------------------------------------------------------------
(* The inductive invariant.                                                *)

CellMaps == UNION {[D -> Cells] : D \in SUBSET Nat}
Table == [num : Nat \ {0}, version : Nat, cells : CellMaps, new : Nat,
          prev : Nat, freed : BOOLEAN]

HeapType ==
  /\ tables \in Seq(Table) /\ Len(tables) \in 1 .. MaxTables
  /\ \A v \in 1 .. Len(tables) :
       /\ Used(v) \subseteq 1 .. Size(tables[v].num)
       /\ {tables[v].new, tables[v].prev} \subseteq Null .. Len(tables)
  /\ {ht, oldest} \subseteq Null .. Len(tables)
  /\ vmin \in Nat

(* The thread that has status_lock is at one of these steps.               *)
StatusLabels ==
  {"decide", "resize", "begin", "mark", "resize_min", "resize_scan", "copy",
   "swap", "table_new", "unlock", "gc", "gc_check", "gc_lock", "gc_min",
   "gc_scan", "gc_unlock", "gc_free", "leave"}
GrowLabels == {"mark", "resize_min", "resize_scan", "copy", "swap"}
Owner(t) == pc[t] \in StatusLabels
Growing(t) == pc[t] \in GrowLabels
Freeing(t) == At(t, "gc_free")

OwnerInv ==
  /\ \A t \in Threads : Owner(t) => status_lock
  /\ \A t, u \in Threads : Owner(t) /\ Owner(u) => t = u

(* Updates and gets are on their way only while there is a table, and know *)
(* on which they work.                                                     *)
CallInv(t) ==
  /\ pc[t] \notin {"off", "idle"} => ht # Null
  /\ pc[t] \in {"announce", "search", "commit", "remove"} => tab[t] # Null

(* The versions grow by two at most per table.                             *)
VersionInv ==
  /\ 2 * MaxTables <= VersionMax
  /\ \A v \in 1 .. Len(tables) :
       tables[v].version + 2 * (MaxTables - v) + 1 <= VersionMax
  /\ tables[Len(tables)].version + 2 * (MaxTables - Len(tables)) + 2 <= VersionMax

(* The tables before b are freed, those from b on linked by prev.          *)
FreedBelow(b) ==
  /\ b \in 1 .. ht
  /\ \A v \in 1 .. Len(tables) :
       /\ tables[v].freed <=> v < b
       /\ tables[v].prev = IF b < v /\ v <= ht THEN v - 1 ELSE Null

LinkInv ==
  /\ \A v \in 1 .. ht - 1 :
       /\ tables[v].version < tables[v + 1].version
       /\ tables[v].new = IF Linking(v) THEN Null ELSE v + 1
  /\ \A v \in ht .. Len(tables) : tables[v].new = Null

HeapInv ==
  /\ oldest \in 1 .. ht
  /\ vmin <= tables[oldest].version
  /\ (\A t \in Threads : ~Growing(t)) => Len(tables) = ht
  /\ (\A t \in Threads : ~Freeing(t)) => FreedBelow(oldest)

(* What a resize and a collection know at each of their steps.             *)
ResizeInv(t) ==
  /\ pc[t] \in {"resize", "begin"} => Len(tables) < MaxTables
  /\ Growing(t) => tab[t] = ht /\ Len(tables) = ht + 1
  /\ pc[t] \in {"copy", "swap"} => tables[ht].version < tables[ht + 1].version
  /\ At(t, "table_new") => tab[t] = ht - 1 /\ tab[t] >= 1
  /\ pc[t] \in {"gc_scan", "gc_free"} => low[t] <= tables[ht].version
  /\ Freeing(t) => oldest <= tab[t] /\ FreedBelow(tab[t])

TablesInv ==
  IF ht = Null THEN \A v \in 1 .. Len(tables) : tables[v].freed
  ELSE LinkInv /\ HeapInv /\ \A t \in Threads : ResizeInv(t)

IInv ==
  /\ TypeOK /\ HeapType
  /\ OwnerInv
  /\ \A t \in Threads : CallInv(t)
  /\ VersionInv
  /\ TablesInv

-----------------------------------------------------------------------------
(* Types of the operators.                                                 *)

LEMMA CallTypes ==
  /\ Idle \in Calls
  /\ \A k \in Keys, op \in {"get", "remove"} :
       [op |-> op, key |-> k, val |-> NoVal] \in Calls
  /\ \A k \in Keys, v \in Vals : [op |-> "put", key |-> k, val |-> v] \in Calls
  /\ \A c \in Calls : c.op = "put" => c.val \in Vals /\ c.key \in Keys
  /\ \A c \in Calls : c # Idle => c.key \in Keys
BY DEF Calls, Idle

LEMMA TableTyped ==
  ASSUME HeapType, NEW v \in 1 .. Len(tables)
  PROVE  tables[v] \in Table
<1>1. tables \in Seq(Table)
  BY DEF HeapType
<1> QED BY <1>1, ElementOfSeq

(* The cells of a bucket are cells of the table.                           *)
LEMMA BinRange ==
  ASSUME HeapType, NEW v \in 1 .. Len(tables), NEW k \in Nat
  PROVE  Bin(v, k) \subseteq 1 .. Size(tables[v].num)
<1> DEFINE n == tables[v].num
           b == k % n
<1>1. n \in Nat \ {0} /\ Entries \in Nat \ {0}
  BY TableTyped, ResAssumption DEF Table
<1>2. b \in 0 .. n - 1
  BY <1>1, ModInRange
<1> HIDE DEF n, b
<1>3. b * Entries \in Nat /\ (b + 1) * Entries <= n * Entries /\ n * Entries \in Nat
  <2>1. b \in Nat /\ b + 1 \in Nat /\ b + 1 <= n /\ n \in Nat /\ Entries \in Nat
    BY <1>1, <1>2
  <2> QED BY <2>1, TimesMonotone
<1>4. (b + 1) * Entries = b * Entries + Entries
  BY <1>1, <1>2
<1>5. b * Entries + 1 .. b * Entries + Entries \subseteq 1 .. n * Entries
  BY <1>1, <1>3, <1>4
<1> QED BY <1>5 DEF Bin, Size, n, b

LEMMA TableFacts ==
  ASSUME HeapType, NEW v \in 1 .. Len(tables)
  PROVE  /\ tables[v] \in Table
         /\ Size(tables[v].num) \in Nat
         /\ Used(v) \subseteq 1 .. Size(tables[v].num)
         /\ \A n \in Used(v) : tables[v].cells[n] \in Cells
<1>1. tables[v] \in Table
  BY TableTyped
<1>2. PICK D \in SUBSET Nat : tables[v].cells \in [D -> Cells]
  BY <1>1 DEF Table, CellMaps
<1>3. Size(tables[v].num) \in Nat
  BY <1>1, TimesMonotone, ResAssumption DEF Size, Table
<1> QED
  BY <1>1, <1>2, <1>3 DEF HeapType, Used

(* What a search finds.                                                    *)
LEMMA FoundTypes ==
  ASSUME HeapType, NEW v \in 1 .. Len(tables), NEW k
  PROVE  /\ Found(v, k) \subseteq Used(v)
         /\ Found(v, k) # {} => /\ Min(Found(v, k)) \in Found(v, k)
                                /\ Min(Found(v, k)) \in Nat
         /\ Lookup(v, k) \in Vals \cup {NoVal}
<1>1. Found(v, k) \subseteq Used(v)
  BY DEF Found
<1>2. Found(v, k) \in SUBSET Nat
  BY <1>1, TableFacts
<1>3. Found(v, k) # {} => /\ Min(Found(v, k)) \in Found(v, k)
                          /\ Min(Found(v, k)) \in Nat
  BY <1>2, MinIsLeast
<1>4. Lookup(v, k) \in Vals \cup {NoVal}
  BY <1>1, <1>3, TableFacts DEF Lookup, Cells
<1> QED BY <1>1, <1>3, <1>4

(* A free cell of the bucket of a key.                                     *)
LEMMA UnusedTypes ==
  ASSUME HeapType, NEW v \in 1 .. Len(tables), NEW k \in Nat, Unused(v, k) # {}
  PROVE  Min(Unused(v, k)) \in 1 .. Size(tables[v].num)
<1>1. Unused(v, k) \subseteq 1 .. Size(tables[v].num)
  BY BinRange DEF Unused
<1>2. Unused(v, k) \in SUBSET Nat
  BY <1>1, TableFacts
<1> QED BY <1>1, <1>2, MinIsLeast

StoreTyped == Store \in [Keys -> Vals \cup {NoVal}]

LEMMA StoreType == HeapType => StoreTyped
<1> SUFFICES ASSUME HeapType PROVE Store \in [Keys -> Vals \cup {NoVal}]
  BY DEF StoreTyped
<1> DEFINE v == IF ht = Null THEN Len(tables) ELSE ht
<1>1. v \in 1 .. Len(tables)
  BY DEF HeapType, Null
<1> HIDE DEF v
<1>2. \A k \in Keys : Lookup(v, k) \in Vals \cup {NoVal}
  BY <1>1, FoundTypes
<1> QED BY <1>2 DEF Store, v

(* The history of a call holds values.                                     *)
LEMMA ObserveType ==
  ASSUME TypeOK, HeapType', call' \in [Threads -> Calls], Observe
  PROVE  seen' \in [Threads -> SUBSET (Vals \cup {NoVal})]
<1>1. StoreTyped'
  BY StoreType, PTL
<1>2. \A t \in Threads : call'[t] # Idle => call'[t].key \in Keys
  BY CallTypes
<1> QED
  BY <1>1, <1>2 DEF Observe, TypeOK, StoreTyped

(* The maps of the cells of a table.                                       *)
LEMMA CellMapTypes ==
  ASSUME HeapType, NEW v \in 1 .. Len(tables)
  PROVE  /\ \A n \in 1 .. Size(tables[v].num), c \in Cells :
              /\ With(tables[v].cells, n, c) \in CellMaps
              /\ DOMAIN With(tables[v].cells, n, c) \subseteq 1 .. Size(tables[v].num)
         /\ \A n : /\ Without(tables[v].cells, n) \in CellMaps
                   /\ DOMAIN Without(tables[v].cells, n) \subseteq 1 .. Size(tables[v].num)
         /\ \A n :
              /\ [tables[v].cells EXCEPT ![n].valid = TRUE] \in CellMaps
              /\ DOMAIN [tables[v].cells EXCEPT ![n].valid = TRUE]
                   \subseteq 1 .. Size(tables[v].num)
<1> DEFINE cells == tables[v].cells
           size == Size(tables[v].num)
<1>1. /\ cells \in [Used(v) -> Cells]
      /\ Used(v) \subseteq 1 .. size /\ size \in Nat /\ DOMAIN cells = Used(v)
  <2>1. PICK D \in SUBSET Nat : cells \in [D -> Cells]
    <3>1. tables[v].cells \in CellMaps
      BY TableTyped DEF Table
    <3> QED BY <3>1 DEF CellMaps
  <2> QED BY <2>1, TableFacts DEF Used
<1> HIDE DEF cells, size
<1>2. ASSUME NEW n \in 1 .. size, NEW c \in Cells
      PROVE  /\ With(cells, n, c) \in CellMaps
             /\ DOMAIN With(cells, n, c) \subseteq 1 .. size
  <2>1. With(cells, n, c) \in [Used(v) \cup {n} -> Cells]
    BY <1>1 DEF With
  <2>2. Used(v) \cup {n} \in SUBSET Nat
    BY <1>1
  <2> QED BY <1>1, <2>1, <2>2 DEF CellMaps
<1>3. ASSUME NEW n
      PROVE  /\ Without(cells, n) \in CellMaps
             /\ DOMAIN Without(cells, n) \subseteq 1 .. size
  <2>1. Without(cells, n) \in [Used(v) \ {n} -> Cells]
    BY <1>1 DEF Without, Restrict
  <2>2. Used(v) \ {n} \in SUBSET Nat
    BY <1>1
  <2> QED BY <1>1, <2>1, <2>2 DEF CellMaps
<1>4. ASSUME NEW n
      PROVE  /\ [cells EXCEPT ![n].valid = TRUE] \in CellMaps
             /\ DOMAIN [cells EXCEPT ![n].valid = TRUE] \subseteq 1 .. size
  <2>1. [cells EXCEPT ![n].valid = TRUE] \in [Used(v) -> Cells]
    BY <1>1 DEF Cells
  <2>2. Used(v) \in SUBSET Nat
    BY <1>1
  <2> QED BY <1>1, <2>1, <2>2 DEF CellMaps
<1> QED BY <1>2, <1>3, <1>4 DEF cells, size

-----------------------------------------------------------------------------
(* Types of the heap in the next state.                                    *)

(* A step that changes nothing but the cells of tables.                    *)
SameShape ==
  /\ Len(tables') = Len(tables)
  /\ \A v \in 1 .. Len(tables) :
       /\ tables'[v].version = tables[v].version
       /\ tables'[v].new = tables[v].new
       /\ tables'[v].prev = tables[v].prev
       /\ tables'[v].freed = tables[v].freed
  /\ UNCHANGED <<ht, oldest, vmin>>

LEMMA HeapKept ==
  ASSUME HeapType, UNCHANGED heap
  PROVE  HeapType' /\ SameShape
BY DEF HeapType, SameShape, Used, heap

LEMMA CellsSet ==
  ASSUME HeapType, NEW v \in 1 .. Len(tables), NEW cells \in CellMaps,
         DOMAIN cells \subseteq 1 .. Size(tables[v].num),
         SetCells(v, cells), UNCHANGED <<ht, oldest, vmin>>
  PROVE  HeapType' /\ SameShape
<1> DEFINE new == [tables[v] EXCEPT !.cells = cells]
<1>1. tables \in Seq(Table) /\ tables[v] \in Table
  BY TableTyped DEF HeapType
<1>2. new \in Table /\ new.cells = cells
  BY <1>1 DEF Table
<1>3. tables' = [tables EXCEPT ![v] = new]
  BY DEF SetCells
<1> HIDE DEF new
<1>4. tables' \in Seq(Table) /\ Len(tables') = Len(tables)
  BY <1>1, <1>2, <1>3
<1>5. \A u \in 1 .. Len(tables) : tables'[u] = IF u = v THEN new ELSE tables[u]
  BY <1>1, <1>3
<1>6. /\ new.num = tables[v].num /\ new.version = tables[v].version
      /\ new.new = tables[v].new /\ new.prev = tables[v].prev
      /\ new.freed = tables[v].freed
  BY <1>1 DEF new, Table
<1>7. \A u \in 1 .. Len(tables) :
         /\ DOMAIN tables'[u].cells \subseteq 1 .. Size(tables'[u].num)
         /\ {tables'[u].new, tables'[u].prev} \subseteq Null .. Len(tables)
  BY <1>2, <1>5, <1>6 DEF HeapType, Used
<1>8. SameShape
  BY <1>4, <1>5, <1>6 DEF SameShape
<1> QED BY <1>4, <1>7, <1>8 DEF HeapType, Used

(* A step that changes only the links and versions of tables.              *)
LEMMA FieldsSet ==
  ASSUME HeapType, tables' \in Seq(Table), Len(tables') = Len(tables),
         \A v \in 1 .. Len(tables) :
           /\ tables'[v].num = tables[v].num
           /\ tables'[v].cells = tables[v].cells
           /\ {tables'[v].new, tables'[v].prev} \subseteq Null .. Len(tables),
         {ht', oldest'} \subseteq Null .. Len(tables), vmin' \in Nat
  PROVE  HeapType'
BY DEF HeapType, Used

LEMMA VersionSet ==
  ASSUME NEW T \in Table, NEW ver \in Nat
  PROVE  LET new == [T EXCEPT !.version = ver]
         IN  /\ new \in Table /\ new.cells = T.cells /\ new.num = T.num
             /\ new.version = ver /\ new.new = T.new
             /\ new.prev = T.prev /\ new.freed = T.freed
BY DEF Table

-----------------------------------------------------------------------------
(* Steps that leave the shape of the heap alone.                           *)

LEMMA ShapeFacts ==
  ASSUME HeapType, VersionInv, SameShape
  PROVE  /\ VersionInv'
         /\ \A b : (ht # Null /\ FreedBelow(b)) =>
              /\ b \in 1 .. ht'
              /\ \A v \in 1 .. Len(tables') :
                   /\ tables'[v].freed <=> v < b
                   /\ tables'[v].prev = IF b < v /\ v <= ht' THEN v - 1 ELSE Null
<1>1. Len(tables) \in 1 .. Len(tables)
  BY DEF HeapType
<1> QED BY <1>1 DEF VersionInv, SameShape, FreedBelow

LEMMA LinkKept ==
  ASSUME HeapType, ht # Null, LinkInv, SameShape,
         \A v : Linking(v)' <=> Linking(v)
  PROVE  LinkInv'
<1>1. ht \in 1 .. Len(tables) /\ ht' = ht /\ Len(tables') = Len(tables)
  BY DEF HeapType, Null, SameShape
<1>2. ASSUME NEW v \in 1 .. ht' - 1
      PROVE  /\ tables'[v].version < tables'[v + 1].version
             /\ tables'[v].new = IF Linking(v)' THEN Null ELSE v + 1
  <2>1. v \in 1 .. ht - 1 /\ v \in 1 .. Len(tables) /\ v + 1 \in 1 .. Len(tables)
    BY <1>1
  <2> QED BY <2>1 DEF LinkInv, SameShape
<1>3. \A v \in ht' .. Len(tables') : tables'[v].new = Null
  BY <1>1 DEF LinkInv, SameShape
<1> QED BY <1>2, <1>3 DEF LinkInv

(* A thread that has not got status_lock moves on.                         *)
LEMMA CallerStep ==
  ASSUME IInv, SameShape, NEW t \in Threads, ~Owner(t), ~Owner(t)',
         CallInv(t)', UNCHANGED status_lock,
         \A u \in Threads \ {t} :
           pc'[u] = pc[u] /\ tab'[u] = tab[u] /\ low'[u] = low[u]
  PROVE  /\ OwnerInv' /\ (\A u \in Threads : CallInv(u)')
         /\ VersionInv' /\ TablesInv'
<1> USE DEF IInv
<1>1. \A u \in Threads :
        /\ Owner(u)' <=> Owner(u)
        /\ Owner(u) => pc'[u] = pc[u] /\ tab'[u] = tab[u] /\ low'[u] = low[u]
  BY DEF Owner
<1>2. OwnerInv'
  BY <1>1 DEF OwnerInv
<1>3. \A u \in Threads : CallInv(u)'
  BY DEF CallInv, SameShape
<1>4. ht' = ht /\ oldest' = oldest /\ vmin' = vmin /\ Len(tables') = Len(tables)
  BY DEF SameShape
<1>5. \A u \in Threads :
        /\ Growing(u)' <=> Growing(u)
        /\ Freeing(u)' <=> Freeing(u)
        /\ At(u, "table_new")' <=> At(u, "table_new")
        /\ At(u, "table_new") => tab'[u] = tab[u]
  BY <1>1 DEF Growing, Freeing, At, Owner, StatusLabels, GrowLabels
<1>6. TablesInv'
  <2>1. CASE ht = Null
    BY <1>4, <2>1 DEF TablesInv, SameShape
  <2>2. CASE ht # Null
    <3> USE <2>2 DEF TablesInv
    <3>1. ht \in 1 .. Len(tables) /\ oldest \in 1 .. Len(tables)
      BY DEF HeapType, Null, HeapInv
    <3>2. LinkInv'
      <4>1. \A v : Linking(v)' <=> Linking(v)
        BY <1>5 DEF Linking
      <4> QED BY <4>1, LinkKept
    <3>3. HeapInv'
      BY <1>4, <1>5, <3>1, ShapeFacts DEF HeapInv, SameShape, FreedBelow
    <3>4. ASSUME NEW u \in Threads PROVE ResizeInv(u)'
      <4>1. CASE Owner(u)
        <5>1. /\ pc'[u] = pc[u] /\ tab'[u] = tab[u] /\ low'[u] = low[u]
              /\ ResizeInv(u)
          BY <1>1, <4>1
        <5>2. Growing(u) => ht + 1 \in 1 .. Len(tables)
          BY <3>1, <5>1 DEF ResizeInv
        <5>3. pc[u] \in {"copy", "swap"} => tables'[ht].version < tables'[ht + 1].version
          BY <3>1, <5>1, <5>2 DEF ResizeInv, SameShape, Growing, GrowLabels
        <5>4. tables'[ht].version = tables[ht].version
          BY <3>1 DEF SameShape
        <5>5. Freeing(u) => FreedBelow(tab[u])'
          BY <5>1, ShapeFacts DEF ResizeInv, FreedBelow
        <5> QED BY <1>4, <1>5, <5>1, <5>3, <5>4, <5>5 DEF ResizeInv, At
      <4>2. CASE ~Owner(u)
        <5>1. pc'[u] \notin StatusLabels
          BY <1>1, <4>2 DEF Owner
        <5> QED BY <5>1 DEF ResizeInv, StatusLabels, Growing, GrowLabels, Freeing, At
      <4> QED BY <4>1, <4>2
    <3> QED BY <1>4, <3>2, <3>3, <3>4
  <2> QED BY <2>1, <2>2
<1> QED BY <1>2, <1>3, <1>6, ShapeFacts

(* The thread that has status_lock, or takes it, moves on.                 *)
LEMMA OwnerStep ==
  ASSUME IInv, SameShape, ht # Null, NEW t \in Threads,
         CallInv(t)', ResizeInv(t)', Owner(t)' => status_lock',
         \A u \in Threads \ {t} :
           pc'[u] = pc[u] /\ tab'[u] = tab[u] /\ ~Owner(u),
         Growing(t)' <=> Growing(t), Freeing(t)' <=> Freeing(t),
         At(t, "table_new")' <=> At(t, "table_new"),
         At(t, "table_new") => tab'[t] = tab[t]
  PROVE  /\ OwnerInv' /\ (\A u \in Threads : CallInv(u)')
         /\ VersionInv' /\ TablesInv'
<1> USE DEF IInv
<1>1. \A u \in Threads \ {t} : ~Owner(u)'
  BY DEF Owner
<1>2. OwnerInv'
  BY <1>1 DEF OwnerInv
<1>3. \A u \in Threads : CallInv(u)'
  BY DEF CallInv, SameShape
<1>4. ht' = ht /\ oldest' = oldest /\ vmin' = vmin /\ Len(tables') = Len(tables)
  BY DEF SameShape
<1>5. \A u \in Threads :
        /\ Growing(u)' <=> Growing(u)
        /\ Freeing(u)' <=> Freeing(u)
        /\ At(u, "table_new")' <=> At(u, "table_new")
        /\ At(u, "table_new") => tab'[u] = tab[u]
  BY <1>1 DEF Growing, Freeing, At, Owner, StatusLabels, GrowLabels
<1>6. TablesInv'
  <2> USE DEF TablesInv
  <2>1. ht \in 1 .. Len(tables) /\ oldest \in 1 .. Len(tables)
    BY DEF HeapType, Null, HeapInv
  <2>2. LinkInv'
    <3>1. \A v : Linking(v)' <=> Linking(v)
      BY <1>5 DEF Linking
    <3> QED BY <3>1, LinkKept
  <2>3. HeapInv'
    BY <1>4, <1>5, <2>1, ShapeFacts DEF HeapInv, SameShape, FreedBelow
  <2>4. ASSUME NEW u \in Threads \ {t} PROVE ResizeInv(u)'
    <3>1. pc'[u] \notin StatusLabels
      BY <1>1 DEF Owner
    <3> QED BY <3>1 DEF ResizeInv, StatusLabels, Growing, GrowLabels, Freeing, At
  <2> QED BY <1>4, <2>2, <2>3, <2>4
<1> QED BY <1>2, <1>3, <1>6, ShapeFacts

-----------------------------------------------------------------------------
(* Types of the threads' variables in the next state.                      *)

LocalType ==
  /\ vmin \in Versions
  /\ {resize_lock, status_lock, gc_lock} \subseteq BOOLEAN
  /\ list \in Seq(Threads)
  /\ ts \in [Threads -> Versions]
  /\ call \in [Threads -> Calls]
  /\ pc \in [Threads -> Labels]
  /\ tab \in [Threads -> Null .. Len(tables)]
  /\ cell \in [Threads -> Nat]
  /\ tries \in [Threads -> 0 .. Tries]
  /\ left \in [Threads -> Seq(Threads)]
  /\ low \in [Threads -> Versions]
  /\ puts \in 0 .. MaxPuts /\ net \in Int
  /\ ret \in [Threads -> Vals \cup {0, 1}]

SeenType == seen \in [Threads -> SUBSET (Vals \cup {NoVal})]

LEMMA TypeParts ==
  /\ TypeOK => LocalType /\ SeenType
  /\ HeapType /\ VersionInv /\ LocalType /\ SeenType => TypeOK
<1>1. TypeOK => LocalType /\ SeenType
  BY DEF TypeOK, LocalType, SeenType
<1>2. ASSUME HeapType, VersionInv, LocalType, SeenType PROVE TypeOK
  <2>1. ASSUME NEW v \in 1 .. Len(tables)
        PROVE  /\ tables[v].version \in Versions
               /\ \A n \in Used(v) : tables[v].cells[n] \in Cells
    <3>1. tables[v] \in Table /\ Len(tables) <= MaxTables /\ Len(tables) \in Nat
      BY <1>2, TableTyped DEF HeapType
    <3>2. tables[v].version \in Nat
      BY <3>1 DEF Table
    <3>3. tables[v].version + 2 * (MaxTables - v) + 1 <= VersionMax
      BY <1>2 DEF VersionInv
    <3>4. tables[v].version <= VersionMax
      <4>1. VersionMax \in Nat /\ MaxTables \in Nat
        BY ResAssumption
      <4>2. MaxTables - v \in Nat
        BY <3>1, <4>1
      <4> DEFINE k == MaxTables - v
                 ver == tables[v].version
      <4>3. k \in Nat /\ ver \in Nat /\ ver + 2 * k + 1 <= VersionMax
        BY <3>2, <3>3, <4>2
      <4> HIDE DEF k, ver
      <4>4. ver <= VersionMax
        BY <4>1, <4>3
      <4> QED BY <4>4 DEF ver
    <3> QED BY <1>2, <3>2, <3>4, ResAssumption, TableFacts DEF Versions
  <2> QED BY <1>2, <2>1 DEF TypeOK, HeapType, LocalType, SeenType
<1> QED BY <1>1, <1>2

LEMMA VersionTyped ==
  ASSUME TypeOK, NEW v \in 1 .. Len(tables)
  PROVE  tables[v].version \in Versions /\ tables[v].version \in Nat
BY ResAssumption DEF TypeOK, Versions

LEMMA CallsTyped ==
  ASSUME TypeOK, HeapType, ht # Null, NEW t \in Threads,
         Call(t) \/ ThreadLink(t)
  PROVE  LocalType'
<1>1. ht \in 1 .. Len(tables)
  BY DEF HeapType, Null
<1> USE TypeParts DEF LocalType, Goto, Announce, SetTab, heap, locks, answers, scan
<1>2. CASE ThreadInit(t)
  BY <1>1, <1>2, VersionTyped DEF ThreadInit, Labels
<1>3. CASE ThreadLink(t)
  BY <1>3 DEF ThreadLink, Labels
<1>4. CASE Get(t)
  <2>1. call' \in [Threads -> Calls]
    BY <1>4, CallTypes DEF Get
  <2>2. ht \in Null .. Len(tables)
    BY DEF HeapType
  <2> QED BY <1>4, <2>1, <2>2 DEF Get, Labels
<1>5. CASE Put(t)
  <2>1. puts' \in Vals /\ puts' \in 0 .. MaxPuts
    BY <1>5, ResAssumption DEF Put, Vals
  <2> QED BY <1>5, <2>1, CallTypes DEF Put, Labels
<1>6. CASE Remove(t)
  BY <1>6, CallTypes DEF Remove, Labels
<1> QED BY <1>2, <1>3, <1>4, <1>5, <1>6 DEF Call

(* A call that returns.                                                    *)
LEMMA AnswerTyped ==
  ASSUME TypeOK, NEW t \in Threads, NEW r \in Vals \cup {0, 1}, Answer(t, r),
         Len(tables') = Len(tables), UNCHANGED <<vmin, locks, list>>,
         net' \in Int, ts' \in [Threads -> Versions],
         cell' \in [Threads -> Nat], tries' \in [Threads -> 0 .. Tries]
  PROVE  LocalType'
<1> USE TypeParts DEF LocalType
<1>1. Null \in Null .. Len(tables)
  BY DEF Null, TypeOK
<1> QED BY <1>1, CallTypes DEF Answer, SetTab, Goto, Labels, locks, scan

LEMMA UpdatedTyped ==
  ASSUME TypeOK, NEW t \in Threads, NEW r \in Vals \cup {0, 1}, Updated(t, r),
         Len(tables') = Len(tables), net' \in Int
  PROVE  LocalType'
<1>1. ts' \in [Threads -> Versions]
  <2>1. VersionMax \in Versions
    BY ResAssumption DEF Versions
  <2>2. ts \in [Threads -> Versions]
    BY DEF TypeOK
  <2>3. ts' = [ts EXCEPT ![t] = VersionMax]
    BY DEF Updated, Announce
  <2> QED BY <2>1, <2>2, <2>3
<1>2. cell' \in [Threads -> Nat] /\ tries' \in [Threads -> 0 .. Tries]
  BY ResAssumption DEF Updated, TypeOK
<1> QED BY <1>1, <1>2, AnswerTyped DEF Updated

(* The table that an update or a get works on.                             *)
LEMMA TabKnown ==
  ASSUME IInv, NEW t \in Threads,
         pc[t] \in {"announce", "search", "commit", "remove"}
  PROVE  ht # Null /\ tab[t] \in 1 .. Len(tables) /\ ~Owner(t)
<1>1. tab[t] \in Null .. Len(tables) /\ tab[t] # Null
  BY DEF IInv, TypeOK, CallInv
<1>2. ht # Null /\ ~Owner(t)
  BY DEF IInv, CallInv, Owner, StatusLabels
<1> QED BY <1>1, <1>2 DEF Null

(* What a step must establish for the invariant to hold again.             *)
InvParts ==
  /\ HeapType /\ LocalType /\ OwnerInv
  /\ \A t \in Threads : CallInv(t)
  /\ VersionInv /\ TablesInv

LEMMA InvFromParts ==
  ASSUME IInv, InvParts', Observe
  PROVE  IInv'
<1>1. call' \in [Threads -> Calls]
  BY DEF InvParts, LocalType
<1>2. SeenType'
  BY <1>1, ObserveType DEF InvParts, IInv, SeenType
<1>3. TypeOK'
  BY <1>2, TypeParts, PTL DEF InvParts
<1> QED BY <1>3 DEF IInv, InvParts

-----------------------------------------------------------------------------
(* Calls begin, and work on the table that they know.                      *)

LEMMA CallsKeepInv ==
  ASSUME IInv, NEW t \in Threads, Call(t) \/ ThreadLink(t)
  PROVE  InvParts'
<1>1. ht # Null
  BY DEF IInv, CallInv, Call, ThreadInit, ThreadLink, Get, Put, Remove, At
<1>2. HeapType' /\ SameShape
  BY HeapKept DEF IInv, Call, ThreadInit, ThreadLink, Get, Put, Remove
<1>3. LocalType'
  BY <1>1, CallsTyped DEF IInv
<1>4. ~Owner(t) /\ ~Owner(t)' /\ CallInv(t)' /\ UNCHANGED status_lock
  <2> USE <1>1 DEF IInv, TypeOK, Owner, StatusLabels, CallInv, At, Goto, SetTab,
                   locks, heap
  <2>1. CASE ThreadInit(t)
    BY <2>1 DEF ThreadInit
  <2>2. CASE ThreadLink(t)
    BY <2>2 DEF ThreadLink
  <2>3. CASE Get(t)
    BY <2>3 DEF Get
  <2>4. CASE Put(t)
    BY <2>4 DEF Put
  <2>5. CASE Remove(t)
    BY <2>5 DEF Remove
  <2> QED BY <2>1, <2>2, <2>3, <2>4, <2>5 DEF Call
<1>5. \A u \in Threads \ {t} :
        pc'[u] = pc[u] /\ tab'[u] = tab[u] /\ low'[u] = low[u]
  BY DEF IInv, TypeOK, Call, ThreadInit, ThreadLink, Get, Put, Remove, Goto,
         SetTab, scan
<1> QED BY <1>2, <1>3, <1>4, <1>5, CallerStep DEF InvParts

(* The frame of a call that returns.                                       *)
LEMMA AnswerFrame ==
  ASSUME IInv, ht # Null, NEW t \in Threads, ~Owner(t), NEW r, Answer(t, r),
         HeapType', LocalType', SameShape, UNCHANGED status_lock
  PROVE  InvParts'
<1>1. ~Owner(t)' /\ CallInv(t)'
  BY DEF IInv, TypeOK, Answer, Goto, Owner, StatusLabels, CallInv
<1>2. \A u \in Threads \ {t} :
        pc'[u] = pc[u] /\ tab'[u] = tab[u] /\ low'[u] = low[u]
  BY DEF IInv, TypeOK, Answer, Goto, SetTab, scan
<1> QED BY <1>1, <1>2, CallerStep DEF InvParts

LEMMA SearchKeepsInv ==
  ASSUME IInv, NEW t \in Threads,
         GetAnnounce(t) \/ GetSearch(t) \/ CheckResize(t) \/ ReadHt(t)
  PROVE  InvParts'
<1>1. ht # Null /\ ht \in 1 .. Len(tables) /\ ~Owner(t)
  BY DEF IInv, CallInv, HeapType, Null, Owner, StatusLabels, At, GetAnnounce,
         GetSearch, CheckResize, ReadHt
<1>2. HeapType' /\ SameShape
  BY HeapKept DEF IInv, GetAnnounce, GetSearch, CheckResize, ReadHt, heap
<1>3. CASE GetSearch(t)
  <2>1. tab[t] \in 1 .. Len(tables)
    BY <1>3, TabKnown DEF GetSearch, At
  <2> DEFINE r == Lookup(tab[t], call[t].key)
  <2>2. r \in Vals \cup {0, 1}
    BY <2>1, FoundTypes DEF IInv, NoVal
  <2> HIDE DEF r
  <2>3. Answer(t, r)
    BY <1>3 DEF GetSearch, r
  <2>4. LocalType'
    BY <1>3, <2>2, <2>3, AnswerTyped DEF GetSearch, IInv, TypeOK, heap
  <2> QED BY <1>1, <1>2, <1>3, <2>3, <2>4, AnswerFrame DEF GetSearch, locks
<1>4. CASE ~GetSearch(t)
  <2>1. LocalType' /\ ~Owner(t)' /\ CallInv(t)'
    <3> USE <1>1, TypeParts DEF IInv, LocalType, Owner, StatusLabels, Labels,
            CallInv, At, Goto, SetTab, Announce, heap, locks, answers, scan
    <3>1. CASE GetAnnounce(t)
      BY <3>1, TabKnown, VersionTyped DEF GetAnnounce
    <3>2. CASE CheckResize(t)
      BY <3>2, VersionTyped DEF CheckResize
    <3>3. CASE ReadHt(t)
      BY <3>3 DEF ReadHt, Null
    <3> QED BY <1>4, <3>1, <3>2, <3>3
  <2>2. \A u \in Threads \ {t} :
          pc'[u] = pc[u] /\ tab'[u] = tab[u] /\ low'[u] = low[u]
    BY <1>4 DEF IInv, TypeOK, GetAnnounce, CheckResize, ReadHt, Goto, SetTab, scan
  <2> QED BY <1>1, <1>2, <1>4, <2>1, <2>2, CallerStep
          DEF InvParts, GetAnnounce, CheckResize, ReadHt, locks
<1> QED BY <1>3, <1>4

LEMMA PutSearchKeepsInv ==
  ASSUME IInv, NEW t \in Threads, PutSearch(t)
  PROVE  InvParts'
<1> DEFINE v == tab[t]
           k == call[t].key
<1>1. ht # Null /\ v \in 1 .. Len(tables) /\ ~Owner(t)
  BY TabKnown DEF PutSearch, At
<1>2. call[t].key \in Keys /\ call[t].val \in Vals /\ call[t].key \in Nat
  BY CallTypes, ResAssumption DEF PutSearch, IInv, TypeOK
<1>3. CASE Updated(t, 0) /\ UNCHANGED <<tables, net>>
  <2>1. HeapType' /\ SameShape
    BY <1>3, HeapKept DEF IInv, Updated, heap
  <2>2. LocalType'
    BY <1>3, UpdatedTyped DEF IInv, TypeOK
  <2> QED BY <1>1, <1>3, <2>1, <2>2, AnswerFrame DEF Updated, locks
<1>4. CASE NoEmptySlot(t)
  <2>1. HeapType' /\ SameShape
    BY <1>4, HeapKept DEF IInv, NoEmptySlot
  <2>2. LocalType' /\ ~Owner(t)' /\ CallInv(t)'
    <3>1. tries \in [Threads -> 0 .. Tries] /\ Tries \in Nat
      BY ResAssumption DEF IInv, TypeOK
    <3>2. tries' \in [Threads -> 0 .. Tries]
      BY <1>4, <3>1 DEF NoEmptySlot
    <3>3. PICK label \in {"status", "check"} : Goto(t, label)
      BY <1>4 DEF NoEmptySlot
    <3> QED
      BY <1>1, <1>4, <3>2, <3>3, TypeParts
      DEF NoEmptySlot, IInv, LocalType, Owner, StatusLabels, Labels, CallInv,
          Goto, heap, locks, answers, scan
  <2>3. \A u \in Threads \ {t} :
          pc'[u] = pc[u] /\ tab'[u] = tab[u] /\ low'[u] = low[u]
    BY <1>4 DEF IInv, TypeOK, NoEmptySlot, Goto, scan
  <2> QED BY <1>1, <1>4, <2>1, <2>2, <2>3, CallerStep DEF InvParts, NoEmptySlot, locks
<1>5. ASSUME Unused(v, k) # {},
             SetCells(v, With(tables[v].cells, Min(Unused(v, k)),
                        [key |-> k, val |-> call[t].val, valid |-> FALSE])),
             cell' = [cell EXCEPT ![t] = Min(Unused(v, k))],
             Goto(t, "commit"),
             UNCHANGED <<ht, oldest, vmin, locks, list, ts, answers, tab,
                         tries, scan>>
      PROVE  InvParts'
  <2> DEFINE n == Min(Unused(v, k))
             c == [key |-> k, val |-> call[t].val, valid |-> FALSE]
  <2>1. n \in 1 .. Size(tables[v].num) /\ c \in Cells
    BY <1>1, <1>2, <1>5, UnusedTypes DEF IInv, Cells
  <2>2. Size(tables[v].num) \in Nat
    BY <1>1, TableFacts DEF IInv
  <2> HIDE DEF n, c, v, k
  <2>3. HeapType' /\ SameShape
    <3>1. SetCells(v, With(tables[v].cells, n, c))
      BY <1>5 DEF n, c
    <3>2. /\ With(tables[v].cells, n, c) \in CellMaps
          /\ DOMAIN With(tables[v].cells, n, c) \subseteq 1 .. Size(tables[v].num)
      BY <1>1, <2>1, CellMapTypes DEF IInv
    <3> QED BY <1>1, <1>5, <3>1, <3>2, CellsSet DEF IInv
  <2>4. LocalType' /\ ~Owner(t)' /\ CallInv(t)'
    <3>1. cell' \in [Threads -> Nat]
      BY <1>5, <2>1, <2>2, TypeParts DEF n, IInv, LocalType
    <3>2. Len(tables') = Len(tables) /\ tab[t] # Null
      BY <1>1, <2>3 DEF SameShape, Null, v
    <3> QED
      BY <1>1, <1>5, <3>1, <3>2, TypeParts
      DEF IInv, LocalType, Owner, StatusLabels, Labels, CallInv, At, Goto,
          locks, answers, scan
  <2>5. \A u \in Threads \ {t} :
          pc'[u] = pc[u] /\ tab'[u] = tab[u] /\ low'[u] = low[u]
    BY <1>5 DEF IInv, TypeOK, Goto, scan
  <2> QED BY <1>1, <1>5, <2>3, <2>4, <2>5, CallerStep DEF InvParts, locks
<1> QED BY <1>3, <1>4, <1>5 DEF PutSearch

LEMMA PutCommitKeepsInv ==
  ASSUME IInv, NEW t \in Threads, PutCommit(t)
  PROVE  InvParts'
<1> DEFINE v == tab[t]
           cells == tables[v].cells
<1>1. ht # Null /\ v \in 1 .. Len(tables) /\ ~Owner(t)
  BY TabKnown DEF PutCommit, At
<1>2. PICK r \in {0, 1}, cs \in {[cells EXCEPT ![cell[t]].valid = TRUE],
                                 Without(cells, cell[t])} :
        Updated(t, r) /\ SetCells(v, cs)
  BY DEF PutCommit
<1>3. cs \in CellMaps /\ DOMAIN cs \subseteq 1 .. Size(tables[v].num)
  <2> HIDE DEF v
  <2>1. CASE cs = [tables[v].cells EXCEPT ![cell[t]].valid = TRUE]
    BY <1>1, <2>1, CellMapTypes DEF IInv
  <2>2. CASE cs = Without(tables[v].cells, cell[t])
    BY <1>1, <2>2, CellMapTypes DEF IInv
  <2> QED BY <1>2, <2>1, <2>2
<1> HIDE DEF v, cells
<1>4. HeapType' /\ SameShape
  BY <1>1, <1>2, <1>3, CellsSet DEF IInv, Updated
<1>5. net' \in Int /\ Len(tables') = Len(tables)
  BY <1>4 DEF PutCommit, IInv, TypeOK, SameShape
<1>6. LocalType'
  BY <1>2, <1>5, UpdatedTyped DEF IInv
<1> QED BY <1>1, <1>2, <1>4, <1>6, AnswerFrame DEF Updated, locks

LEMMA RemoveKeepsInv ==
  ASSUME IInv, NEW t \in Threads, RemoveKey(t)
  PROVE  InvParts'
<1> DEFINE v == tab[t]
           found == Found(v, call[t].key)
<1>1. ht # Null /\ v \in 1 .. Len(tables) /\ ~Owner(t)
  BY TabKnown DEF RemoveKey, At
<1>2. PICK r \in Vals \cup {0, 1} :
        Updated(t, r) /\ (UNCHANGED tables \/ SetCells(v, Without(tables[v].cells, Min(found))))
  <2>1. found # {} => tables[v].cells[Min(found)].val \in Vals
    BY <1>1, FoundTypes, TableFacts DEF IInv, Cells
  <2> HIDE DEF found
  <2> QED BY <2>1 DEF RemoveKey, found
<1>3. HeapType' /\ SameShape
  <2>1. CASE UNCHANGED tables
    BY <1>2, <2>1, HeapKept DEF IInv, Updated, heap
  <2>2. CASE SetCells(v, Without(tables[v].cells, Min(found)))
    <3> HIDE DEF v, found
    <3> QED BY <1>1, <1>2, <2>2, CellMapTypes, CellsSet DEF IInv, Updated
  <2> QED BY <1>2, <2>1, <2>2
<1>4. net' \in Int /\ Len(tables') = Len(tables)
  BY <1>3 DEF RemoveKey, IInv, TypeOK, SameShape
<1>5. LocalType'
  BY <1>2, <1>4, UpdatedTyped DEF IInv
<1> QED BY <1>1, <1>2, <1>3, <1>5, AnswerFrame DEF Updated, locks

-----------------------------------------------------------------------------
(* The steps of ht_status, of a resize and of a collection that leave the  *)
(* shape of the heap alone.                                                *)

LEMMA OwnerFacts ==
  ASSUME IInv, NEW t \in Threads, Owner(t)
  PROVE  /\ status_lock
         /\ \A u \in Threads \ {t} : ~Owner(u)
         /\ ht # Null /\ ht \in 1 .. Len(tables)
         /\ LinkInv /\ HeapInv /\ ResizeInv(t)
         /\ oldest \in 1 .. ht
<1>1. ht # Null
  BY DEF IInv, CallInv, Owner, StatusLabels
<1>2. LinkInv /\ HeapInv /\ ResizeInv(t)
  BY <1>1 DEF IInv, TablesInv
<1> QED BY <1>1, <1>2 DEF IInv, OwnerInv, HeapType, Null, HeapInv

(* A step that changes neither the heap nor what a scan has found.         *)
QuietFrame(t) ==
  /\ UNCHANGED <<heap, list, answers, cell, tries, scan>>
  /\ {resize_lock', status_lock', gc_lock'} \subseteq BOOLEAN
  /\ ts' \in [Threads -> Versions]
  /\ tab' = tab \/ tab' = [tab EXCEPT ![t] = Null]

LEMMA QuietStep ==
  ASSUME IInv, ht # Null, NEW t \in Threads,
         Owner(t) \/ ~status_lock,
         QuietFrame(t), Owner(t)' => status_lock',
         NEW label \in Labels \ {"announce", "search", "commit", "remove"},
         Goto(t, label),
         label \in {"resize", "begin"} => Len(tables) < MaxTables,
         label \in GrowLabels => Growing(t) /\ label \notin {"copy", "swap"},
         Growing(t) => label \in GrowLabels,
         pc[t] # "gc_free" /\ label \notin {"gc_free", "gc_scan"},
         pc[t] # "table_new" /\ label # "table_new",
         label \in GrowLabels => tab' = tab
  PROVE  InvParts'
<1>1. HeapType' /\ SameShape
  BY HeapKept DEF IInv, QuietFrame
<1>2. LocalType'
  <2>1. Null \in Null .. Len(tables)
    BY DEF Null, IInv, HeapType
  <2> QED BY <1>1, <2>1, TypeParts
          DEF IInv, LocalType, QuietFrame, Goto, heap, locks, answers, scan
<1>3. pc' \in [Threads -> Labels] /\ pc'[t] = label
  BY DEF IInv, TypeOK, Goto
<1>4. \A u \in Threads \ {t} :
        pc'[u] = pc[u] /\ tab'[u] = tab[u] /\ ~Owner(u)
  BY OwnerFacts DEF IInv, OwnerInv, TypeOK, Goto, QuietFrame
<1>5. CallInv(t)'
  BY <1>3 DEF CallInv, QuietFrame, heap
<1>6. ht' = ht /\ Len(tables') = Len(tables)
  BY DEF QuietFrame, heap
<1>7. /\ Growing(t)' <=> Growing(t)
      /\ Freeing(t)' <=> Freeing(t)
      /\ At(t, "table_new")' <=> At(t, "table_new")
      /\ ~At(t, "table_new")
  BY <1>3 DEF Growing, Freeing, At, GrowLabels
<1>8. ResizeInv(t)'
  <2>1. Growing(t)' => tab'[t] = tab[t] /\ tab[t] = ht /\ Len(tables) = ht + 1
    BY <1>3, <1>7, OwnerFacts
    DEF ResizeInv, Growing, GrowLabels, Owner, StatusLabels
  <2>2. ~Freeing(t)'
    BY <1>3 DEF Freeing, At
  <2> QED
    BY <1>3, <1>6, <1>7, <2>1, <2>2
    DEF ResizeInv, GrowLabels, Growing, At
<1> QED BY <1>1, <1>2, <1>4, <1>5, <1>7, <1>8, OwnerStep DEF InvParts

(* The steps of this kind, but for the two of a scan and the copying.      *)
QuietSteps(t) ==
  \/ Status(t) \/ Decide(t) \/ Leave(t)
  \/ ResizeLock(t) \/ ResizeMark(t) \/ ResizeUnlock(t)
  \/ Gc(t) \/ GcCheck(t) \/ GcLock(t) \/ GcUnlock(t)

LEMMA QuietStepsKeepInv ==
  ASSUME IInv, NEW t \in Threads, QuietSteps(t)
  PROVE  InvParts'
<1>1. ht # Null /\ ht \in 1 .. Len(tables)
  BY DEF QuietSteps, IInv, CallInv, HeapType, Null, Status, Decide, Leave,
         ResizeLock, ResizeMark, ResizeUnlock, Gc, GcCheck, GcLock, GcUnlock, At
<1>2. /\ {resize_lock, status_lock, gc_lock} \subseteq BOOLEAN
      /\ ts \in [Threads -> Versions] /\ pc \in [Threads -> Labels]
      /\ tables[ht].version \in Versions
  BY <1>1, VersionTyped DEF IInv, TypeOK
<1> USE <1>1, <1>2 DEF QuietFrame, heap, locks, answers, scan, At, SetTab, Labels,
        GrowLabels, Growing
<1>3. CASE Status(t) /\ status_lock
  <2>1. HeapType' /\ SameShape
    BY <1>3, HeapKept DEF IInv, Status
  <2>2. ~Owner(t) /\ ~Owner(t)' /\ CallInv(t)' /\ LocalType'
    BY <1>3, TypeParts
    DEF Status, Owner, StatusLabels, CallInv, Goto, LocalType, IInv
  <2>3. \A u \in Threads \ {t} :
          pc'[u] = pc[u] /\ tab'[u] = tab[u] /\ low'[u] = low[u]
    BY <1>3 DEF Status, Goto
  <2> QED BY <1>3, <2>1, <2>2, <2>3, CallerStep DEF InvParts, Status
<1>4. CASE Status(t) /\ ~status_lock
  <2>1. QuietFrame(t) /\ status_lock'
    BY <1>4 DEF Status
  <2>2. Goto(t, "decide")
    BY <1>4 DEF Status
  <2> QED BY <1>4, <2>1, <2>2, QuietStep DEF Status
<1>5. CASE Decide(t)
  <2>1. QuietFrame(t) /\ UNCHANGED status_lock
    BY <1>5 DEF Decide
  <2>2. Owner(t) /\ status_lock
    BY <1>5, OwnerFacts DEF Decide, Owner, StatusLabels
  <2>3. Len(tables) = MaxTables \/ Len(tables) < MaxTables
    BY ResAssumption DEF IInv, HeapType
  <2>4. PICK label \in {"gc", "resize"} :
          Goto(t, label) /\ (label = "resize" => Len(tables) < MaxTables)
    BY <1>5, <2>3 DEF Decide
  <2> QED BY <1>5, <2>1, <2>2, <2>4, QuietStep DEF Decide
<1>6. CASE Leave(t)
  <2>1. QuietFrame(t) /\ Owner(t) /\ Goto(t, "check") /\ ~Owner(t)'
    BY <1>6 DEF Leave, Owner, StatusLabels, Goto
  <2> QED BY <1>6, <2>1, QuietStep DEF Leave
<1>7. CASE ResizeLock(t)
  <2>1. QuietFrame(t) /\ UNCHANGED status_lock
    BY <1>7 DEF ResizeLock
  <2>2. Owner(t) /\ status_lock /\ Len(tables) < MaxTables
    BY <1>7, OwnerFacts DEF ResizeLock, Owner, StatusLabels, ResizeInv
  <2>3. PICK label \in {"gc", "begin"} : Goto(t, label)
    BY <1>7 DEF ResizeLock
  <2> QED BY <1>7, <2>1, <2>2, <2>3, QuietStep DEF ResizeLock
<1>8. CASE ResizeMark(t)
  <2>1. Owner(t) /\ status_lock /\ Growing(t) /\ tab[t] = ht
    BY <1>8, OwnerFacts DEF ResizeMark, Owner, StatusLabels, ResizeInv
  <2>2. QuietFrame(t) /\ UNCHANGED <<status_lock, tab>> /\ Goto(t, "resize_min")
    BY <1>8, <2>1 DEF ResizeMark, Announce
  <2> QED BY <1>8, <2>1, <2>2, QuietStep DEF ResizeMark
<1>9. CASE ResizeUnlock(t)
  <2>1. QuietFrame(t) /\ UNCHANGED status_lock /\ Goto(t, "gc")
    BY <1>9 DEF ResizeUnlock
  <2>2. Owner(t) /\ status_lock
    BY <1>9, OwnerFacts DEF ResizeUnlock, Owner, StatusLabels
  <2> QED BY <1>9, <2>1, <2>2, QuietStep DEF ResizeUnlock
<1>10. CASE Gc(t)
  <2>1. QuietFrame(t) /\ UNCHANGED status_lock
    BY <1>10 DEF Gc, Announce
  <2>2. Owner(t) /\ status_lock
    BY <1>10, OwnerFacts DEF Gc, Owner, StatusLabels
  <2>3. PICK label \in {"gc_check", "leave"} : Goto(t, label)
    BY <1>10 DEF Gc
  <2> QED BY <1>10, <2>1, <2>2, <2>3, QuietStep DEF Gc
<1>11. CASE GcCheck(t)
  <2>1. QuietFrame(t) /\ UNCHANGED status_lock
    BY <1>11 DEF GcCheck
  <2>2. Owner(t) /\ status_lock
    BY <1>11, OwnerFacts DEF GcCheck, Owner, StatusLabels
  <2>3. PICK label \in {"gc_lock", "leave"} : Goto(t, label)
    BY <1>11 DEF GcCheck
  <2> QED BY <1>11, <2>1, <2>2, <2>3, QuietStep DEF GcCheck
<1>12. CASE GcLock(t)
  <2>1. QuietFrame(t) /\ UNCHANGED status_lock
    BY <1>12 DEF GcLock
  <2>2. Owner(t) /\ status_lock
    BY <1>12, OwnerFacts DEF GcLock, Owner, StatusLabels
  <2>3. PICK label \in {"gc_min", "leave"} : Goto(t, label)
    BY <1>12 DEF GcLock
  <2> QED BY <1>12, <2>1, <2>2, <2>3, QuietStep DEF GcLock
<1>13. CASE GcUnlock(t)
  <2>1. QuietFrame(t) /\ UNCHANGED status_lock /\ Goto(t, "leave")
    BY <1>13 DEF GcUnlock
  <2>2. Owner(t) /\ status_lock
    BY <1>13, OwnerFacts DEF GcUnlock, Owner, StatusLabels
  <2> QED BY <1>13, <2>1, <2>2, QuietStep DEF GcUnlock
<1> QED
  BY <1>3, <1>4, <1>5, <1>6, <1>7, <1>8, <1>9, <1>10, <1>11, <1>12, <1>13
  DEF QuietSteps

(* The steps of clht_gc_min_version_used.                                  *)
ScanSteps(t) == ResizeMin(t) \/ ResizeScan(t) \/ GcMin(t) \/ GcScan(t)

LEMMA ScanStepsKeepInv ==
  ASSUME IInv, NEW t \in Threads, ScanSteps(t)
  PROVE  InvParts'
<1>1. Owner(t) /\ pc[t] \in {"resize_min", "resize_scan", "gc_min", "gc_scan"}
  BY DEF ScanSteps, ResizeMin, ResizeScan, GcMin, GcScan, At, Owner, StatusLabels
<1>2. /\ status_lock /\ ht # Null /\ ht \in 1 .. Len(tables)
      /\ tables[ht].version \in Versions /\ tables[ht].version \in Nat
      /\ ResizeInv(t) /\ \A u \in Threads \ {t} : ~Owner(u)
  BY <1>1, OwnerFacts, VersionTyped DEF IInv
<1>3. HeapType' /\ SameShape /\ UNCHANGED <<locks, list, ts, answers, tab, cell, tries>>
  BY HeapKept DEF IInv, ScanSteps, ResizeMin, ResizeScan, GcMin, GcScan, ScanNext
<1>4. PICK x \in Versions, rest \in Seq(Threads) :
        /\ low' = [low EXCEPT ![t] = x] /\ left' = [left EXCEPT ![t] = rest]
        /\ pc[t] \in {"gc_min", "gc_scan"} => x <= tables[ht].version
  <2>1. CASE ResizeMin(t) \/ GcMin(t)
    BY <1>2, <2>1 DEF ResizeMin, GcMin, ScanStart, IInv, TypeOK
  <2>2. CASE ResizeScan(t) \/ GcScan(t)
    <3> DEFINE S == {low[t], ts[Head(left[t])]}
               x == Min(S)
    <3>1. left[t] \in Seq(Threads) /\ left[t] # <<>> /\ low[t] \in Versions
      BY <2>2 DEF ResizeScan, GcScan, ScanNext, IInv, TypeOK
    <3>2. Head(left[t]) \in Threads /\ Tail(left[t]) \in Seq(Threads)
      BY <3>1, HeadTailProperties
    <3>3. S \in SUBSET Versions /\ S # {}
      BY <3>1, <3>2 DEF IInv, TypeOK
    <3>4. x \in S /\ x <= low[t]
      <4> HIDE DEF S
      <4>1. S \in SUBSET Nat
        BY <3>3, ResAssumption DEF Versions
      <4>2. low[t] \in S
        BY DEF S
      <4> QED BY <3>3, <4>1, <4>2, MinIsLeast
    <3>5. pc[t] \in {"gc_min", "gc_scan"} => low[t] <= tables[ht].version
      BY <1>2, <2>2 DEF ResizeInv, ResizeScan, GcScan, At
    <3>6. low' = [low EXCEPT ![t] = x] /\ left' = [left EXCEPT ![t] = Tail(left[t])]
      BY <2>2 DEF ResizeScan, GcScan, ScanNext
    <3> HIDE DEF x
    <3>7. x \in Versions /\ (pc[t] \in {"gc_min", "gc_scan"} => x <= tables[ht].version)
      BY <1>2, <3>1, <3>3, <3>4, <3>5, ResAssumption DEF Versions
    <3> QED BY <3>2, <3>6, <3>7
  <2> QED BY <2>1, <2>2 DEF ScanSteps
<1>5. PICK label \in {"resize_scan", "gc_scan"} :
        /\ pc' = [pc EXCEPT ![t] = label]
        /\ label = "gc_scan" <=> pc[t] \in {"gc_min", "gc_scan"}
  BY DEF ScanSteps, ResizeMin, ResizeScan, GcMin, GcScan, ScanStart, ScanNext,
         Goto, At, IInv, TypeOK
<1>6. LocalType'
  <2>1. pc' \in [Threads -> Labels]
    BY <1>5 DEF IInv, TypeOK, Labels
  <2>2. Len(tables') = Len(tables) /\ vmin' = vmin
    BY <1>3 DEF SameShape
  <2> QED BY <1>3, <1>4, <2>1, <2>2, TypeParts DEF IInv, LocalType, locks, answers
<1>7. pc'[t] = label /\ low'[t] = x /\ status_lock' = status_lock /\ ht' = ht
  BY <1>3, <1>4, <1>5 DEF IInv, TypeOK, locks, SameShape
<1>8. /\ Growing(t)' <=> Growing(t)
      /\ Freeing(t)' <=> Freeing(t)
      /\ At(t, "table_new")' <=> At(t, "table_new")
      /\ ~Freeing(t) /\ ~At(t, "table_new") /\ (Growing(t) => label = "resize_scan")
  BY <1>1, <1>5, <1>7 DEF Growing, Freeing, At, GrowLabels
<1>9. CallInv(t)' /\ ResizeInv(t)'
  <2>1. tables'[ht].version = tables[ht].version /\ Len(tables') = Len(tables)
    BY <1>2, <1>3 DEF SameShape
  <2> QED BY <1>1, <1>2, <1>3, <1>4, <1>5, <1>7, <1>8, <2>1 DEF CallInv, ResizeInv, At
<1>10. \A u \in Threads \ {t} :
         pc'[u] = pc[u] /\ tab'[u] = tab[u] /\ ~Owner(u)
  BY <1>2, <1>3, <1>5 DEF IInv, TypeOK
<1> QED BY <1>2, <1>3, <1>6, <1>7, <1>8, <1>9, <1>10, OwnerStep DEF InvParts

LEMMA CopyKeepsInv ==
  ASSUME IInv, NEW t \in Threads, CopyCell(t)
  PROVE  InvParts'
<1> DEFINE n == cell[t]
           new == Len(tables)
           c == tables[ht].cells[n]
<1>1. Owner(t) /\ Growing(t) /\ pc[t] = "copy"
  BY DEF CopyCell, At, Owner, StatusLabels, Growing, GrowLabels
<1>2. /\ status_lock /\ ht # Null /\ ht \in 1 .. Len(tables) /\ tab[t] = ht
      /\ ResizeInv(t) /\ \A u \in Threads \ {t} : ~Owner(u)
      /\ new \in 1 .. Len(tables) /\ new = ht + 1
  BY <1>1, OwnerFacts DEF ResizeInv, IInv, HeapType
<1>3. \/ UNCHANGED tables
      \/ /\ c \in Cells /\ Unused(new, c.key) # {}
         /\ SetCells(new, With(tables[new].cells, Min(Unused(new, c.key)), c))
  <2>1. n \in Valid(ht) => c \in Cells
    BY <1>2, TableFacts DEF IInv, Valid
  <2> QED BY <1>2, <2>1 DEF CopyCell
<1>4. HeapType' /\ SameShape
  <2>1. CASE UNCHANGED tables
    BY <2>1, HeapKept DEF IInv, CopyCell, heap
  <2>2. CASE ~UNCHANGED tables
    <3> DEFINE free == Min(Unused(new, c.key))
    <3>1. c \in Cells /\ c.key \in Nat
      BY <1>3, <2>2, ResAssumption DEF Cells
    <3> HIDE DEF c, new
    <3>2. free \in 1 .. Size(tables[new].num)
      BY <1>2, <1>3, <2>2, <3>1, UnusedTypes DEF IInv
    <3> HIDE DEF free
    <3>3. /\ With(tables[new].cells, free, c) \in CellMaps
          /\ DOMAIN With(tables[new].cells, free, c) \subseteq 1 .. Size(tables[new].num)
      BY <1>2, <3>1, <3>2, CellMapTypes DEF IInv
    <3>4. SetCells(new, With(tables[new].cells, free, c))
      BY <1>3, <2>2 DEF free
    <3> QED BY <1>2, <3>3, <3>4, CellsSet DEF IInv, CopyCell
  <2> QED BY <2>1, <2>2
<1>5. PICK label \in {"copy", "swap"} : pc' = [pc EXCEPT ![t] = label]
  BY <1>1 DEF CopyCell, Goto, IInv, TypeOK
<1>6. LocalType'
  <2>1. pc' \in [Threads -> Labels]
    BY <1>5 DEF IInv, TypeOK, Labels
  <2>2. cell' \in [Threads -> Nat]
    <3>1. n \in Nat /\ cell \in [Threads -> Nat]
      BY DEF IInv, TypeOK
    <3>2. PICK m \in {n + 1, 0} : cell' = [cell EXCEPT ![t] = m]
      BY DEF CopyCell
    <3>3. m \in Nat
      BY <3>1, <3>2
    <3> HIDE DEF n
    <3> QED BY <3>1, <3>2, <3>3
  <2>3. Len(tables') = Len(tables)
    BY <1>4 DEF SameShape
  <2> QED BY <2>1, <2>2, <2>3, TypeParts
          DEF CopyCell, IInv, LocalType, locks, answers, scan
<1>7. /\ pc'[t] = label /\ status_lock' = status_lock /\ ht' = ht /\ tab' = tab
      /\ \A u \in Threads \ {t} : pc'[u] = pc[u]
  BY <1>5 DEF CopyCell, IInv, TypeOK, locks
<1>8. /\ Growing(t)' <=> Growing(t)
      /\ Freeing(t)' <=> Freeing(t)
      /\ At(t, "table_new")' <=> At(t, "table_new")
      /\ ~Freeing(t)' /\ ~At(t, "table_new")'
  BY <1>1, <1>7 DEF Growing, Freeing, At, GrowLabels
<1>9. CallInv(t)' /\ ResizeInv(t)'
  <2>1. /\ tables'[ht].version = tables[ht].version /\ Len(tables') = Len(tables)
        /\ tables'[ht + 1].version = tables[ht + 1].version
    BY <1>2, <1>4 DEF SameShape
  <2> QED BY <1>1, <1>2, <1>7, <1>8, <2>1 DEF CallInv, ResizeInv, At
<1> QED BY <1>2, <1>4, <1>6, <1>7, <1>8, <1>9, OwnerStep DEF InvParts

-----------------------------------------------------------------------------
(* The steps of a resize that change the list of tables.                   *)

(* What the owner of status_lock leaves alone in such a step.              *)
LEMMA OthersKept ==
  ASSUME IInv, NEW t \in Threads, Owner(t), NEW label \in StatusLabels,
         Goto(t, label), UNCHANGED status_lock, ht' # Null,
         \A u \in Threads \ {t} : tab'[u] = tab[u]
  PROVE  /\ OwnerInv' /\ (\A u \in Threads : CallInv(u)')
         /\ pc' \in [Threads -> Labels] /\ pc'[t] = label
         /\ \A u \in Threads \ {t} : ~Owner(u)' /\ ResizeInv(u)'
         /\ \A v : Linking(v)' <=> label = "table_new" /\ tab'[t] = v
         /\ (\A u \in Threads : ~Growing(u)') <=> label \notin GrowLabels
         /\ (\A u \in Threads : ~Freeing(u)') <=> label # "gc_free"
<1>1. \A u \in Threads \ {t} : ~Owner(u) /\ pc'[u] = pc[u]
  BY OwnerFacts DEF IInv, TypeOK, Goto
<1>2. pc' \in [Threads -> Labels] /\ pc'[t] = label
  BY DEF IInv, TypeOK, Goto, StatusLabels, Labels
<1>3. \A u \in Threads \ {t} : ~Owner(u)' /\ pc'[u] \notin StatusLabels
  BY <1>1 DEF Owner
<1>4. \A u \in Threads \ {t} :
        ResizeInv(u)' /\ ~At(u, "table_new")' /\ ~Growing(u)' /\ ~Freeing(u)'
  BY <1>3 DEF ResizeInv, StatusLabels, Growing, GrowLabels, Freeing, At
<1>5. OwnerInv'
  <2>1. status_lock'
    BY OwnerFacts
  <2> QED BY <1>3, <2>1 DEF OwnerInv
<1>6. \A u \in Threads : CallInv(u)'
  BY <1>1, <1>2 DEF IInv, CallInv, StatusLabels
<1>7. \A v : Linking(v)' <=> label = "table_new" /\ tab'[t] = v
  BY <1>2, <1>4 DEF Linking, At
<1>8. /\ (\A u \in Threads : ~Growing(u)') <=> label \notin GrowLabels
      /\ (\A u \in Threads : ~Freeing(u)') <=> label # "gc_free"
  BY <1>2, <1>4 DEF Growing, Freeing, At
<1> QED BY <1>2, <1>3, <1>4, <1>5, <1>6, <1>7, <1>8

(* One table changes.                                                      *)
LEMMA TablesUpdate ==
  ASSUME HeapType, NEW v \in 1 .. Len(tables), NEW x \in Table
  PROVE  /\ [tables EXCEPT ![v] = x] \in Seq(Table)
         /\ Len([tables EXCEPT ![v] = x]) = Len(tables)
         /\ \A u \in 1 .. Len(tables) :
              [tables EXCEPT ![v] = x][u] = IF u = v THEN x ELSE tables[u]
BY DEF HeapType

LEMMA ResizeBeginKeepsInv ==
  ASSUME IInv, NEW t \in Threads, ResizeBegin(t)
  PROVE  InvParts'
<1> DEFINE old == [tables[ht] EXCEPT !.version = @ + 1]
           new == NewTable(NewNum(tables[ht].num), 0, Null)
           L == Len(tables)
<1>1. Owner(t) /\ pc[t] = "begin"
  BY DEF ResizeBegin, At, Owner, StatusLabels
<1>2. /\ ht # Null /\ ht \in 1 .. L /\ LinkInv /\ HeapInv /\ ResizeInv(t)
      /\ \A u \in Threads : ~Growing(u) /\ ~Freeing(u) /\ ~At(u, "table_new")
      /\ oldest \in 1 .. ht
  <2>1. \A u \in Threads \ {t} : pc[u] \notin StatusLabels
    BY <1>1, OwnerFacts DEF Owner
  <2> QED BY <1>1, <2>1, OwnerFacts
          DEF Growing, GrowLabels, Freeing, At, StatusLabels
<1>3. L = ht /\ L \in Nat /\ L < MaxTables /\ FreedBelow(oldest)
  BY <1>1, <1>2 DEF HeapInv, ResizeInv, IInv, HeapType
<1>4. tables[ht] \in Table /\ tables[ht].num \in Nat \ {0} /\ tables[ht].version \in Nat
  BY <1>2, TableTyped DEF IInv, Table
<1>5. /\ old \in Table /\ old.cells = tables[ht].cells /\ old.num = tables[ht].num
      /\ old.version = tables[ht].version + 1 /\ old.new = tables[ht].new
      /\ old.prev = tables[ht].prev /\ old.freed = tables[ht].freed
  BY <1>4 DEF Table
<1>6. /\ new \in Table /\ DOMAIN new.cells = {} /\ new.version = 0
      /\ new.new = Null /\ new.prev = Null /\ new.freed = FALSE
  <2>1. <<>> \in CellMaps /\ DOMAIN <<>> = {}
    <3>1. <<>> \in [{} -> Cells]
      OBVIOUS
    <3> QED BY <3>1 DEF CellMaps
  <2>2. 2 * tables[ht].num \in Nat \ {0}
    BY <1>4
  <2> QED BY <2>1, <2>2 DEF NewTable, NewNum, Table, Null
<1>7. tables' = Append([tables EXCEPT ![ht] = old], new)
  BY DEF ResizeBegin
<1> HIDE DEF old, new
<1>8. /\ tables' \in Seq(Table) /\ Len(tables') = L + 1
      /\ \A u \in 1 .. L : tables'[u] = IF u = ht THEN old ELSE tables[u]
      /\ tables'[L + 1] = new
  <2> DEFINE T == [tables EXCEPT ![ht] = old]
  <2>1. /\ T \in Seq(Table) /\ Len(T) = L
        /\ \A u \in 1 .. L : T[u] = IF u = ht THEN old ELSE tables[u]
    BY <1>2, <1>5, TablesUpdate DEF IInv
  <2> HIDE DEF T
  <2>2. tables' = Append(T, new)
    BY <1>7 DEF T
  <2> QED BY <1>3, <1>6, <2>1, <2>2, AppendProperties
<1>9. UNCHANGED <<ht, oldest, vmin, status_lock, low>> /\ tab' = [tab EXCEPT ![t] = ht]
  BY DEF ResizeBegin, SetTab, locks, scan
<1>10. HeapType'
  <2>1. ASSUME NEW u \in 1 .. Len(tables')
        PROVE  /\ DOMAIN tables'[u].cells \subseteq 1 .. Size(tables'[u].num)
               /\ {tables'[u].new, tables'[u].prev} \subseteq Null .. Len(tables')
    <3>1. CASE u = L + 1
      BY <1>3, <1>6, <1>8, <3>1 DEF Null
    <3>2. CASE u \in 1 .. L
      BY <1>3, <1>5, <1>8, <3>2 DEF IInv, HeapType, Used, Null
    <3> QED BY <1>3, <1>8, <3>1, <3>2
  <2>2. Len(tables') \in 1 .. MaxTables
    BY <1>3, <1>8, ResAssumption
  <2>3. {ht', oldest'} \subseteq Null .. Len(tables') /\ vmin' \in Nat
    BY <1>2, <1>3, <1>8, <1>9 DEF IInv, HeapType, Null
  <2> QED BY <1>8, <2>1, <2>2, <2>3 DEF HeapType, Used
<1>11. LocalType'
  <2>1. tab' \in [Threads -> Null .. Len(tables')]
    BY <1>2, <1>3, <1>8, <1>9 DEF IInv, TypeOK, Null
  <2>2. pc' \in [Threads -> Labels]
    BY DEF ResizeBegin, Goto, IInv, TypeOK, Labels
  <2> QED BY <2>1, <2>2, TypeParts
          DEF ResizeBegin, IInv, LocalType, locks, answers, scan
<1>12. VersionInv'
  <2>1. /\ 2 * MaxTables <= VersionMax
        /\ tables[L].version + 2 * (MaxTables - L) + 2 <= VersionMax
        /\ \A v \in 1 .. L : tables[v].version + 2 * (MaxTables - v) + 1 <= VersionMax
    BY DEF IInv, VersionInv
  <2>2. \A v \in 1 .. L : tables[v].version \in Nat
    BY TableTyped DEF IInv, Table
  <2>3. MaxTables \in Nat /\ VersionMax \in Nat
    BY ResAssumption
  <2>4. ASSUME NEW v \in 1 .. L + 1
        PROVE  tables'[v].version + 2 * (MaxTables - v) + 1 <= VersionMax
    <3>1. CASE v = L + 1
      BY <1>3, <1>6, <1>8, <2>1, <2>3, <3>1
    <3>2. CASE v = L
      BY <1>2, <1>3, <1>5, <1>8, <2>1, <2>2, <2>3, <3>2
    <3>3. CASE v \in 1 .. L /\ v # L
      BY <1>3, <1>8, <2>1, <2>2, <2>3, <3>3
    <3> QED BY <1>3, <3>1, <3>2, <3>3
  <2>5. tables'[L + 1].version + 2 * (MaxTables - (L + 1)) + 2 <= VersionMax
    BY <1>3, <1>6, <1>8, <2>1, <2>3
  <2> QED BY <1>8, <2>1, <2>4, <2>5 DEF VersionInv
<1>13. /\ OwnerInv' /\ (\A u \in Threads : CallInv(u)')
       /\ pc'[t] = "mark"
       /\ \A u \in Threads \ {t} : ~Owner(u)' /\ ResizeInv(u)'
       /\ \A v : ~Linking(v)'
       /\ ~(\A u \in Threads : ~Growing(u)')
       /\ (\A u \in Threads : ~Freeing(u)')
  <2>1. \A u \in Threads \ {t} : tab'[u] = tab[u]
    BY <1>9 DEF IInv, TypeOK
  <2>2. Goto(t, "mark") /\ "mark" \in StatusLabels /\ "mark" \in GrowLabels
    BY DEF ResizeBegin, StatusLabels, GrowLabels
  <2> QED BY <1>1, <1>2, <1>9, <2>1, <2>2, OthersKept
<1>14. LinkInv'
  <2>1. ASSUME NEW v \in 1 .. ht - 1
        PROVE  /\ tables'[v].version < tables'[v + 1].version
               /\ tables'[v].new = v + 1
    <3>1. v \in 1 .. L /\ v + 1 \in 1 .. L /\ v # ht
      BY <1>3
    <3>2. ~Linking(v)
      BY <1>2 DEF Linking
    <3>3. tables[v].version < tables[v + 1].version /\ tables[v].new = v + 1
      BY <1>2, <3>2 DEF LinkInv
    <3>4. tables[v].version \in Nat /\ tables[v + 1].version \in Nat
      BY <3>1, TableTyped DEF IInv, Table
    <3> QED BY <1>5, <1>8, <3>1, <3>3, <3>4
  <2>2. \A v \in ht .. Len(tables') : tables'[v].new = Null
    BY <1>2, <1>3, <1>5, <1>6, <1>8 DEF LinkInv
  <2> QED BY <1>9, <1>13, <2>1, <2>2 DEF LinkInv
<1>15. HeapInv'
  <2>1. vmin <= tables'[oldest].version
    <3>1. vmin <= tables[oldest].version /\ vmin \in Nat /\ tables[oldest].version \in Nat
      BY <1>2, <1>3, TableTyped DEF HeapInv, IInv, HeapType, Table
    <3> QED BY <1>2, <1>3, <1>5, <1>8, <3>1
  <2>2. ASSUME NEW v \in 1 .. L + 1
        PROVE  /\ tables'[v].freed <=> v < oldest
               /\ tables'[v].prev = IF oldest < v /\ v <= ht THEN v - 1 ELSE Null
    <3>1. CASE v = L + 1
      BY <1>2, <1>3, <1>6, <1>8, <3>1
    <3>2. CASE v \in 1 .. L
      BY <1>3, <1>5, <1>8, <3>2 DEF FreedBelow
    <3> QED BY <1>3, <3>1, <3>2
  <2> QED BY <1>2, <1>8, <1>9, <1>13, <2>1, <2>2 DEF HeapInv, FreedBelow
<1>16. ResizeInv(t)'
  BY <1>3, <1>8, <1>9, <1>13 DEF ResizeInv, Freeing, At, IInv, TypeOK
<1>17. TablesInv'
  BY <1>2, <1>9, <1>13, <1>14, <1>15, <1>16 DEF TablesInv
<1> QED BY <1>10, <1>11, <1>12, <1>13, <1>17 DEF InvParts

LEMMA ResizeWaitKeepsInv ==
  ASSUME IInv, NEW t \in Threads, ResizeWait(t)
  PROVE  InvParts'
<1> DEFINE L == Len(tables)
           new == [tables[L] EXCEPT !.version = tables[ht].version + 1]
<1>1. Owner(t) /\ Growing(t) /\ pc[t] = "resize_scan"
  BY DEF ResizeWait, At, Owner, StatusLabels, Growing, GrowLabels
<1>2. /\ ht # Null /\ ht \in 1 .. L /\ LinkInv /\ HeapInv /\ status_lock
      /\ oldest \in 1 .. ht /\ tab[t] = ht /\ L = ht + 1 /\ L \in 1 .. L
  BY <1>1, OwnerFacts DEF ResizeInv, IInv, HeapType
<1>3. tables[ht] \in Table /\ tables[L] \in Table /\ tables[ht].version \in Nat
  <2>1. tables[ht] \in Table /\ tables[L] \in Table
    BY <1>2, TableTyped DEF IInv
  <2> QED BY <2>1 DEF Table
<1>4. CASE Goto(t, "resize_min") /\ UNCHANGED <<tables, cell>>
  <2>1. QuietFrame(t) /\ UNCHANGED <<tab, status_lock>>
    BY <1>4, TypeParts
    DEF ResizeWait, QuietFrame, IInv, LocalType, heap, locks, answers, scan
  <2>2. "resize_min" \in GrowLabels
    BY DEF GrowLabels
  <2> QED BY <1>1, <1>2, <1>4, <2>1, <2>2, QuietStep DEF Labels, GrowLabels
<1>5. ASSUME Goto(t, "copy"),
             tables' = [tables EXCEPT ![L].version = NewVersion(tables[tab[t]].version - 1)],
             cell' = [cell EXCEPT ![t] = 1]
      PROVE  InvParts'
  <2>1. /\ new \in Table /\ new.cells = tables[L].cells /\ new.num = tables[L].num
        /\ new.version = tables[ht].version + 1 /\ new.new = tables[L].new
        /\ new.prev = tables[L].prev /\ new.freed = tables[L].freed
    <3> DEFINE T == tables[L]
               ver == tables[ht].version + 1
    <3>1. T \in Table /\ ver \in Nat
      BY <1>3
    <3> HIDE DEF T, ver
    <3> QED BY <3>1, VersionSet DEF T, ver
  <2>2. tables' = [tables EXCEPT ![L] = new]
    <3>1. (tables[ht].version - 1) + 2 = tables[ht].version + 1
      BY <1>2, <1>3
    <3> QED BY <1>2, <1>3, <1>5, <3>1 DEF NewVersion
  <2> HIDE DEF new
  <2>3. /\ tables' \in Seq(Table) /\ Len(tables') = L
        /\ \A u \in 1 .. L : tables'[u] = IF u = L THEN new ELSE tables[u]
    BY <1>2, <1>3, <2>1, <2>2, TablesUpdate DEF IInv
  <2>4. UNCHANGED <<ht, oldest, vmin, status_lock, tab, low>>
    BY DEF ResizeWait, locks, scan
  <2>5. HeapType'
    BY <1>2, <1>3, <2>1, <2>3, <2>4, FieldsSet DEF IInv, HeapType
  <2>6. LocalType'
    <3>1. pc' \in [Threads -> Labels] /\ cell' \in [Threads -> Nat]
      BY <1>5 DEF Goto, IInv, TypeOK, Labels
    <3> QED BY <2>3, <3>1, TypeParts
            DEF ResizeWait, IInv, LocalType, locks, answers, scan
  <2>7. VersionInv'
    <3>1. /\ 2 * MaxTables <= VersionMax
          /\ \A v \in 1 .. L : tables[v].version + 2 * (MaxTables - v) + 1 <= VersionMax
      BY DEF IInv, VersionInv
    <3>2. MaxTables \in Nat /\ VersionMax \in Nat
      BY ResAssumption
    <3>3. tables[ht].version + 2 * (MaxTables - ht) + 1 <= VersionMax
      BY <1>2, <1>3, <3>1
    <3>4. tables'[L].version + 2 * (MaxTables - L) + 2 <= VersionMax
      BY <1>2, <1>3, <2>1, <2>3, <3>2, <3>3
    <3>5. ASSUME NEW v \in 1 .. L
          PROVE  tables'[v].version + 2 * (MaxTables - v) + 1 <= VersionMax
      <4>1. CASE v = L
        BY <1>2, <1>3, <2>1, <2>3, <3>2, <3>4, <4>1
      <4>2. CASE v # L
        BY <2>3, <3>1, <4>2
      <4> QED BY <4>1, <4>2
    <3> QED BY <2>3, <3>1, <3>4, <3>5 DEF VersionInv
  <2>8. /\ OwnerInv' /\ (\A u \in Threads : CallInv(u)')
        /\ pc'[t] = "copy"
        /\ \A u \in Threads \ {t} : ~Owner(u)' /\ ResizeInv(u)'
        /\ \A v : ~Linking(v)'
        /\ ~(\A u \in Threads : ~Growing(u)')
        /\ (\A u \in Threads : ~Freeing(u)')
    <3>1. "copy" \in StatusLabels /\ "copy" \in GrowLabels
      BY DEF StatusLabels, GrowLabels
    <3> QED BY <1>1, <1>2, <1>5, <2>4, <3>1, OthersKept
  <2>9. \A u \in Threads : ~Freeing(u) /\ ~At(u, "table_new")
    BY <1>1, OwnerFacts DEF Freeing, At, Owner, StatusLabels
  <2>10. LinkInv'
    <3>1. ASSUME NEW v \in 1 .. ht - 1
          PROVE  /\ tables'[v].version < tables'[v + 1].version
                 /\ tables'[v].new = v + 1
      <4>1. v \in 1 .. L /\ v + 1 \in 1 .. L /\ v # L /\ v + 1 # L
        BY <1>2, <1>3
      <4> QED BY <1>2, <1>3, <2>3, <2>9, <4>1 DEF LinkInv, Linking
    <3>2. \A v \in ht .. L : tables'[v].new = Null
      BY <1>2, <1>3, <2>1, <2>3 DEF LinkInv
    <3> QED BY <2>3, <2>4, <2>8, <3>1, <3>2 DEF LinkInv
  <2>11. HeapInv'
    <3>1. oldest \in 1 .. L /\ oldest # L
      BY <1>2, <1>3
    <3>2. FreedBelow(oldest)
      BY <1>2, <1>3, <2>9 DEF HeapInv
    <3>3. FreedBelow(oldest)'
      BY <1>2, <1>3, <2>1, <2>3, <2>4, <3>2 DEF FreedBelow
    <3> QED BY <1>2, <1>3, <2>3, <2>4, <2>8, <3>1, <3>3 DEF HeapInv
  <2>12. ResizeInv(t)'
    BY <1>2, <1>3, <2>1, <2>3, <2>4, <2>8 DEF ResizeInv, Freeing, At
  <2>13. TablesInv'
    BY <1>2, <1>3, <2>4, <2>8, <2>10, <2>11, <2>12 DEF TablesInv
  <2> QED BY <2>5, <2>6, <2>7, <2>8, <2>13 DEF InvParts
<1> QED BY <1>4, <1>5 DEF ResizeWait

LEMMA SwapKeepsInv ==
  ASSUME IInv, NEW t \in Threads, Swap(t)
  PROVE  InvParts'
<1> DEFINE L == Len(tables)
           new == [tables[L] EXCEPT !.prev = ht]
<1>1. Owner(t) /\ Growing(t) /\ pc[t] = "swap"
  BY DEF Swap, At, Owner, StatusLabels, Growing, GrowLabels
<1>2. /\ ht # Null /\ ht \in 1 .. L /\ LinkInv /\ HeapInv /\ status_lock
      /\ oldest \in 1 .. ht /\ tab[t] = ht /\ L = ht + 1 /\ L \in 1 .. L
      /\ tables[ht].version < tables[L].version
  BY <1>1, OwnerFacts DEF ResizeInv, IInv, HeapType
<1>3. tables[L] \in Table /\ ht \in Nat
  BY <1>2, TableTyped DEF IInv
<1>4. /\ new \in Table /\ new.cells = tables[L].cells /\ new.num = tables[L].num
      /\ new.version = tables[L].version /\ new.new = tables[L].new
      /\ new.prev = ht /\ new.freed = tables[L].freed
  BY <1>3 DEF Table
<1>5. tables' = [tables EXCEPT ![L] = new]
  BY <1>2 DEF Swap
<1> HIDE DEF new
<1>6. /\ tables' \in Seq(Table) /\ Len(tables') = L
      /\ \A u \in 1 .. L : tables'[u] = IF u = L THEN new ELSE tables[u]
  BY <1>2, <1>4, <1>5, TablesUpdate DEF IInv
<1>7. UNCHANGED <<oldest, vmin, status_lock, tab, low>> /\ ht' = L /\ ht' # Null
  BY <1>2 DEF Swap, locks, scan, Null
<1>8. HeapType'
  <2>1. \A u \in 1 .. L :
          /\ tables'[u].num = tables[u].num /\ tables'[u].cells = tables[u].cells
          /\ {tables'[u].new, tables'[u].prev} \subseteq Null .. L
    BY <1>2, <1>4, <1>6 DEF IInv, HeapType, Null
  <2>2. {ht', oldest'} \subseteq Null .. L /\ vmin' \in Nat
    BY <1>2, <1>7 DEF IInv, HeapType, Null
  <2> QED BY <1>6, <2>1, <2>2, FieldsSet DEF IInv
<1>9. LocalType'
  <2>1. pc' \in [Threads -> Labels]
    BY DEF Swap, Goto, IInv, TypeOK, Labels
  <2> QED BY <1>6, <2>1, TypeParts DEF Swap, IInv, LocalType, locks, answers, scan
<1>10. VersionInv'
  BY <1>2, <1>4, <1>6 DEF IInv, VersionInv
<1>11. /\ OwnerInv' /\ (\A u \in Threads : CallInv(u)')
       /\ pc'[t] = "table_new"
       /\ \A u \in Threads \ {t} : ~Owner(u)' /\ ResizeInv(u)'
       /\ \A v : Linking(v)' <=> v = ht
       /\ (\A u \in Threads : ~Freeing(u)')
  <2>1. Goto(t, "table_new") /\ "table_new" \in StatusLabels
    BY DEF Swap, StatusLabels
  <2> QED BY <1>1, <1>2, <1>7, <2>1, OthersKept
<1>12. \A u \in Threads : ~Freeing(u) /\ ~At(u, "table_new")
  BY <1>1, OwnerFacts DEF Freeing, At, Owner, StatusLabels
<1>13. LinkInv'
  <2>1. ASSUME NEW v \in 1 .. L - 1
        PROVE  /\ tables'[v].version < tables'[v + 1].version
               /\ tables'[v].new = IF v = ht THEN Null ELSE v + 1
    <3>1. v \in 1 .. L /\ v + 1 \in 1 .. L /\ v # L
      BY <1>2
    <3>2. tables'[v].version = tables[v].version /\ tables'[v].new = tables[v].new
      BY <1>6, <3>1
    <3>3. tables'[v + 1].version = tables[v + 1].version
      BY <1>4, <1>6, <3>1
    <3>4. CASE v = ht
      BY <1>2, <3>2, <3>3, <3>4 DEF LinkInv
    <3>5. CASE v # ht
      BY <1>2, <1>12, <3>2, <3>3, <3>5 DEF LinkInv, Linking
    <3> QED BY <3>4, <3>5
  <2>2. \A v \in L .. L : tables'[v].new = Null
    BY <1>2, <1>4, <1>6 DEF LinkInv
  <2> QED BY <1>6, <1>7, <1>11, <2>1, <2>2 DEF LinkInv
<1>14. HeapInv'
  <2>1. oldest \in 1 .. L /\ oldest # L
    BY <1>2
  <2>2. FreedBelow(oldest)
    BY <1>2, <1>12 DEF HeapInv
  <2>3. FreedBelow(oldest)'
    <3>1. oldest' = oldest /\ oldest \in 1 .. ht'
      BY <1>2, <1>7
    <3>2. ASSUME NEW v \in 1 .. L
          PROVE  /\ tables'[v].freed <=> v < oldest
                 /\ tables'[v].prev = IF oldest < v THEN v - 1 ELSE Null
      <4>1. CASE v = L
        BY <1>2, <1>4, <1>6, <2>2, <4>1 DEF FreedBelow
      <4>2. CASE v # L
        BY <1>2, <1>6, <2>2, <4>2 DEF FreedBelow
      <4> QED BY <4>1, <4>2
    <3> QED BY <1>6, <1>7, <3>1, <3>2 DEF FreedBelow
  <2> QED BY <1>2, <1>6, <1>7, <1>11, <2>1, <2>3 DEF HeapInv
<1>15. ResizeInv(t)'
  BY <1>2, <1>7, <1>11 DEF ResizeInv, Freeing, Growing, GrowLabels, At
<1>16. TablesInv'
  BY <1>7, <1>11, <1>13, <1>14, <1>15 DEF TablesInv
<1> QED BY <1>8, <1>9, <1>10, <1>11, <1>16 DEF InvParts

LEMMA TableNewKeepsInv ==
  ASSUME IInv, NEW t \in Threads, TableNew(t)
  PROVE  InvParts'
<1> DEFINE L == Len(tables)
           b == tab[t]
           new == [tables[b] EXCEPT !.new = L]
<1>1. Owner(t) /\ At(t, "table_new") /\ ~Growing(t) /\ ~Freeing(t)
  BY DEF TableNew, At, Owner, StatusLabels, Growing, GrowLabels, Freeing
<1>2. /\ ht # Null /\ ht \in 1 .. L /\ LinkInv /\ HeapInv /\ status_lock
      /\ oldest \in 1 .. ht /\ b = ht - 1 /\ b \in 1 .. ht - 1
  BY <1>1, OwnerFacts DEF ResizeInv, IInv, TypeOK
<1>3. \A u \in Threads \ {t} : pc[u] \notin StatusLabels
  BY <1>1, OwnerFacts DEF Owner
<1>4. /\ \A u \in Threads : ~Growing(u) /\ ~Freeing(u)
      /\ \A v : Linking(v) <=> v = b
  BY <1>1, <1>3 DEF Growing, GrowLabels, Freeing, At, StatusLabels, Linking
<1>5. L = ht /\ b \in 1 .. L /\ L \in Nat /\ FreedBelow(oldest)
  BY <1>2, <1>4 DEF HeapInv, IInv, HeapType
<1>6. tables[b] \in Table
  BY <1>5, TableTyped DEF IInv
<1>7. /\ new \in Table /\ new.cells = tables[b].cells /\ new.num = tables[b].num
      /\ new.version = tables[b].version /\ new.new = L
      /\ new.prev = tables[b].prev /\ new.freed = tables[b].freed
  BY <1>5, <1>6 DEF Table
<1>8. tables' = [tables EXCEPT ![b] = new]
  BY DEF TableNew
<1> HIDE DEF new
<1>9. /\ tables' \in Seq(Table) /\ Len(tables') = L
      /\ \A u \in 1 .. L : tables'[u] = IF u = b THEN new ELSE tables[u]
  <2> HIDE DEF b
  <2> QED BY <1>5, <1>7, <1>8, TablesUpdate DEF IInv
<1>10. UNCHANGED <<ht, oldest, vmin, status_lock, tab, low>>
  BY DEF TableNew, locks, scan
<1>11. HeapType'
  <2>1. \A u \in 1 .. L :
          /\ tables'[u].num = tables[u].num /\ tables'[u].cells = tables[u].cells
          /\ {tables'[u].new, tables'[u].prev} \subseteq Null .. L
    BY <1>5, <1>7, <1>9 DEF IInv, HeapType, Null
  <2> QED BY <1>9, <1>10, <2>1, FieldsSet DEF IInv, HeapType
<1>12. LocalType'
  <2>1. pc' \in [Threads -> Labels]
    BY DEF TableNew, Goto, IInv, TypeOK, Labels
  <2> QED BY <1>9, <2>1, TypeParts DEF TableNew, IInv, LocalType, locks, answers, scan
<1>13. VersionInv'
  BY <1>5, <1>7, <1>9 DEF IInv, VersionInv
<1>14. /\ OwnerInv' /\ (\A u \in Threads : CallInv(u)')
       /\ pc'[t] = "unlock"
       /\ \A u \in Threads \ {t} : ~Owner(u)' /\ ResizeInv(u)'
       /\ \A v : ~Linking(v)'
       /\ (\A u \in Threads : ~Growing(u)')
       /\ (\A u \in Threads : ~Freeing(u)')
  <2>1. Goto(t, "unlock") /\ "unlock" \in StatusLabels \ GrowLabels
    BY DEF TableNew, StatusLabels, GrowLabels
  <2> QED BY <1>1, <1>2, <1>10, <2>1, OthersKept
<1>15. LinkInv'
  <2>1. ASSUME NEW v \in 1 .. ht - 1
        PROVE  /\ tables'[v].version < tables'[v + 1].version
               /\ tables'[v].new = v + 1
    <3>1. v \in 1 .. L /\ v + 1 \in 1 .. L
      BY <1>5
    <3>2. tables'[v].version = tables[v].version
      BY <1>7, <1>9, <3>1
    <3>3. tables'[v + 1].version = tables[v + 1].version
      BY <1>7, <1>9, <3>1
    <3>4. tables'[v].new = v + 1
      BY <1>2, <1>4, <1>5, <1>7, <1>9, <3>1 DEF LinkInv
    <3> QED BY <1>2, <3>2, <3>3, <3>4 DEF LinkInv
  <2>2. \A v \in ht .. L : tables'[v].new = Null
    BY <1>2, <1>5, <1>9 DEF LinkInv
  <2> QED BY <1>9, <1>10, <1>14, <2>1, <2>2 DEF LinkInv
<1>16. HeapInv'
  <2>1. tables'[oldest].version = tables[oldest].version
    BY <1>2, <1>5, <1>7, <1>9
  <2>2. FreedBelow(oldest)'
    BY <1>5, <1>7, <1>9, <1>10 DEF FreedBelow
  <2> QED BY <1>2, <1>5, <1>9, <1>10, <1>14, <2>1, <2>2 DEF HeapInv
<1>17. ResizeInv(t)'
  BY <1>14 DEF ResizeInv, Freeing, Growing, GrowLabels, At
<1>18. TablesInv'
  BY <1>2, <1>10, <1>14, <1>15, <1>16, <1>17 DEF TablesInv
<1> QED BY <1>11, <1>12, <1>13, <1>14, <1>18 DEF InvParts

-----------------------------------------------------------------------------
(* The steps of a collection that change the list of tables.               *)

LEMMA GcOldestKeepsInv ==
  ASSUME IInv, NEW t \in Threads, GcOldest(t)
  PROVE  InvParts'
<1>1. Owner(t) /\ pc[t] = "gc_scan" /\ ~Growing(t)
  BY DEF GcOldest, At, Owner, StatusLabels, Growing, GrowLabels
<1>2. /\ ht # Null /\ ht \in 1 .. Len(tables) /\ LinkInv /\ HeapInv /\ status_lock
      /\ oldest \in 1 .. ht /\ ResizeInv(t)
  BY <1>1, OwnerFacts
<1>3. CASE Goto(t, "gc_unlock") /\ UNCHANGED tab
  <2>1. QuietFrame(t) /\ UNCHANGED status_lock
    BY <1>3, TypeParts DEF GcOldest, QuietFrame, IInv, LocalType, locks, scan
  <2> QED BY <1>1, <1>2, <1>3, <2>1, QuietStep DEF Labels, GrowLabels
<1>4. CASE Goto(t, "gc_free") /\ SetTab(t, oldest)
  <2>1. UNCHANGED <<heap, status_lock, low>> /\ ht' = ht /\ oldest' = oldest
    BY DEF GcOldest, locks, scan, heap
  <2>2. HeapType' /\ SameShape
    BY <2>1, HeapKept DEF IInv
  <2>3. tab' = [tab EXCEPT ![t] = oldest] /\ tab' \in [Threads -> Null .. Len(tables)]
    BY <1>2, <1>4 DEF SetTab, IInv, TypeOK, Null
  <2>4. LocalType'
    <3>1. pc' \in [Threads -> Labels]
      BY <1>4 DEF Goto, IInv, TypeOK, Labels
    <3> QED BY <2>3, <3>1, TypeParts
            DEF GcOldest, IInv, LocalType, locks, answers, scan, heap
  <2>5. /\ OwnerInv' /\ (\A u \in Threads : CallInv(u)')
        /\ pc'[t] = "gc_free"
        /\ \A u \in Threads \ {t} : ~Owner(u)' /\ ResizeInv(u)'
        /\ \A v : ~Linking(v)'
        /\ (\A u \in Threads : ~Growing(u)')
        /\ ~(\A u \in Threads : ~Freeing(u)')
    <3>1. "gc_free" \in StatusLabels \ GrowLabels
      BY DEF StatusLabels, GrowLabels
    <3>2. \A u \in Threads \ {t} : tab'[u] = tab[u]
      BY <2>3 DEF IInv, TypeOK
    <3> QED BY <1>1, <1>2, <1>4, <2>1, <3>1, <3>2, OthersKept
  <2>6. \A u \in Threads \ {t} : pc[u] \notin StatusLabels
    BY <1>1, OwnerFacts DEF Owner
  <2>7. /\ \A u \in Threads : ~Growing(u) /\ ~Freeing(u)
        /\ \A v : ~Linking(v)
    BY <1>1, <2>6 DEF Growing, GrowLabels, Freeing, At, StatusLabels, Linking
  <2>8. LinkInv'
    BY <1>2, <2>2, <2>5, <2>7, LinkKept DEF IInv
  <2>9. HeapInv'
    BY <1>2, <2>1, <2>5, <2>7 DEF HeapInv, heap
  <2>10. ResizeInv(t)'
    <3>1. tab'[t] = oldest /\ oldest <= oldest /\ FreedBelow(oldest)
      BY <1>2, <2>3, <2>7 DEF HeapInv, IInv, TypeOK
    <3>2. FreedBelow(tab[t])'
      BY <2>1, <3>1 DEF FreedBelow, heap
    <3>3. low'[t] <= tables'[ht'].version
      BY <1>1, <1>2, <2>1 DEF ResizeInv, heap
    <3> QED BY <2>1, <2>5, <3>1, <3>2, <3>3 DEF ResizeInv, Growing, GrowLabels, At
  <2>11. TablesInv' /\ VersionInv'
    BY <1>2, <2>1, <2>2, <2>5, <2>8, <2>9, <2>10, ShapeFacts DEF TablesInv, IInv
  <2> QED BY <2>2, <2>4, <2>5, <2>11 DEF InvParts
<1> QED BY <1>3, <1>4 DEF GcOldest

(* What the collector knows of the table that it looks at.                 *)
LEMMA FreeFacts ==
  ASSUME IInv, NEW t \in Threads, At(t, "gc_free")
  PROVE  /\ Owner(t) /\ Freeing(t) /\ ~Growing(t)
         /\ ht # Null /\ ht \in 1 .. Len(tables) /\ Len(tables) = ht
         /\ LinkInv /\ HeapInv /\ status_lock /\ ResizeInv(t)
         /\ oldest \in 1 .. ht /\ tab[t] \in 1 .. ht /\ oldest <= tab[t]
         /\ FreedBelow(tab[t]) /\ low[t] <= tables[ht].version
         /\ \A v : ~Linking(v)
         /\ \A u \in Threads \ {t} : ~Owner(u)
<1>1. Owner(t) /\ Freeing(t) /\ ~Growing(t)
  BY DEF At, Owner, StatusLabels, Growing, GrowLabels, Freeing
<1>2. \A u \in Threads \ {t} : ~Owner(u) /\ pc[u] \notin StatusLabels
  BY <1>1, OwnerFacts DEF Owner
<1>3. (\A u \in Threads : ~Growing(u)) /\ (\A v : ~Linking(v))
  BY <1>1, <1>2 DEF Growing, GrowLabels, At, StatusLabels, Linking
<1>4. /\ ht # Null /\ ht \in 1 .. Len(tables) /\ LinkInv /\ HeapInv
      /\ status_lock /\ ResizeInv(t) /\ oldest \in 1 .. ht
  BY <1>1, OwnerFacts
<1>5. oldest <= tab[t] /\ FreedBelow(tab[t]) /\ low[t] <= tables[ht].version
  BY <1>1, <1>4 DEF ResizeInv, At
<1>6. tab[t] \in 1 .. ht /\ Len(tables) = ht
  BY <1>3, <1>4, <1>5 DEF FreedBelow, HeapInv
<1> QED BY <1>1, <1>2, <1>3, <1>4, <1>5, <1>6

LEMMA GcFreeKeepsInv ==
  ASSUME IInv, NEW t \in Threads, GcFree(t)
  PROVE  InvParts'
<1> DEFINE b == tab[t]
           this == [tables[b] EXCEPT !.freed = TRUE]
           next == [tables[b + 1] EXCEPT !.prev = Null]
<1>1. At(t, "gc_free") /\ tables[b].version < low[t] /\ pc[t] = "gc_free"
  BY DEF GcFree, Garbage, At
<1>2. /\ Owner(t) /\ Freeing(t) /\ ~Growing(t)
      /\ ht # Null /\ ht \in 1 .. Len(tables) /\ Len(tables) = ht
      /\ LinkInv /\ HeapInv /\ status_lock
      /\ oldest \in 1 .. ht /\ b \in 1 .. ht /\ oldest <= b
      /\ FreedBelow(b) /\ low[t] <= tables[ht].version
      /\ \A v : ~Linking(v)
  BY <1>1, FreeFacts
<1>3. b \in 1 .. ht - 1 /\ tables[b].new = b + 1 /\ b + 1 \in 1 .. ht /\ b # b + 1
  <2>1. tables[b].version \in Nat /\ tables[ht].version \in Nat /\ low[t] \in Nat
    <3>1. low[t] \in Nat
      BY ResAssumption DEF IInv, TypeOK, Versions
    <3>2. TypeOK /\ b \in 1 .. Len(tables)
      BY <1>2 DEF IInv
    <3> HIDE DEF b
    <3> QED BY <1>2, <3>1, <3>2, VersionTyped
  <2>2. b # ht
    BY <1>1, <1>2, <2>1
  <2> QED BY <1>2, <2>2 DEF LinkInv
<1>4. tables[b] \in Table /\ tables[b + 1] \in Table
  BY <1>2, <1>3, TableTyped DEF IInv
<1>5. /\ this \in Table /\ this.cells = tables[b].cells /\ this.num = tables[b].num
      /\ this.version = tables[b].version /\ this.new = tables[b].new
      /\ this.prev = tables[b].prev /\ this.freed = TRUE
  BY <1>4 DEF Table
<1>6. /\ next \in Table /\ next.cells = tables[b + 1].cells
      /\ next.num = tables[b + 1].num /\ next.version = tables[b + 1].version
      /\ next.new = tables[b + 1].new /\ next.prev = Null
      /\ next.freed = tables[b + 1].freed
  BY <1>4 DEF Table, Null
<1>7. /\ tables' \in Seq(Table) /\ Len(tables') = Len(tables)
      /\ \A u \in 1 .. Len(tables) :
           tables'[u] = IF u = b THEN this ELSE IF u = b + 1 THEN next ELSE tables[u]
  <2> DEFINE T == [tables EXCEPT ![b + 1] = next]
  <2>1. tables' = [tables EXCEPT ![b + 1].prev = Null, ![b].freed = TRUE]
    BY <1>3 DEF GcFree
  <2>2. /\ T \in Seq(Table) /\ Len(T) = Len(tables)
        /\ \A u \in 1 .. Len(tables) : T[u] = IF u = b + 1 THEN next ELSE tables[u]
    <3> HIDE DEF next, b
    <3> QED BY <1>2, <1>3, <1>6, TablesUpdate DEF IInv
  <2>3. T[b] = tables[b]
    <3> HIDE DEF T
    <3> QED BY <1>2, <1>3, <2>2
  <2>4. tables' = [T EXCEPT ![b] = this]
    BY <2>1, <2>3
  <2> HIDE DEF T, this, next
  <2> QED BY <1>2, <1>5, <2>2, <2>4
<1> HIDE DEF this, next
<1>8. /\ UNCHANGED <<ht, oldest, vmin, status_lock, low, pc>>
      /\ tab' = [tab EXCEPT ![t] = b + 1]
  BY <1>3 DEF GcFree, SetTab, locks, scan
<1>9. HeapType'
  <2>1. \A u \in 1 .. Len(tables) :
          /\ tables'[u].num = tables[u].num /\ tables'[u].cells = tables[u].cells
          /\ {tables'[u].new, tables'[u].prev} \subseteq Null .. Len(tables)
    <3> SUFFICES ASSUME NEW u \in 1 .. Len(tables)
                 PROVE  /\ tables'[u].num = tables[u].num
                        /\ tables'[u].cells = tables[u].cells
                        /\ tables'[u].new \in Null .. Len(tables)
                        /\ tables'[u].prev \in Null .. Len(tables)
      OBVIOUS
    <3>1. /\ tables[u].new \in Null .. Len(tables)
          /\ tables[u].prev \in Null .. Len(tables)
          /\ Null \in Null .. Len(tables)
      BY <1>2 DEF IInv, HeapType, Null
    <3> HIDE DEF b
    <3>2. CASE u = b
      BY <1>5, <1>7, <3>1, <3>2
    <3>3. CASE u = b + 1
      BY <1>3, <1>6, <1>7, <3>1, <3>3
    <3>4. CASE u # b /\ u # b + 1
      BY <1>7, <3>1, <3>4
    <3> QED BY <3>2, <3>3, <3>4
  <2> QED BY <1>7, <1>8, <2>1, FieldsSet DEF IInv, HeapType
<1>10. LocalType'
  <2>1. tab' \in [Threads -> Null .. Len(tables)]
    BY <1>2, <1>3, <1>8 DEF IInv, TypeOK, Null
  <2> QED BY <1>7, <2>1, TypeParts DEF GcFree, IInv, LocalType, locks, answers, scan
<1>11. VersionInv'
  <2>1. \A u \in 1 .. Len(tables) : tables'[u].version = tables[u].version
    BY <1>2, <1>3, <1>5, <1>6, <1>7
  <2> QED BY <1>2, <1>7, <2>1 DEF IInv, VersionInv
<1>12. /\ OwnerInv' /\ (\A u \in Threads : CallInv(u)')
       /\ \A u \in Threads \ {t} : ~Owner(u)' /\ ResizeInv(u)'
       /\ \A v : ~Linking(v)'
       /\ (\A u \in Threads : ~Growing(u)')
       /\ ~(\A u \in Threads : ~Freeing(u)')
  <2>1. Goto(t, "gc_free") /\ "gc_free" \in StatusLabels \ GrowLabels
    BY <1>1, <1>8 DEF Goto, StatusLabels, GrowLabels, IInv, TypeOK
  <2>2. \A u \in Threads \ {t} : tab'[u] = tab[u]
    BY <1>8 DEF IInv, TypeOK
  <2> QED BY <1>2, <1>8, <2>1, <2>2, OthersKept
<1>13. LinkInv'
  <2>1. \A u \in 1 .. Len(tables) :
          tables'[u].version = tables[u].version /\ tables'[u].new = tables[u].new
    BY <1>2, <1>3, <1>5, <1>6, <1>7
  <2>2. \A v \in 1 .. ht - 1 : v \in 1 .. Len(tables) /\ v + 1 \in 1 .. Len(tables)
    BY <1>2
  <2> QED BY <1>2, <1>7, <1>8, <1>12, <2>1, <2>2 DEF LinkInv
<1>14. HeapInv'
  <2>1. tables'[oldest].version = tables[oldest].version
    BY <1>2, <1>3, <1>5, <1>6, <1>7
  <2> QED BY <1>2, <1>7, <1>8, <1>12, <2>1 DEF HeapInv
<1>15. ResizeInv(t)'
  <2>1. tab'[t] = b + 1 /\ oldest' <= b + 1
    BY <1>2, <1>3, <1>8 DEF IInv, TypeOK
  <2>2. ASSUME NEW u \in 1 .. Len(tables)
        PROVE  /\ tables'[u].freed <=> u < b + 1
               /\ tables'[u].prev = IF b + 1 < u /\ u <= ht THEN u - 1 ELSE Null
    <3>1. /\ tables[u].freed <=> u < b
          /\ tables[u].prev = IF b < u /\ u <= ht THEN u - 1 ELSE Null
      BY <1>2 DEF FreedBelow
    <3>2. CASE u = b
      BY <1>2, <1>3, <1>5, <1>7, <3>1, <3>2
    <3>3. CASE u = b + 1
      BY <1>2, <1>3, <1>6, <1>7, <3>1, <3>3
    <3>4. CASE u # b /\ u # b + 1
      BY <1>2, <1>3, <1>7, <3>1, <3>4
    <3> QED BY <3>2, <3>3, <3>4
  <2>3. FreedBelow(tab[t])'
    BY <1>3, <1>7, <1>8, <2>1, <2>2 DEF FreedBelow
  <2>4. tables'[ht].version = tables[ht].version
    BY <1>2, <1>3, <1>5, <1>6, <1>7
  <2> QED BY <1>1, <1>2, <1>8, <2>1, <2>3, <2>4 DEF ResizeInv, Growing, GrowLabels, At
<1>16. TablesInv'
  BY <1>2, <1>8, <1>12, <1>13, <1>14, <1>15 DEF TablesInv
<1> QED BY <1>9, <1>10, <1>11, <1>12, <1>16 DEF InvParts

LEMMA GcDoneKeepsInv ==
  ASSUME IInv, NEW t \in Threads, GcDone(t)
  PROVE  InvParts'
<1> DEFINE b == tab[t]
<1>1. At(t, "gc_free") /\ pc[t] = "gc_free"
  BY DEF GcDone, At
<1>2. /\ Owner(t) /\ Freeing(t) /\ ~Growing(t)
      /\ ht # Null /\ ht \in 1 .. Len(tables) /\ Len(tables) = ht
      /\ LinkInv /\ HeapInv /\ status_lock
      /\ oldest \in 1 .. ht /\ b \in 1 .. ht /\ FreedBelow(b)
      /\ \A v : ~Linking(v)
  BY <1>1, FreeFacts
<1>3. /\ UNCHANGED <<tables, ht, status_lock, low, tab>>
      /\ oldest' = b /\ vmin' = tables[b].version
      /\ tables[b].version \in Versions /\ tables[b].version \in Nat
  BY <1>2, VersionTyped DEF GcDone, locks, scan, IInv
<1>4. HeapType'
  <2>1. {ht', oldest'} \subseteq Null .. Len(tables)
    BY <1>2, <1>3 DEF Null
  <2> QED BY <1>3, <2>1 DEF IInv, HeapType, Used
<1>5. LocalType'
  <2>1. pc' \in [Threads -> Labels]
    BY DEF GcDone, Goto, IInv, TypeOK, Labels
  <2> QED BY <1>3, <2>1, TypeParts DEF GcDone, IInv, LocalType, locks, answers, scan
<1>6. VersionInv'
  BY <1>3 DEF IInv, VersionInv
<1>7. /\ OwnerInv' /\ (\A u \in Threads : CallInv(u)')
      /\ pc'[t] = "gc_unlock"
      /\ \A u \in Threads \ {t} : ~Owner(u)' /\ ResizeInv(u)'
      /\ \A v : ~Linking(v)'
      /\ (\A u \in Threads : ~Growing(u)')
      /\ (\A u \in Threads : ~Freeing(u)')
  <2>1. Goto(t, "gc_unlock") /\ "gc_unlock" \in StatusLabels \ GrowLabels
    BY DEF GcDone, StatusLabels, GrowLabels
  <2> QED BY <1>2, <1>3, <2>1, OthersKept
<1>8. LinkInv'
  BY <1>2, <1>3, <1>7 DEF LinkInv
<1>9. HeapInv'
  BY <1>2, <1>3, <1>7 DEF HeapInv, FreedBelow
<1>10. ResizeInv(t)'
  BY <1>7 DEF ResizeInv, Growing, GrowLabels, Freeing, At
<1>11. TablesInv'
  BY <1>2, <1>3, <1>7, <1>8, <1>9, <1>10 DEF TablesInv
<1> QED BY <1>4, <1>5, <1>6, <1>7, <1>11 DEF InvParts

-----------------------------------------------------------------------------
(* clht_gc_destroy.                                                        *)

(* The versions of the older tables are below that of the current one.     *)
LEMMA VersionsIncrease ==
  ASSUME HeapType, ht # Null, LinkInv
  PROVE  \A v \in 1 .. ht - 1 : tables[v].version < tables[ht].version
<1> DEFINE S == {v \in 1 .. ht : v = ht \/ tables[v].version < tables[ht].version}
<1>1. ht \in 1 .. Len(tables) /\ \A v \in 1 .. Len(tables) : tables[v].version \in Nat
  <2>1. \A v \in 1 .. Len(tables) : tables[v] \in Table
    BY TableTyped
  <2>2. \A v \in 1 .. Len(tables) : tables[v].version \in Nat
    BY <2>1 DEF Table
  <2>3. ht \in 1 .. Len(tables)
    BY DEF HeapType, Null
  <2> QED BY <2>2, <2>3
<1>2. \A v \in 2 .. ht : v \in S => v - 1 \in S
  <2> SUFFICES ASSUME NEW v \in 2 .. ht, v \in S PROVE v - 1 \in S
    OBVIOUS
  <2>1. v - 1 \in 1 .. ht - 1 /\ (v - 1) + 1 = v
    BY <1>1
  <2>2. tables[v - 1].version < tables[v].version
    BY <2>1 DEF LinkInv
  <2>3. /\ tables[v - 1].version \in Nat /\ tables[v].version \in Nat
        /\ tables[ht].version \in Nat
    BY <1>1, <2>1
  <2>4. tables[v - 1].version < tables[ht].version
    BY <1>1, <2>2, <2>3
  <2> QED BY <1>1, <2>1, <2>4
<1>3. ht \in S /\ 1 \in Nat /\ ht \in Nat
  BY <1>1
<1> HIDE DEF S
<1>4. 1 .. ht \subseteq S
  BY <1>2, <1>3, DownInduction
<1> QED BY <1>1, <1>4 DEF S

(* The walk of the collector meets every table that is not freed.          *)
LEMMA CollectsAll ==
  ASSUME HeapType, ht # Null, LinkInv, oldest \in 1 .. ht, Len(tables) = ht,
         vmin <= tables[oldest].version, \A v : ~Linking(v)
  PROVE  oldest .. ht - 1 \subseteq CollectAll
<1> DEFINE old(v) == IF v # Null /\ Garbage(v, tables[ht].version) THEN v ELSE Null
           next == [v \in 1 .. Len(tables) |-> old(tables[v].new)]
<1>1. ht \in 1 .. Len(tables)
  BY DEF HeapType, Null
<1>2. \A v \in 1 .. ht - 1 : tables[v].version < tables[ht].version
  BY VersionsIncrease
<1>3. \A v \in 1 .. ht - 1 : old(v) = v
  BY <1>1, <1>2 DEF Garbage, Null
<1> SUFFICES ASSUME NEW u \in oldest .. ht - 1 PROVE u \in CollectAll
  OBVIOUS
<1>4. oldest \in 1 .. ht - 1 /\ oldest \in Nat
  OBVIOUS
<1>5. vmin < tables[ht].version /\ ~(vmin >= tables[ht].version)
  <2>1. /\ vmin \in Nat /\ tables[oldest].version \in Nat
        /\ tables[ht].version \in Nat
    BY <1>1, <1>4, TableTyped DEF HeapType, Table
  <2> QED BY <1>2, <1>4, <2>1
<1>6. ASSUME NEW S \in SUBSET (1 .. Len(tables)), old(oldest) \in S \cup {Null},
             \A v \in S : next[v] \in S \cup {Null}
      PROVE  u \in S
  <2>1. oldest \in S
    BY <1>3, <1>4, <1>6 DEF Null
  <2>2. \A v \in oldest .. (ht - 1) - 1 : v \in S => v + 1 \in S
    <3> SUFFICES ASSUME NEW v \in oldest .. (ht - 1) - 1, v \in S PROVE v + 1 \in S
      OBVIOUS
    <3>1. v \in 1 .. ht - 1 /\ v + 1 \in 1 .. ht - 1 /\ v \in 1 .. Len(tables)
      BY <1>1, <1>4
    <3>2. tables[v].new = v + 1
      BY <3>1 DEF LinkInv
    <3>3. next[v] = v + 1
      BY <1>3, <3>1, <3>2
    <3> HIDE DEF next
    <3> QED BY <1>6, <3>1, <3>3 DEF Null
  <2>3. ht - 1 \in Nat
    BY <1>1
  <2> QED BY <1>4, <2>1, <2>2, <2>3, SetInduction
<1>7. u \in Reached(old(oldest), next)
  <2>1. u \in 1 .. Len(tables)
    BY <1>1, <1>4
  <2> HIDE DEF old, next
  <2> QED BY <1>6, <2>1 DEF Reached
<1> QED BY <1>5, <1>7 DEF CollectAll

LEMMA DestroyKeepsInv ==
  ASSUME IInv, Destroy
  PROVE  InvParts'
<1> DEFINE L == Len(tables)
<1>1. \A t \in Threads : pc[t] \in {"off", "idle"} /\ pc'[t] \in {"off", "idle"}
  BY DEF Destroy
<1>2. /\ \A t \in Threads : ~Owner(t) /\ ~Owner(t)' /\ ~Growing(t) /\ ~Freeing(t)
      /\ \A v : ~Linking(v)
  BY <1>1 DEF Owner, StatusLabels, Growing, GrowLabels, Freeing, Linking, At
<1>3. ht # Null /\ LinkInv /\ HeapInv /\ L = ht /\ oldest \in 1 .. ht /\ FreedBelow(oldest)
  BY <1>2 DEF Destroy, IInv, TablesInv, HeapInv
<1>4. oldest .. ht - 1 \subseteq CollectAll
  BY <1>2, <1>3, CollectsAll DEF IInv, HeapInv
<1>5. \A v \in 1 .. L : tables[v] \in Table
  BY TableTyped DEF IInv
<1>6. /\ tables' \in Seq(Table) /\ Len(tables') = L
      /\ \A v \in 1 .. L :
           /\ tables'[v].num = tables[v].num /\ tables'[v].cells = tables[v].cells
           /\ tables'[v].version = tables[v].version
           /\ tables'[v].new = tables[v].new /\ tables'[v].prev = tables[v].prev
           /\ tables'[v].freed
  <2> DEFINE new(v) == [tables[v] EXCEPT !.freed = @ \/ v \in CollectAll \cup {ht}]
  <2>1. tables' = [v \in 1 .. L |-> new(v)] /\ L \in Nat
    BY DEF Destroy, IInv, HeapType
  <2>2. ASSUME NEW v \in 1 .. L
        PROVE  /\ new(v) \in Table
               /\ new(v).num = tables[v].num /\ new(v).cells = tables[v].cells
               /\ new(v).version = tables[v].version
               /\ new(v).new = tables[v].new /\ new(v).prev = tables[v].prev
               /\ new(v).freed = (tables[v].freed \/ v \in CollectAll \cup {ht})
    BY <1>5 DEF Table
  <2>3. ASSUME NEW v \in 1 .. L
        PROVE  tables[v].freed \/ v \in CollectAll \cup {ht}
    <3>1. tables[v].freed <=> v < oldest
      BY <1>3 DEF FreedBelow
    <3>2. CASE v < oldest
      BY <3>1, <3>2
    <3>3. CASE v \in oldest .. ht - 1
      BY <1>4, <3>3
    <3> QED BY <1>3, <3>2, <3>3
  <2> HIDE DEF new
  <2>4. tables' \in Seq(Table) /\ Len(tables') = L
    BY <2>1, <2>2
  <2> QED BY <2>1, <2>2, <2>3, <2>4
<1>7. UNCHANGED <<oldest, vmin, locks, list, ts, answers, pc, tab, cell, tries, scan>>
      /\ ht' = Null
  BY DEF Destroy
<1>8. HeapType'
  BY <1>3, <1>6, <1>7, FieldsSet DEF IInv, HeapType, Null
<1>9. LocalType'
  BY <1>6, <1>7, TypeParts DEF IInv, LocalType, locks, answers, scan
<1>10. VersionInv'
  BY <1>3, <1>6 DEF IInv, VersionInv
<1>11. OwnerInv' /\ \A t \in Threads : CallInv(t)'
  BY <1>1, <1>2 DEF OwnerInv, CallInv
<1>12. TablesInv'
  BY <1>6, <1>7 DEF TablesInv
<1> QED BY <1>8, <1>9, <1>10, <1>11, <1>12 DEF InvParts

-----------------------------------------------------------------------------
(* The theorems.                                                           *)

LEMMA StepKeepsInv ==
  ASSUME IInv, Destroy \/ \E t \in Threads : Call(t) \/ Work(t)
  PROVE  InvParts'
<1>1. CASE Destroy
  BY <1>1, DestroyKeepsInv
<1>2. ASSUME NEW t \in Threads, Call(t) \/ Work(t)
      PROVE  InvParts'
  <2>1. CASE Call(t) \/ ThreadLink(t)
    BY <2>1, CallsKeepInv
  <2>2. CASE GetAnnounce(t) \/ GetSearch(t) \/ CheckResize(t) \/ ReadHt(t)
    BY <2>2, SearchKeepsInv
  <2>3. CASE PutSearch(t)
    BY <2>3, PutSearchKeepsInv
  <2>4. CASE PutCommit(t)
    BY <2>4, PutCommitKeepsInv
  <2>5. CASE RemoveKey(t)
    BY <2>5, RemoveKeepsInv
  <2>6. CASE QuietSteps(t)
    BY <2>6, QuietStepsKeepInv
  <2>7. CASE ScanSteps(t)
    BY <2>7, ScanStepsKeepInv
  <2>8. CASE CopyCell(t)
    BY <2>8, CopyKeepsInv
  <2>9. CASE ResizeBegin(t)
    BY <2>9, ResizeBeginKeepsInv
  <2>10. CASE ResizeWait(t)
    BY <2>10, ResizeWaitKeepsInv
  <2>11. CASE Swap(t)
    BY <2>11, SwapKeepsInv
  <2>12. CASE TableNew(t)
    BY <2>12, TableNewKeepsInv
  <2>13. CASE GcOldest(t)
    BY <2>13, GcOldestKeepsInv
  <2>14. CASE GcFree(t)
    BY <2>14, GcFreeKeepsInv
  <2>15. CASE GcDone(t)
    BY <2>15, GcDoneKeepsInv
  <2> QED
    BY <1>2, <2>1, <2>2, <2>3, <2>4, <2>5, <2>6, <2>7, <2>8, <2>9, <2>10,
       <2>11, <2>12, <2>13, <2>14, <2>15
    DEF Work, QuietSteps, ScanSteps
<1> QED BY <1>1, <1>2

LEMMA NextInv == IInv /\ [Next]_vars => IInv'
<1> SUFFICES ASSUME IInv, [Next]_vars PROVE IInv'
  OBVIOUS
<1>1. CASE Next
  BY <1>1, StepKeepsInv, InvFromParts DEF Next
<1>2. CASE UNCHANGED vars
  <2> USE <1>2 DEF vars, heap, locks, answers, scan
  <2>1. TypeOK' /\ HeapType'
    BY DEF IInv, TypeOK, HeapType, Used
  <2>2. OwnerInv' /\ (\A t \in Threads : CallInv(t)') /\ VersionInv'
    BY DEF IInv, OwnerInv, Owner, CallInv, VersionInv
  <2>3. (ht # Null /\ LinkInv /\ HeapInv) => LinkInv' /\ HeapInv'
    BY DEF LinkInv, HeapInv, FreedBelow, Linking, Growing, Freeing, At
  <2>4. ASSUME NEW t \in Threads, ResizeInv(t) PROVE ResizeInv(t)'
    BY <2>4 DEF ResizeInv, FreedBelow, Growing, Freeing, At
  <2>5. TablesInv'
    BY <2>3, <2>4 DEF IInv, TablesInv
  <2> QED BY <2>1, <2>2, <2>5 DEF IInv
<1> QED BY <1>1, <1>2

LEMMA InitInv == Init => IInv
<1> SUFFICES ASSUME Init PROVE IInv
  OBVIOUS
<1>1. PICK ver \in FirstVersions : tables = <<NewTable(Buckets, ver, Null)>>
  BY DEF Init
<1>2. ver \in Nat /\ ver + 2 * MaxTables <= VersionMax /\ 2 * MaxTables <= VersionMax
  BY <1>1, ResAssumption
<1>3. NewTable(Buckets, ver, Null) \in Table
  <2>1. <<>> \in CellMaps
    <3>1. <<>> \in [{} -> Cells]
      OBVIOUS
    <3> QED BY <3>1 DEF CellMaps
  <2> QED BY <1>2, <2>1, ResAssumption DEF NewTable, Table, Null
<1>4. /\ tables \in Seq(Table) /\ Len(tables) = 1 /\ tables[1].version = ver
      /\ tables[1].new = Null /\ tables[1].prev = Null /\ ~tables[1].freed
      /\ DOMAIN tables[1].cells = {}
  BY <1>1, <1>3 DEF NewTable
<1>5. HeapType
  BY <1>4, ResAssumption DEF HeapType, Used, Init, Null
<1>6. VersionInv
  BY <1>2, <1>4, ResAssumption DEF VersionInv
<1>7. LocalType /\ SeenType
  <2>1. \A t \in Threads : call[t] = Idle
    BY DEF Init
  <2>2. 0 \in Versions /\ 0 \in 0 .. Tries /\ 0 \in 0 .. MaxPuts /\ Null \in Null .. 1
    BY ResAssumption DEF Versions, Null
  <2>3. call \in [Threads -> Calls] /\ pc \in [Threads -> Labels]
    BY CallTypes DEF Init, Labels
  <2>4. list \in Seq(Threads) /\ left \in [Threads -> Seq(Threads)]
    BY DEF Init
  <2>5. /\ tab \in [Threads -> Null .. Len(tables)]
        /\ cell \in [Threads -> Nat] /\ tries \in [Threads -> 0 .. Tries]
    BY <1>4, <2>2 DEF Init
  <2>6. /\ ts \in [Threads -> Versions] /\ low \in [Threads -> Versions]
        /\ ret \in [Threads -> Vals \cup {0, 1}] /\ SeenType
    BY <2>2 DEF Init, SeenType
  <2>7. vmin \in Versions /\ puts \in 0 .. MaxPuts /\ net \in Int
    BY <2>2 DEF Init
  <2>8. {resize_lock, status_lock, gc_lock} \subseteq BOOLEAN
    BY Zenon DEF Init
  <2> QED BY <2>3, <2>4, <2>5, <2>6, <2>7, <2>8 DEF LocalType
<1>8. \A t \in Threads : pc[t] = "off"
  BY DEF Init
<1>9. OwnerInv /\ (\A t \in Threads : CallInv(t))
  BY <1>8 DEF OwnerInv, Owner, StatusLabels, CallInv
<1>10. TablesInv
  <2>1. \A t \in Threads : ResizeInv(t)
    BY <1>8 DEF ResizeInv, Growing, GrowLabels, Freeing, At
  <2>2. LinkInv
    BY <1>4 DEF LinkInv, Init
  <2>3. HeapInv
    BY <1>2, <1>4 DEF HeapInv, FreedBelow, Init
  <2>4. ht # Null
    BY DEF Init, Null
  <2> QED BY <2>1, <2>2, <2>3, <2>4 DEF TablesInv
<1> QED BY <1>5, <1>6, <1>7, <1>9, <1>10, TypeParts DEF IInv

(* The invariant holds throughout every execution.                         *)
THEOREM Invariance == Spec => []IInv
BY InitInv, NextInv, PTL DEF Spec

(* The state is well typed: no index leaves its table, no version leaves   *)
(* the range of size_t.                                                    *)
THEOREM TypeCorrect == Spec => []TypeOK
<1>1. IInv => TypeOK
  BY DEF IInv
<1> QED BY <1>1, Invariance, PTL

(* The tables stay linked in the order of their versions while they are    *)
(* created, replaced and freed (ht_resize_pes, clht_gc_collect).           *)
THEOREM Linked == Spec => []TablesLinked
<1>1. IInv => TablesLinked
  BY DEF IInv, TablesInv, LinkInv, TablesLinked
<1> QED BY <1>1, Invariance, PTL

(* The collector never meets a table that it has freed, or the end of the  *)
(* list; the list of the live tables never leads back to a freed one.      *)
THEOREM CollectorIsSafe == Spec => []CollectorSafe
<1>1. ASSUME IInv, ht # Null PROVE CollectorSafe
  <2>1. LinkInv /\ HeapInv /\ ht \in 1 .. Len(tables)
    BY <1>1 DEF IInv, TablesInv, HeapType, Null
  <2>2. ASSUME NEW t \in Threads, At(t, "gc_free")
        PROVE  /\ tab[t] # Null /\ Alive(t)
               /\ tables[tab[t]].version < low[t] => tables[tab[t]].new # Null
    <3>1. /\ tab[t] \in 1 .. ht /\ FreedBelow(tab[t]) /\ Len(tables) = ht
          /\ low[t] <= tables[ht].version /\ \A v : ~Linking(v)
      BY <1>1, <2>2, FreeFacts
    <3>2. tab[t] # Null /\ Alive(t)
      BY <3>1 DEF FreedBelow, Alive, Null
    <3>3. ASSUME tables[tab[t]].version < low[t] PROVE tables[tab[t]].new # Null
      <4>1. tables[tab[t]].version \in Nat /\ tables[ht].version \in Nat /\ low[t] \in Nat
        <5>1. TypeOK /\ tab[t] \in 1 .. Len(tables)
          BY <1>1, <3>1 DEF IInv
        <5>2. low[t] \in Nat
          BY <5>1, ResAssumption DEF TypeOK, Versions
        <5> QED BY <2>1, <5>1, <5>2, VersionTyped
      <4>2. tab[t] \in 1 .. ht - 1
        BY <3>1, <3>3, <4>1
      <4> QED BY <2>1, <3>1, <4>2 DEF LinkInv, Null
    <3> QED BY <3>2, <3>3
  <2>3. ASSUME NEW v \in 1 .. Len(tables), ~tables[v].freed, tables[v].prev # Null
        PROVE  ~tables[tables[v].prev].freed
    <3>1. PICK b \in 1 .. ht : FreedBelow(b)
      <4>1. CASE \A t \in Threads : ~Freeing(t)
        BY <2>1, <4>1 DEF HeapInv
      <4>2. ASSUME NEW t \in Threads, Freeing(t) PROVE \E b \in 1 .. ht : FreedBelow(b)
        BY <1>1, <4>2, FreeFacts DEF Freeing
      <4> QED BY <4>1, <4>2
    <3>2. ~(v < b) /\ b < v /\ v <= ht /\ tables[v].prev = v - 1
      BY <2>3, <3>1 DEF FreedBelow
    <3>3. v - 1 \in 1 .. Len(tables) /\ ~(v - 1 < b)
      BY <3>2
    <3> QED BY <3>1, <3>2, <3>3 DEF FreedBelow
  <2> QED BY <2>2, <2>3 DEF CollectorSafe
<1>2. IInv => CollectorSafe
  BY <1>1 DEF CollectorSafe
<1> QED BY <1>2, Invariance, PTL

(* The walk along table_prev.                                              *)
LEMMA GarbageFound ==
  ASSUME HeapType, ht # Null, FreedBelow(oldest)
  PROVE  GarbageOf(ht) = oldest .. ht - 1
<1> DEFINE prev == [v \in 1 .. Len(tables) |-> tables[v].prev]
           old == oldest .. ht - 1
<1>1. ht \in 1 .. Len(tables) /\ oldest \in 1 .. ht
  BY DEF HeapType, Null, FreedBelow
<1>2. \A v \in 1 .. Len(tables) :
        v <= ht => prev[v] = IF oldest < v THEN v - 1 ELSE Null
  BY DEF FreedBelow
<1>3. tables[ht].prev = IF oldest < ht THEN ht - 1 ELSE Null
  BY <1>1, <1>2
<1>4. ASSUME NEW u \in old PROVE u \in GarbageOf(ht)
  <2>1. ASSUME NEW S \in SUBSET (1 .. Len(tables)), tables[ht].prev \in S \cup {Null},
               \A v \in S : prev[v] \in S \cup {Null}
        PROVE  u \in S
    <3>1. ht - 1 \in S
      BY <1>1, <1>3, <2>1 DEF Null
    <3>2. \A v \in oldest + 1 .. ht - 1 : v \in S => v - 1 \in S
      <4> SUFFICES ASSUME NEW v \in oldest + 1 .. ht - 1, v \in S PROVE v - 1 \in S
        OBVIOUS
      <4>1. v \in 1 .. Len(tables) /\ v <= ht /\ oldest < v
        BY <1>1
      <4>2. prev[v] = v - 1
        BY <1>2, <4>1
      <4>3. v - 1 # Null
        BY <1>1, <4>1 DEF Null
      <4> HIDE DEF prev
      <4> QED BY <2>1, <4>2, <4>3
    <3>3. oldest \in Nat /\ ht - 1 \in Nat
      BY <1>1
    <3> QED BY <3>1, <3>2, <3>3, DownInduction
  <2>2. u \in 1 .. Len(tables)
    BY <1>1
  <2> QED BY <2>1, <2>2 DEF GarbageOf, Reached
<1>5. ASSUME NEW u \in GarbageOf(ht) PROVE u \in old
  <2>1. old \in SUBSET (1 .. Len(tables))
    BY <1>1
  <2>2. tables[ht].prev \in old \cup {Null}
    BY <1>1, <1>3
  <2>3. \A v \in old : prev[v] \in old \cup {Null}
    <3> SUFFICES ASSUME NEW v \in old PROVE prev[v] \in old \cup {Null}
      OBVIOUS
    <3>1. v \in 1 .. Len(tables) /\ v <= ht
      BY <1>1
    <3>2. prev[v] = IF oldest < v THEN v - 1 ELSE Null
      BY <1>2, <3>1
    <3> HIDE DEF prev
    <3> QED BY <1>1, <3>2
  <2> HIDE DEF old
  <2> QED BY <2>1, <2>2, <2>3 DEF GarbageOf, Reached
<1> QED BY <1>4, <1>5

(* Between collections exactly the tables before ht_oldest are freed, and  *)
(* clht_size_mem_garbage counts the others but the current one; clht_gc_   *)
(* destroy frees every table that was ever created.                        *)
THEOREM NothingLost == Spec => []NoTableLost
<1>1. ASSUME IInv, ht # Null, \A t \in Threads : ~At(t, "gc_free")
      PROVE  /\ \A v \in 1 .. Len(tables) : tables[v].freed <=> v < oldest
             /\ SizeMemGarbage(ht) = MapThenSumSet(SizeMem, oldest .. ht - 1)
  <2>1. FreedBelow(oldest)
    BY <1>1 DEF IInv, TablesInv, HeapInv, Freeing
  <2>2. GarbageOf(ht) = oldest .. ht - 1
    BY <1>1, <2>1, GarbageFound DEF IInv
  <2>3. SizeMemGarbage(ht) = MapThenSumSet(SizeMem, oldest .. ht - 1)
    BY <2>2 DEF SizeMemGarbage
  <2> QED BY <2>1, <2>3 DEF FreedBelow
<1>2. ASSUME IInv, ht = Null PROVE \A v \in 1 .. Len(tables) : tables[v].freed
  BY <1>2 DEF IInv, TablesInv
<1>3. IInv => NoTableLost
  BY <1>1, <1>2 DEF NoTableLost
<1> QED BY <1>3, Invariance, PTL

=============================================================================
