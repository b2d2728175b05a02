------------------------------- MODULE LfRes -------------------------------
(***************************************************************************)
(* The lock-free table that resizes (src/clht_lf_res.c) with the versions  *)
(* and the garbage collection of its tables (src/clht_gc.c).               *)
(*                                                                         *)
(* An operation on the bucket of one table is atomic here, or two steps    *)
(* where it claims a slot first: LfBucket has the bucket itself.  What     *)
(* remains are the steps between the tables: which table a call works on,  *)
(* who waits for whom, and when a table is copied, replaced and freed.     *)
(* A thread that would work on a freed table takes no further step: what   *)
(* the code does from there on is undefined.                               *)
(***************************************************************************)
EXTENDS Integers, Sequences, FiniteSets, FiniteSetsExt, Functions

CONSTANTS Threads,       \* the threads that use the table
          Updaters,      \* those of them that put and remove
          Readers,       \* those of them that get
          Keys,          \* keys: numbers, which the table hashes
          NoKey,         \* the key of a thread with no call in progress
          Buckets,       \* num_buckets of the first table
          Entries,       \* ENTRIES_PER_BUCKET
          Tries,         \* CLHT_NO_EMPTY_SLOT_TRIES
          PercHalve,     \* CLHT_PERC_FULL_HALVE
          DoGc,          \* CLHT_DO_GC = 1
          FirstVersions, \* what the uninitialised version can be at first
          VersionMax,    \* (size_t) -1
          MaxPuts,       \* bound: how many puts the threads call
          MaxTables      \* bound: how many tables are ever created

ASSUME ResAssumption ==
  /\ Updaters \subseteq Threads /\ Readers \subseteq Threads
  /\ Keys \subseteq Nat \ {0} /\ NoKey \notin Keys
  /\ {Buckets, Entries, MaxPuts, MaxTables} \subseteq Nat \ {0}
  /\ {Tries, PercHalve} \subseteq Nat
  /\ DoGc \in BOOLEAN /\ VersionMax \in Nat
  /\ FirstVersions \subseteq 0 .. VersionMax - 2 * MaxTables

Null == 0                    \* no table, among the tables 1 .. MaxTables
Vals == 1 .. MaxPuts
NoVal == 0
Versions == 0 .. VersionMax

Idle == [op |-> "none", key |-> NoKey, val |-> NoVal]
Calls == {Idle}
           \cup [op : {"get", "remove"}, key : Keys, val : {NoVal}]
           \cup [op : {"put"}, key : Keys, val : Vals]
Cells == [key : Keys, val : Vals, valid : BOOLEAN]

VARIABLES tables,      \* the tables created so far, in that order
          ht,          \* h->ht
          oldest,      \* h->ht_oldest
          vmin,        \* h->version_min
          resize_lock, status_lock, gc_lock,
          list,        \* h->version_list
          ts,          \* ts[t]: the version that t announces to use
          call,        \* call[t]: the call in progress, with its arguments
          pc,          \* pc[t]: what t does next
          tab,         \* tab[t]: hashtable, ht_old or cur
          cell,        \* cell[t]: the cell that a put has claimed
          tries,       \* tries[t]: empty_retries
          left,        \* left[t]: the rest of version_list in a scan
          low,         \* low[t]: the least version seen by a scan
          puts,        \* how many puts have been called
          net,         \* history: successful puts less successful removes
          ret,         \* ret[t]: what the last call of t returned, 0 during one
          seen         \* history: what the key was mapped to in the call

heap == <<tables, ht, oldest, vmin>>
locks == <<resize_lock, status_lock, gc_lock>>
answers == <<call, ret, puts, net>>
scan == <<left, low>>
vars == <<heap, locks, list, ts, answers, pc, tab, cell, tries, scan, seen>>

Labels == {"off", "link", "idle", "announce", "search", "check", "read_ht",
           "commit", "remove", "status", "decide", "resize", "begin", "mark",
           "resize_min", "resize_scan", "copy", "swap", "table_new",
           "unlock", "gc", "gc_check", "gc_lock", "gc_min", "gc_scan",
           "gc_unlock", "gc_free", "leave"}

(* A table: a cell of it is numbered by its bucket and its slot, and a     *)
(* cell outside the domain of cells is free.                               *)
Size(n) == n * Entries
NewTable(n, ver, prev) ==
  [num |-> n, version |-> ver, cells |-> <<>>, new |-> Null, prev |-> prev,
   freed |-> FALSE]
Bin(v, k) ==
  LET b == k % tables[v].num IN Size(b) + 1 .. Size(b) + Entries
Used(v) == DOMAIN tables[v].cells
(* Mutant of Found: the search does not look at the map.                   *)
FoundUnchecked(v, k) ==
  {n \in Bin(v, k) \cap Used(v) : tables[v].cells[n].key = k}
Found(v, k) ==
  {n \in Bin(v, k) \cap Used(v) :
     tables[v].cells[n].valid /\ tables[v].cells[n].key = k}
Unused(v, k) == Bin(v, k) \ Used(v)
Lookup(v, k) ==
  IF Found(v, k) = {} THEN NoVal ELSE tables[v].cells[Min(Found(v, k))].val
Valid(v) == {n \in Used(v) : tables[v].cells[n].valid}

With(cells, n, c) == [m \in DOMAIN cells \cup {n} |-> IF m = n THEN c ELSE cells[m]]
Without(cells, n) == Restrict(cells, DOMAIN cells \ {n})
SetCells(v, cells) == tables' = [tables EXCEPT ![v].cells = cells]

(* The map that the table stands for, and its history.                     *)
Store == [k \in Keys |-> Lookup(IF ht = Null THEN Len(tables) ELSE ht, k)]

Observe ==
  seen' = [t \in Threads |-> IF call'[t] = Idle THEN {}
                             ELSE seen[t] \cup {Store'[call'[t].key]}]

(* The state is well typed.                                                *)
TypeOK ==
  /\ \A v \in 1 .. Len(tables) :
       /\ tables[v].version \in Versions
       /\ Used(v) \subseteq 1 .. Size(tables[v].num)
       /\ \A n \in Used(v) : tables[v].cells[n] \in Cells
       /\ {tables[v].new, tables[v].prev} \subseteq Null .. Len(tables)
  /\ Len(tables) \in 1 .. MaxTables
  /\ {ht, oldest} \subseteq Null .. Len(tables)
  /\ vmin \in Versions
  /\ {resize_lock, status_lock, gc_lock} \subseteq BOOLEAN
  /\ list \in Seq(Threads)
  /\ ts \in [Threads -> Versions]
  /\ call \in [Threads -> Calls]
  /\ pc \in [Threads -> Labels]
  /\ tab \in [Threads -> Null .. Len(tables)]
  /\ cell \in [Threads -> Nat]
  /\ tries \in [Threads -> 0 .. Tries]
  /\ left \in [Threads -> Seq(Threads)]
  /\ low \in [Threads -> Versions]
  /\ puts \in 0 .. MaxPuts /\ net \in Int
  /\ ret \in [Threads -> Vals \cup {0, 1}]
  /\ seen \in [Threads -> SUBSET (Vals \cup {NoVal})]

Init ==
  /\ \E ver \in FirstVersions : tables = <<NewTable(Buckets, ver, Null)>>
  /\ ht = 1 /\ oldest = 1 /\ vmin = 0
  /\ resize_lock = FALSE /\ status_lock = FALSE /\ gc_lock = FALSE
  /\ list = <<>>
  /\ ts = [t \in Threads |-> 0]
  /\ call = [t \in Threads |-> Idle]
  /\ pc = [t \in Threads |-> "off"]
  /\ tab = [t \in Threads |-> Null]
  /\ cell = [t \in Threads |-> 0]
  /\ tries = [t \in Threads |-> 0]
  /\ left = [t \in Threads |-> <<>>]
  /\ low = [t \in Threads |-> 0]
  /\ puts = 0 /\ net = 0
  /\ ret = [t \in Threads |-> 0]
  /\ seen = [t \in Threads |-> {}]

-----------------------------------------------------------------------------
(* Control.                                                                *)

At(t, label) == pc[t] = label
Goto(t, label) == pc' = [pc EXCEPT ![t] = label]
Announce(t, ver) == ts' = [ts EXCEPT ![t] = ver]
SetTab(t, v) == tab' = [tab EXCEPT ![t] = v]
Alive(t) == ~tables[tab[t]].freed

Answer(t, r) ==
  /\ call' = [call EXCEPT ![t] = Idle]
  /\ ret' = [ret EXCEPT ![t] = r]
  /\ SetTab(t, Null)
  /\ Goto(t, "idle")
  /\ UNCHANGED <<puts, scan>>

(* An update announces the highest version before it returns.              *)
Updated(t, r) ==
  /\ Answer(t, r)
  /\ Announce(t, VersionMax)
  /\ cell' = [cell EXCEPT ![t] = 0]
  /\ tries' = [tries EXCEPT ![t] = 0]
  /\ UNCHANGED <<ht, oldest, vmin, locks, list>>

(* clht_gc_thread_init: the version is read before the thread is linked.   *)
ThreadInit(t) ==
  /\ At(t, "off") /\ ht # Null
  /\ Announce(t, tables[ht].version)
  /\ Goto(t, "link")
  /\ UNCHANGED <<heap, locks, list, answers, tab, cell, tries, scan>>

ThreadLink(t) ==
  /\ At(t, "link")
  /\ list' = <<t>> \o list
  /\ Goto(t, "idle")
  /\ UNCHANGED <<heap, locks, ts, answers, tab, cell, tries, scan>>

(* The caller of clht_get reads h->ht to pass the table.                   *)
Get(t) ==
  /\ At(t, "idle") /\ ht # Null /\ t \in Readers
  /\ \E k \in Keys :
       call' = [call EXCEPT ![t] = [op |-> "get", key |-> k, val |-> NoVal]]
  /\ SetTab(t, ht)
  /\ Goto(t, "announce")
  /\ ret' = [ret EXCEPT ![t] = 0]
  /\ UNCHANGED <<heap, locks, list, ts, puts, net, cell, tries, scan>>

Put(t) ==
  /\ At(t, "idle") /\ ht # Null /\ t \in Updaters
  /\ puts < MaxPuts
  /\ puts' = puts + 1
  /\ \E k \in Keys :
       call' = [call EXCEPT ![t] = [op |-> "put", key |-> k, val |-> puts + 1]]
  /\ Goto(t, "check")
  /\ ret' = [ret EXCEPT ![t] = 0]
  /\ UNCHANGED <<heap, locks, list, ts, net, tab, cell, tries, scan>>

Remove(t) ==
  /\ At(t, "idle") /\ ht # Null /\ t \in Updaters
  /\ \E k \in Keys :
       call' = [call EXCEPT ![t] = [op |-> "remove", key |-> k, val |-> NoVal]]
  /\ Goto(t, "check")
  /\ ret' = [ret EXCEPT ![t] = 0]
  /\ UNCHANGED <<heap, locks, list, ts, puts, net, tab, cell, tries, scan>>

-----------------------------------------------------------------------------
(* clht_get, clht_put and clht_remove on the table they have read.         *)

GetAnnounce(t) ==
  /\ At(t, "announce") /\ Alive(t)
  /\ Announce(t, tables[tab[t]].version)
  /\ Goto(t, "search")
  /\ UNCHANGED <<heap, locks, list, answers, tab, cell, tries, scan>>

GetSearch(t) ==
  /\ At(t, "search") /\ call[t].op = "get" /\ Alive(t)
  /\ Answer(t, Lookup(tab[t], call[t].key))
  /\ UNCHANGED <<heap, locks, list, ts, net, cell, tries>>

(* Mutant of CheckResize: the spinning thread does not announce a version. *)
CheckResizeSilent(t) ==
  /\ At(t, "check") /\ ~resize_lock
  /\ Goto(t, "read_ht")
  /\ UNCHANGED <<heap, locks, list, ts, answers, tab, cell, tries, scan>>

(* CLHT_CHECK_RESIZE: spin, announcing the version, while a thread resizes.*)
CheckResize(t) ==
  /\ At(t, "check")
  /\ IF resize_lock
     THEN Announce(t, tables[ht].version) /\ UNCHANGED pc
     ELSE Goto(t, "read_ht") /\ UNCHANGED ts
  /\ UNCHANGED <<heap, locks, list, answers, tab, cell, tries, scan>>

ReadHt(t) ==
  /\ At(t, "read_ht")
  /\ SetTab(t, ht)
  /\ Goto(t, IF call[t].op = "put" THEN "search" ELSE "remove")
  /\ UNCHANGED <<heap, locks, list, ts, answers, cell, tries, scan>>

(* Mutant of NoEmptySlot: empty_retries is not reset.                      *)
NoEmptySlotNoReset(t) ==
  /\ tries' = [tries EXCEPT ![t] = tries[t] + 1]
  /\ Goto(t, IF tries[t] >= Tries THEN "status" ELSE "check")
  /\ UNCHANGED <<heap, locks, list, ts, answers, tab, cell, scan>>

(* A put that finds its bucket full starts over, and every so many times   *)
(* looks whether the table should grow.                                    *)
NoEmptySlot(t) ==
  /\ IF tries[t] >= Tries
     THEN tries' = [tries EXCEPT ![t] = 0] /\ Goto(t, "status")
     ELSE tries' = [tries EXCEPT ![t] = tries[t] + 1] /\ Goto(t, "check")
  /\ UNCHANGED <<heap, locks, list, ts, answers, tab, cell, scan>>

PutSearch(t) ==
  /\ At(t, "search") /\ call[t].op = "put" /\ Alive(t)
  /\ LET v == tab[t]
         k == call[t].key
         n == Min(Unused(v, k))
     IN
       \/ /\ Found(v, k) # {}
          /\ Updated(t, 0)
          /\ UNCHANGED <<tables, net>>
       \/ /\ Found(v, k) = {} /\ Unused(v, k) = {}
          /\ NoEmptySlot(t)
       \/ /\ Found(v, k) = {} /\ Unused(v, k) # {}
          /\ SetCells(v, With(tables[v].cells, n,
                        [key |-> k, val |-> call[t].val, valid |-> FALSE]))
          /\ cell' = [cell EXCEPT ![t] = n]
          /\ Goto(t, "commit")
          /\ UNCHANGED <<ht, oldest, vmin, locks, list, ts, answers, tab,
                         tries, scan>>

(* The commit fails if the key has been put meanwhile.                     *)
PutCommit(t) ==
  /\ At(t, "commit") /\ Alive(t)
  /\ LET v == tab[t]
         cells == tables[v].cells
     IN IF Found(v, call[t].key) = {}
        THEN /\ SetCells(v, [cells EXCEPT ![cell[t]].valid = TRUE])
             /\ net' = net + 1
             /\ Updated(t, 1)
        ELSE /\ SetCells(v, Without(cells, cell[t]))
             /\ net' = net
             /\ Updated(t, 0)

RemoveKey(t) ==
  /\ At(t, "remove") /\ Alive(t)
  /\ LET v == tab[t]
         found == Found(v, call[t].key)
     IN IF found = {}
        THEN Updated(t, 0) /\ UNCHANGED <<tables, net>>
        ELSE /\ SetCells(v, Without(tables[v].cells, Min(found)))
             /\ net' = net - 1
             /\ Updated(t, tables[v].cells[Min(found)].val)

-----------------------------------------------------------------------------
(* ht_status, called for an emergency increase.                            *)

Status(t) ==
  /\ At(t, "status")
  /\ status_lock' = TRUE
  /\ Goto(t, IF status_lock THEN "check" ELSE "decide")
  /\ UNCHANGED <<heap, resize_lock, gc_lock, list, ts, answers, tab, cell,
                 tries, scan>>

(* full_ratio > 0 && full_ratio < CLHT_PERC_FULL_HALVE: nothing is done.   *)
Sparse(v) ==
  LET size == Cardinality(Valid(v)) IN
    size > 0 /\ 100 * size < PercHalve * Size(tables[v].num)

Decide(t) ==
  /\ At(t, "decide")
  /\ Goto(t, IF Sparse(ht) \/ Len(tables) = MaxTables THEN "gc" ELSE "resize")
  /\ UNCHANGED <<heap, locks, list, ts, answers, tab, cell, tries, scan>>

Leave(t) ==
  /\ At(t, "leave")
  /\ status_lock' = FALSE
  /\ Goto(t, "check")
  /\ SetTab(t, Null)
  /\ UNCHANGED <<heap, resize_lock, gc_lock, list, ts, answers, cell, tries,
                 scan>>

-----------------------------------------------------------------------------
(* clht_gc_min_version_used: thread after thread of version_list.          *)

ScanStart(t, label) ==
  /\ low' = [low EXCEPT ![t] = tables[ht].version]
  /\ left' = [left EXCEPT ![t] = list]
  /\ Goto(t, label)

ScanNext(t) ==
  /\ left[t] # <<>>
  /\ low' = [low EXCEPT ![t] = Min({low[t], ts[Head(left[t])]})]
  /\ left' = [left EXCEPT ![t] = Tail(left[t])]
  /\ UNCHANGED <<heap, locks, list, ts, answers, pc, tab, cell, tries>>

-----------------------------------------------------------------------------
(* ht_resize_pes.                                                          *)

ResizeLock(t) ==
  /\ At(t, "resize")
  /\ resize_lock' = TRUE
  /\ Goto(t, IF resize_lock THEN "gc" ELSE "begin")
  /\ UNCHANGED <<heap, status_lock, gc_lock, list, ts, answers, tab, cell,
                 tries, scan>>

(* The new table is twice as large: full_ratio / CLHT_OCCUP_AFTER_RES is   *)
(* at most 2.                                                              *)
NewNum(n) == 2 * n

(* Mutant of NewVersion: the version that the old table has by now.        *)
NextVersion(cur_version) == cur_version + 1
NewVersion(cur_version) == cur_version + 2

(* Nobody can see the new table yet.                                       *)
ResizeBegin(t) ==
  /\ At(t, "begin")
  /\ tables' = Append([tables EXCEPT ![ht].version = @ + 1],
                      NewTable(NewNum(tables[ht].num), 0, Null))
  /\ SetTab(t, ht)
  /\ Goto(t, "mark")
  /\ UNCHANGED <<ht, oldest, vmin, locks, list, ts, answers, cell, tries, scan>>

ResizeMark(t) ==
  /\ At(t, "mark")
  /\ Announce(t, tables[tab[t]].version)
  /\ Goto(t, "resize_min")
  /\ UNCHANGED <<heap, locks, list, answers, tab, cell, tries, scan>>

ResizeMin(t) ==
  /\ At(t, "resize_min")
  /\ ScanStart(t, "resize_scan")
  /\ UNCHANGED <<heap, locks, list, ts, answers, tab, cell, tries>>

ResizeScan(t) == At(t, "resize_scan") /\ ScanNext(t)

(* cur_version >= version_min: look again, and again.                      *)
ResizeWait(t) ==
  /\ At(t, "resize_scan") /\ left[t] = <<>>
  /\ LET cur_version == tables[tab[t]].version - 1 IN
       IF cur_version >= low[t]
       THEN Goto(t, "resize_min") /\ UNCHANGED <<tables, cell>>
       ELSE /\ Goto(t, "copy")
            /\ tables' = [tables EXCEPT ![Len(tables)].version =
                            NewVersion(cur_version)]
            /\ cell' = [cell EXCEPT ![t] = 1]
  /\ UNCHANGED <<ht, oldest, vmin, locks, list, ts, answers, tab, tries, scan>>

LastCell(v) == Size(tables[v].num)

(* bucket_cpy and clht_put_seq, for one cell of the old table.             *)
CopyCell(t) ==
  /\ At(t, "copy")
  /\ LET n == cell[t]
         new == Len(tables)
     IN /\ IF n \in Valid(tab[t])
           THEN LET c == tables[tab[t]].cells[n]
                    unused == Unused(new, c.key)
                IN IF unused = {} THEN UNCHANGED tables
                   ELSE SetCells(new, With(tables[new].cells, Min(unused), c))
           ELSE UNCHANGED tables
        /\ IF n < LastCell(tab[t])
           THEN cell' = [cell EXCEPT ![t] = n + 1] /\ UNCHANGED pc
           ELSE cell' = [cell EXCEPT ![t] = 0] /\ Goto(t, "swap")
  /\ UNCHANGED <<ht, oldest, vmin, locks, list, ts, answers, tab, tries, scan>>

Swap(t) ==
  /\ At(t, "swap")
  /\ ht' = Len(tables)
  /\ tables' = [tables EXCEPT ![Len(tables)].prev = tab[t]]
  /\ Goto(t, "table_new")
  /\ UNCHANGED <<oldest, vmin, locks, list, ts, answers, tab, cell, tries, scan>>

TableNew(t) ==
  /\ At(t, "table_new")
  /\ tables' = [tables EXCEPT ![tab[t]].new = Len(tables)]
  /\ Goto(t, "unlock")
  /\ UNCHANGED <<ht, oldest, vmin, locks, list, ts, answers, tab, cell, tries,
                 scan>>

ResizeUnlock(t) ==
  /\ At(t, "unlock")
  /\ resize_lock' = FALSE
  /\ Goto(t, "gc")
  /\ UNCHANGED <<heap, status_lock, gc_lock, list, ts, answers, tab, cell,
                 tries, scan>>

-----------------------------------------------------------------------------
(* clht_gc_collect.                                                        *)

(* Mutant of Garbage: the least version in use is garbage, too.            *)
GarbageInclusive(v, version_min) == tables[v].version <= version_min
Garbage(v, version_min) == tables[v].version < version_min

Gc(t) ==
  /\ At(t, "gc")
  /\ IF DoGc THEN Announce(t, tables[ht].version) /\ Goto(t, "gc_check")
             ELSE UNCHANGED ts /\ Goto(t, "leave")
  /\ UNCHANGED <<heap, locks, list, answers, tab, cell, tries, scan>>

GcCheck(t) ==
  /\ At(t, "gc_check")
  /\ Goto(t, IF vmin >= tables[ht].version THEN "leave" ELSE "gc_lock")
  /\ UNCHANGED <<heap, locks, list, ts, answers, tab, cell, tries, scan>>

GcLock(t) ==
  /\ At(t, "gc_lock")
  /\ gc_lock' = TRUE
  /\ Goto(t, IF gc_lock THEN "leave" ELSE "gc_min")
  /\ UNCHANGED <<heap, resize_lock, status_lock, list, ts, answers, tab, cell,
                 tries, scan>>

GcMin(t) ==
  /\ At(t, "gc_min")
  /\ ScanStart(t, "gc_scan")
  /\ UNCHANGED <<heap, locks, list, ts, answers, tab, cell, tries>>

GcScan(t) == At(t, "gc_scan") /\ ScanNext(t)

GcOldest(t) ==
  /\ At(t, "gc_scan") /\ left[t] = <<>>
  /\ IF vmin >= low[t]
     THEN Goto(t, "gc_unlock") /\ UNCHANGED tab
     ELSE Goto(t, "gc_free") /\ SetTab(t, oldest)
  /\ UNCHANGED <<heap, locks, list, ts, answers, cell, tries, scan>>

GcFree(t) ==
  /\ At(t, "gc_free") /\ Garbage(tab[t], low[t])
  /\ LET nxt == tables[tab[t]].new IN
       /\ tables' = [tables EXCEPT ![nxt].prev = Null, ![tab[t]].freed = TRUE]
       /\ SetTab(t, nxt)
  /\ UNCHANGED <<ht, oldest, vmin, locks, list, ts, answers, pc, cell, tries,
                 scan>>

(* Mutant of GcDone: ht_oldest is not moved.                               *)
GcDoneStale(t) ==
  /\ At(t, "gc_free") /\ ~Garbage(tab[t], low[t])
  /\ vmin' = tables[tab[t]].version
  /\ Goto(t, "gc_unlock")
  /\ UNCHANGED <<tables, ht, oldest, locks, list, ts, answers, tab, cell, tries,
                 scan>>

GcDone(t) ==
  /\ At(t, "gc_free") /\ ~Garbage(tab[t], low[t])
  /\ vmin' = tables[tab[t]].version
  /\ oldest' = tab[t]
  /\ Goto(t, "gc_unlock")
  /\ UNCHANGED <<tables, ht, locks, list, ts, answers, tab, cell, tries, scan>>

GcUnlock(t) ==
  /\ At(t, "gc_unlock")
  /\ gc_lock' = FALSE
  /\ Goto(t, "leave")
  /\ UNCHANGED <<heap, resize_lock, status_lock, list, ts, answers, tab, cell,
                 tries, scan>>

(* The tables that a walk from table first along next meets: the least set *)
(* that has first, and with a table the next one.                          *)
Reached(first, next) ==
  {u \in 1 .. Len(tables) : \A S \in SUBSET (1 .. Len(tables)) :
     first \in S \cup {Null} /\ (\A v \in S : next[v] \in S \cup {Null}) => u \in S}

(* clht_gc_collect_all: the old tables from ht_oldest on, along table_new. *)
CollectAll ==
  LET old(v) == IF v # Null /\ Garbage(v, tables[ht].version) THEN v ELSE Null
  IN  IF vmin >= tables[ht].version THEN {}
      ELSE Reached(old(oldest), [v \in 1 .. Len(tables) |-> old(tables[v].new)])

(* clht_gc_destroy, when no thread uses the table any more.                *)
Destroy ==
  /\ ht # Null
  /\ \A t \in Threads : pc[t] \in {"off", "idle"}
  /\ tables' = [v \in 1 .. Len(tables) |->
                  [tables[v] EXCEPT !.freed = @ \/ v \in CollectAll \cup {ht}]]
  /\ ht' = Null
  /\ UNCHANGED <<oldest, vmin, locks, list, ts, answers, pc, tab, cell, tries,
                 scan>>

(* What clht_size_mem says of a table, and clht_size_mem_garbage of the    *)
(* tables that table_prev leads to, in bytes.                              *)
SizeMem(v) == 8 + 64 * tables[v].num
GarbageOf(h) ==
  Reached(tables[h].prev, [v \in 1 .. Len(tables) |-> tables[v].prev])
SizeMemGarbage(h) == MapThenSumSet(SizeMem, GarbageOf(h))

-----------------------------------------------------------------------------

Call(t) == ThreadInit(t) \/ Get(t) \/ Put(t) \/ Remove(t)

Work(t) ==
  \/ ThreadLink(t)
  \/ GetAnnounce(t) \/ GetSearch(t)
  \/ CheckResize(t) \/ ReadHt(t) \/ PutSearch(t) \/ PutCommit(t) \/ RemoveKey(t)
  \/ Status(t) \/ Decide(t) \/ Leave(t)
  \/ ResizeLock(t) \/ ResizeBegin(t) \/ ResizeMark(t) \/ ResizeMin(t)
  \/ ResizeScan(t) \/ ResizeWait(t) \/ CopyCell(t) \/ Swap(t) \/ TableNew(t)
  \/ ResizeUnlock(t)
  \/ Gc(t) \/ GcCheck(t) \/ GcLock(t) \/ GcMin(t) \/ GcScan(t) \/ GcOldest(t)
  \/ GcFree(t) \/ GcDone(t) \/ GcUnlock(t)

Next ==
  /\ Destroy \/ \E t \in Threads : Call(t) \/ Work(t)
  /\ Observe

Spec == Init /\ [][Next]_vars

(* The scheduler runs every thread.  Nobody is obliged to make a call.     *)
FairSpec == Spec /\ \A t \in Threads : WF_vars(Work(t) /\ Observe)
-----------------------------------------------------------------------------
(* What must hold.                                                         *)

(* Tables are linked from the oldest to the current one, in the order of   *)
(* their versions.  Only the resizer's old table can lack its link, in the *)
(* step between the swap and the assignment of table_new.                  *)
Linking(v) == \E t \in Threads : At(t, "table_new") /\ tab[t] = v

TablesLinked ==
  ht # Null =>
    \A v \in 1 .. ht - 1 :
      /\ tables[v].version < tables[v + 1].version
      /\ tables[v].new = IF Linking(v) THEN Null ELSE v + 1

(* What the collector frees next exists, was not freed before, and has its *)
(* link to the successor; table_prev of a live table never leads to a      *)
(* freed one.                                                              *)
CollectorSafe ==
  ht # Null =>
    /\ \A t \in Threads : At(t, "gc_free") =>
         /\ tab[t] # Null /\ Alive(t)
         /\ tables[tab[t]].version < low[t] => tables[tab[t]].new # Null
    /\ \A v \in 1 .. Len(tables) :
         LET p == tables[v].prev IN
           ~tables[v].freed /\ p # Null => ~tables[p].freed

(* Between collections exactly the tables before ht_oldest are freed, and  *)
(* clht_size_mem_garbage counts those between it and the current table;    *)
(* the destruction of the whole frees every table ever created.            *)
NoTableLost ==
  /\ (ht # Null /\ \A t \in Threads : ~At(t, "gc_free")) =>
       /\ \A v \in 1 .. Len(tables) : tables[v].freed <=> v < oldest
       /\ SizeMemGarbage(ht) = MapThenSumSet(SizeMem, oldest .. ht - 1)
  /\ ht = Null => \A v \in 1 .. Len(tables) : tables[v].freed

(* When no call is in progress the table has as many entries as puts have  *)
(* inserted and removes not removed (the assertion of bmarks/test_ro.c).   *)
SizeAccounts ==
  ht # Null /\ (\A t \in Threads : call[t] = Idle) =>
    Cardinality(Valid(ht)) = net

(* With a single thread that updates, resizes are invisible: every get     *)
(* answers what its key was mapped to at some moment of the call, though   *)
(* it may search a table that has been copied and replaced.                *)
Map == INSTANCE ClhtMap WITH store <- Store
ImplementsMap == Map!Spec

(* A call returns.                                                         *)
Returns(t) == call[t] # Idle ~> call[t] = Idle
CallsReturn == \A t \in Threads : Returns(t)

(* ... if threads without a call in progress announce the highest version. *)
IdleSilent == \A t \in Threads : pc[t] \in {"idle", "link"} => ts[t] = VersionMax
CallsReturnIfIdleSilent == <>[]IdleSilent => CallsReturn
=============================================================================
