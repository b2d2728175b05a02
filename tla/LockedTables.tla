---------------------------- MODULE LockedTables ----------------------------
(***************************************************************************)
(* What the two resizable tables without chains have in common             *)
(* (src/clht_lb_res_no_next.c and src/clht_lb_linked.c): every bucket has  *)
(* a lock that is free, or held for an update, or taken for a resize and   *)
(* then never freed; gets take no lock; status_lock and resize_lock are    *)
(* only tried.  The entries of a key are those of its bucket and of the    *)
(* next hops buckets, none in the first of the two tables.                 *)
(*                                                                         *)
(* One action is one access to shared memory that another thread can       *)
(* notice.  The acquisition of a lock is one step with what its holder     *)
(* reads, the last store under a lock is one step with its release.  The   *)
(* transactional locks (CLHT_USE_RTM) make some critical sections one      *)
(* step, which these steps in a row amount to.                             *)
(***************************************************************************)
EXTENDS Integers, Sequences, FiniteSets, FiniteSetsExt

CONSTANTS Threads,    \* the threads that use the table: all of them put
          Removers,   \* those of them that remove
          Readers,    \* those of them that get
          Keys,       \* keys: numbers, which the table hashes
          NoKey,      \* key 0, the content of a free entry
          Buckets,    \* num_buckets of the first table
          Extra,      \* buckets behind the last: CLHT_LINKED_MAX_EXPANSIONS_HARD
          Entries,    \* ENTRIES_PER_BUCKET
          MaxUpdates, \* bound: how many puts and removes the threads call
          MaxTables   \* bound: how many tables are ever created

ASSUME TablesAssumption ==
  /\ Removers \subseteq Threads /\ Readers \subseteq Threads
  /\ Keys \subseteq Nat \ {0} /\ NoKey \notin Keys
  /\ {Entries, MaxUpdates, MaxTables} \subseteq Nat \ {0}
  /\ Extra \in Nat
  /\ \E e \in 0 .. Buckets : Buckets = 2 ^ e  \* or the mask is no modulus

Null == 0                    \* no table, among the tables 1 .. MaxTables
Vals == 1 .. MaxUpdates
NoVal == 0
Idle == [op |-> "none", key |-> NoKey, val |-> NoVal]
Calls == {Idle}
           \cup [op : {"get", "remove"}, key : Keys, val : {NoVal}]
           \cup [op : {"put"}, key : Keys, val : Vals]
Unused == [key |-> NoKey, val |-> NoVal]
Cells == [key : Keys \cup {NoKey}, val : Vals \cup {NoVal}]

VARIABLES tables,       \* the tables created so far, in that order
          ht,           \* h->ht
          resize_lock, status_lock,
          call,         \* call[t]: the call whose answer is not decided yet
          pc,           \* pc[t]: what t does next
          tab,          \* tab[t]: hashtable, or ht_old in a resize
          hops,         \* hops[t]: the hops that t has read
          idx,          \* idx[t]: the entry, or the bucket, that t is at
          cur,          \* cur[t]: the value that a get has read
          wanted,       \* wanted[t]: num_buckets_new of a resize
          updates,      \* how many puts and removes have been called
          ret,          \* ret[t]: what the last call of t returned, 0 during one
          seen          \* history: what the key was mapped to in the call

heap == <<tables, ht, resize_lock, status_lock>>
answers == <<call, ret, updates>>
search == <<hops, cur>>
calls == <<heap, answers, search, pc, tab, idx, wanted, seen>>

NewTable(n) ==
  LET rows == 0 .. n + Extra - 1
  IN  [num |-> n,
       cells |-> [b \in rows |-> [j \in 1 .. Entries |-> Unused]],
       locks |-> [b \in rows |-> "free"],
       hops |-> [b \in rows |-> 0],
       expands |-> 0, before |-> n,      \* num_expands, num_buckets_prev
       prev |-> Null, new |-> Null, released |-> FALSE]

TablesInit ==
  /\ tables = <<NewTable(Buckets)>> /\ ht = 1
  /\ resize_lock = FALSE /\ status_lock = FALSE
  /\ call = [t \in Threads |-> Idle]
  /\ pc = [t \in Threads |-> "idle"]
  /\ tab = [t \in Threads |-> Null]
  /\ hops = [t \in Threads |-> 0] /\ idx = [t \in Threads |-> 0]
  /\ cur = [t \in Threads |-> NoVal] /\ wanted = [t \in Threads |-> 0]
  /\ updates = 0
  /\ ret = [t \in Threads |-> 0]
  /\ seen = [t \in Threads |-> {}]

TablesTypeOK(labels) ==
  /\ Len(tables) \in 1 .. MaxTables
  /\ \A v \in 1 .. Len(tables) : LET T == tables[v] IN
       /\ DOMAIN T.cells = 0 .. T.num + Extra - 1
       /\ \A b \in DOMAIN T.cells : T.cells[b] \in [1 .. Entries -> Cells]
       /\ T.locks \in [DOMAIN T.cells -> {"free", "update", "resize"}]
       /\ T.hops \in [DOMAIN T.cells -> Nat]
       /\ \A b \in 0 .. T.num - 1 : b + T.hops[b] \in DOMAIN T.cells
       /\ T.expands \in Nat /\ T.before \in Nat
       /\ {T.prev, T.new} \subseteq Null .. Len(tables)
       /\ T.released \in BOOLEAN
  /\ ht \in 1 .. Len(tables)
  /\ {resize_lock, status_lock} \subseteq BOOLEAN
  /\ call \in [Threads -> Calls]
  /\ pc \in [Threads -> labels]
  /\ tab \in [Threads -> Null .. Len(tables)]
  /\ {hops, idx, wanted} \subseteq [Threads -> Nat]
  /\ cur \in [Threads -> Vals \cup {NoVal}]
  /\ updates \in 0 .. MaxUpdates
  /\ ret \in [Threads -> Vals \cup {0, 1}]
  /\ seen \in [Threads -> SUBSET (Vals \cup {NoVal})]

-----------------------------------------------------------------------------
(* A place is a bucket and an entry of it.                                 *)

Bin(v, k) == k % tables[v].num
Place(b, i) == <<b + i \div Entries, 1 + (i % Entries)>>   \* the i-th from b on
Cell(v, p) == tables[v].cells[p[1]][p[2]]

(* The places of the given buckets with key k; the free ones for NoKey.    *)
Having(v, buckets, k) ==
  {p \in buckets \X (1 .. Entries) : Cell(v, p).key = k}
First(places) ==
  CHOOSE p \in places : \A q \in places :
    p[1] < q[1] \/ (p[1] = q[1] /\ p[2] <= q[2])

(* What a search finds that is not disturbed, and so the map.              *)
Reach(v, k) == Bin(v, k) .. Bin(v, k) + tables[v].hops[Bin(v, k)]
Lookup(v, k) ==
  LET found == Having(v, Reach(v, k), k)
  IN  IF found = {} THEN NoVal ELSE Cell(v, First(found)).val
Store == [k \in Keys |-> Lookup(ht, k)]

Observe ==
  seen' = [t \in Threads |-> IF call'[t] = Idle THEN {}
                             ELSE seen[t] \cup {Store'[call'[t].key]}]

Size(v) ==
  Cardinality({p \in (DOMAIN tables[v].cells) \X (1 .. Entries) :
                 Cell(v, p).key # NoKey})

SetKey(T, p, k) == [T EXCEPT !.cells[p[1]][p[2]].key = k]
SetVal(T, p, x) == [T EXCEPT !.cells[p[1]][p[2]].val = x]
SetLocks(T, buckets, l) ==
  [T EXCEPT !.locks = [b \in DOMAIN @ |-> IF b \in buckets THEN l ELSE @[b]]]
SetTable(v, T) == tables' = [tables EXCEPT ![v] = T]

Pow2RoundUp(x) == CHOOSE p \in {2 ^ e : e \in 0 .. x} :
                    x <= p /\ \A e \in 0 .. x : x <= 2 ^ e => p <= 2 ^ e

-----------------------------------------------------------------------------
(* Control.                                                                *)

At(t, label) == pc[t] = label
Goto(t, label) == pc' = [pc EXCEPT ![t] = label]
SetTab(t, v) == tab' = [tab EXCEPT ![t] = v]
SetHops(t, n) == hops' = [hops EXCEPT ![t] = n]
SetIdx(t, i) == idx' = [idx EXCEPT ![t] = i]
Read(t, x) == cur' = [cur EXCEPT ![t] = x]

(* The answer of t is decided; t goes on at label.                         *)
Decide(t, r, label) ==
  /\ call' = [call EXCEPT ![t] = Idle]
  /\ ret' = [ret EXCEPT ![t] = r]
  /\ Goto(t, label)
  /\ SetTab(t, Null) /\ SetHops(t, 0) /\ SetIdx(t, 0) /\ Read(t, NoVal)
  /\ UNCHANGED <<updates, wanted>>
Return(t, r) == Decide(t, r, "idle")

(* t has read h->ht, and the hops of the bucket of key k.  To read both    *)
(* where t reads the hops leaves out nothing: before that t has done       *)
(* nothing, and a table that is replaced does not change any more.         *)
Enter(t, k, label) ==
  /\ SetTab(t, ht) /\ SetHops(t, tables[ht].hops[Bin(ht, k)]) /\ SetIdx(t, 0)
  /\ Goto(t, label)

Begin(t, c, label) ==
  /\ At(t, "idle")
  /\ call' = [call EXCEPT ![t] = c]
  /\ Enter(t, c.key, label)
  /\ ret' = [ret EXCEPT ![t] = 0]
  /\ UNCHANGED <<heap, cur, wanted>>

Get(t) ==
  /\ t \in Readers
  /\ \E k \in Keys : Begin(t, [op |-> "get", key |-> k, val |-> NoVal], "get_val")
  /\ UNCHANGED updates

Put(t) ==
  /\ updates < MaxUpdates /\ updates' = updates + 1
  /\ \E k \in Keys : Begin(t, [op |-> "put", key |-> k, val |-> updates'], "exists")

Remove(t) ==
  /\ t \in Removers
  /\ updates < MaxUpdates /\ updates' = updates + 1
  /\ \E k \in Keys : Begin(t, [op |-> "remove", key |-> k, val |-> NoVal], "exists")

(* again: the update starts over.                                          *)
Again(t) ==
  /\ At(t, "again")
  /\ Enter(t, call[t].key, "exists")
  /\ UNCHANGED <<heap, answers, cur, wanted>>

-----------------------------------------------------------------------------
(* The searches without a lock.                                            *)

MyBin(t) == Bin(tab[t], call[t].key)
AtEnd(t) == idx[t] = (hops[t] + 1) * Entries
Entry(t) == Cell(tab[t], Place(MyBin(t), idx[t]))
Mine(t) == ~AtEnd(t) /\ Entry(t).key = call[t].key

(* Mutant of GetVal: the key is read for the value.                        *)
GetValOfKey(t) ==
  /\ At(t, "get_val")
  /\ \/ AtEnd(t) /\ Return(t, 0)
     \/ /\ ~AtEnd(t)
        /\ Read(t, Entry(t).key)
        /\ Goto(t, "get_key")
        /\ UNCHANGED <<answers, tab, hops, idx, wanted>>
  /\ UNCHANGED heap
GetVal(t) ==
  /\ At(t, "get_val")
  /\ \/ AtEnd(t) /\ Return(t, 0)
     \/ /\ ~AtEnd(t)
        /\ Read(t, Entry(t).val)
        /\ Goto(t, "get_key")
        /\ UNCHANGED <<answers, tab, hops, idx, wanted>>
  /\ UNCHANGED heap

(* The key is compared between the two reads of the value.                 *)
GetKey(t) ==
  /\ At(t, "get_key")
  /\ \/ Mine(t) /\ Goto(t, "get_again") /\ UNCHANGED <<idx, cur>>
     \/ /\ ~Mine(t)
        /\ Goto(t, "get_val") /\ SetIdx(t, idx[t] + 1) /\ Read(t, NoVal)
  /\ UNCHANGED <<heap, answers, tab, hops, wanted>>

(* Mutant of GetAgain: the value is not compared again.                    *)
GetAgainUnchecked(t) ==
  At(t, "get_again") /\ Return(t, cur[t]) /\ UNCHANGED heap
GetAgain(t) ==
  /\ At(t, "get_again")
  /\ Return(t, IF Entry(t).val = cur[t] THEN cur[t] ELSE 0)
  /\ UNCHANGED heap

(* bucket_exists: a put that finds its key has failed, and so has a remove *)
(* that does not; the others go on at label.                               *)
Exists(t, label) ==
  /\ At(t, "exists")
  /\ \/ /\ ~AtEnd(t) /\ ~Mine(t)
        /\ SetIdx(t, idx[t] + 1)
        /\ UNCHANGED <<answers, pc, tab, search, wanted>>
     \/ /\ AtEnd(t) \/ Mine(t)
        /\ Mine(t) <=> call[t].op = "put"
        /\ Return(t, 0)
     \/ /\ AtEnd(t) \/ Mine(t)
        /\ Mine(t) <=> call[t].op = "remove"
        /\ Goto(t, label) /\ SetIdx(t, 0)
        /\ UNCHANGED <<answers, tab, search, wanted>>
  /\ UNCHANGED heap

-----------------------------------------------------------------------------
(* ht_resize_pes.  h->ht is read before resize_lock is tried.              *)

(* The thread that gets resize_lock creates the new table, which nobody    *)
(* else can see before the swap; another gives up and goes on at label.    *)
ResizeLock(t, label) ==
  /\ At(t, "resize_lock")
  /\ resize_lock' = TRUE
  /\ IF resize_lock
     THEN Goto(t, label) /\ UNCHANGED tables
     ELSE /\ Len(tables) < MaxTables
          /\ tables' = Append(tables, [NewTable(wanted[t]) EXCEPT
                                         !.before = tables[tab[t]].num])
          /\ Goto(t, "copy")
  /\ SetIdx(t, 0) /\ wanted' = [wanted EXCEPT ![t] = 0]
  /\ UNCHANGED <<ht, status_lock, answers, tab, search>>

New == Len(tables)

(* clht_put_seq: the free entries for key k, of which it takes the first.  *)
(* Without extra buckets it looks in the bucket of k alone.                *)
RoomFor(T, k) ==
  LET b == k % T.num
  IN  {p \in (IF Extra = 0 THEN {b} ELSE b .. T.num + Extra - 1)
                \X (1 .. Entries) :
         T.cells[p[1]][p[2]].key = NoKey}
(* Mutant of PutSeq: the hops of the bucket stay what they were.           *)
PutSeqSameHops(T, c) ==
  LET p == First(RoomFor(T, c.key))
  IN  SetKey(SetVal(T, p, c.val), p, c.key)
PutSeq(T, c) ==
  LET b == c.key % T.num
      p == First(RoomFor(T, c.key))
      far == Max({T.hops[b], p[1] - b})
  IN  [SetKey(SetVal(T, p, c.val), p, c.key)
         EXCEPT !.hops[b] = far, !.expands = @ + far - T.hops[b]]

(* bucket_cpy: table T with the entries of a bucket.  One that has no room *)
(* is lost in clht_lb_res_no_next.c, where the result of clht_put_seq is   *)
(* ignored; in clht_lb_linked.c the search for room then runs on past the  *)
(* last bucket, and what the program does is not modelled.                 *)
EntryCpy(T, c) ==
  IF c.key = NoKey \/ RoomFor(T, c.key) = {} THEN T ELSE PutSeq(T, c)
BucketCpy(T, bucket) ==
  LET copied[j \in 0 .. Entries] ==
        IF j = 0 THEN T ELSE EntryCpy(copied[j - 1], bucket[j])
  IN  copied[Entries]

(* The lock of the next bucket is taken for ever and the bucket copied; a  *)
(* bucket that is taken already is left out.  Only updates change buckets, *)
(* so this is one step.                                                    *)
Copy(t) ==
  LET old == tables[tab[t]]
      lock == old.locks[idx[t]] IN
  /\ At(t, "copy") /\ idx[t] \in DOMAIN old.cells
  /\ lock # "update"
  /\ tables' = IF lock = "resize" THEN tables
               ELSE [tables EXCEPT
                       ![tab[t]] = SetLocks(old, {idx[t]}, "resize"),
                       ![New] = BucketCpy(tables[New], old.cells[idx[t]])]
  /\ SetIdx(t, idx[t] + 1)
  /\ UNCHANGED <<ht, resize_lock, status_lock, answers, pc, tab, search, wanted>>

(* The new table becomes the current one, and only then the successor that *)
(* updates wait for.                                                       *)
Swap(t) ==
  /\ At(t, "copy") /\ idx[t] \notin DOMAIN tables[tab[t]].cells
  /\ tables' = [tables EXCEPT ![New].prev = tab[t]]
  /\ ht' = New
  /\ Goto(t, "table_new") /\ SetIdx(t, 0)
  /\ UNCHANGED <<resize_lock, status_lock, answers, tab, search, wanted>>

(* release: clht_gc_release hands the old table to the allocator.          *)
TableNew(t, release, label) ==
  /\ At(t, "table_new")
  /\ tables' = [tables EXCEPT ![tab[t]].new = New,
                              ![tab[t]].released = release]
  /\ resize_lock' = FALSE
  /\ Goto(t, label)
  /\ UNCHANGED <<ht, status_lock, answers, tab, search, idx, wanted>>

StatusUnlock(t, label) ==
  /\ At(t, "status_unlock")
  /\ status_lock' = FALSE
  /\ Goto(t, label)
  /\ UNCHANGED <<tables, ht, resize_lock, answers, tab, search, idx, wanted>>
=============================================================================
