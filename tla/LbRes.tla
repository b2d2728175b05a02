-------------------------------- MODULE LbRes --------------------------------
(***************************************************************************)
(* The default, lock-based table (src/clht_lb_res.c, with the settings of  *)
(* clht_lb_res.h): one mutex for all updates of a table, gets and the      *)
(* first search of an update without it, chains of buckets, and a resize   *)
(* that takes the locks of the buckets instead of the mutex.               *)
(*                                                                         *)
(* One action is one access to shared memory that others can notice.       *)
(* Under the mutex the keys of a table stand still, so a whole search is a *)
(* single step there.  A call ends, for call and ret, with the step that   *)
(* decides its answer; the thread goes on to unlock, and perhaps to        *)
(* resize, before its next call.                                           *)
(***************************************************************************)
EXTENDS Integers, Sequences, FiniteSets, FiniteSetsExt

CONSTANTS Threads,    \* the threads that use the table
          Putters,    \* those of them that put
          Removers,   \* those of them that remove
          Readers,    \* those of them that get
          Keys,       \* keys: numbers, which the table hashes
          NoKey,      \* key 0, the content of a free entry
          NoThread,   \* the owner of a free mutex
          Buckets,    \* num_buckets of the first table
          Entries,    \* ENTRIES_PER_BUCKET
          PercHalve,  \* CLHT_PERC_FULL_HALVE
          Occup,      \* CLHT_OCCUP_AFTER_RES
          MaxUpdates, \* bound: how many puts and removes the threads call
          MaxTables   \* bound: how many tables are ever created

ASSUME LbAssumption ==
  /\ Putters \subseteq Threads /\ Removers \subseteq Threads
  /\ Readers \subseteq Threads
  /\ NoThread \notin Threads
  /\ Keys \subseteq Nat \ {0} /\ NoKey \notin Keys
  /\ {Buckets, Entries, Occup, MaxUpdates, MaxTables} \subseteq Nat \ {0}
  /\ PercHalve \in Nat

Null == 0                    \* no table, among the tables 1 .. MaxTables
Vals == 1 .. MaxUpdates
NoVal == 0
Idle == [op |-> "none", key |-> NoKey, val |-> NoVal]
Calls == {Idle}
           \cup [op : {"get", "remove"}, key : Keys, val : {NoVal}]
           \cup [op : {"put"}, key : Keys, val : Vals]
Unused == [key |-> NoKey, val |-> NoVal]
Cells == [key : Keys \cup {NoKey}, val : Vals \cup {NoVal}]
Labels == {"idle", "get_val", "get_key", "exists", "lock",
           "write_key", "unlock", "status", "ht_old",
           "resize_lock", "copy_lock", "copy_key", "copy_val", "swap",
           "resize_unlock"}
Critical == {"write_key", "unlock"}

VARIABLES tables,       \* the tables created so far, in that order
          ht,           \* h->ht
          resize_lock,
          call,         \* call[t]: the call whose answer is not decided yet
          pc,           \* pc[t]: what t does next
          tab,          \* tab[t]: hashtable, or ht_old in a resize
          bin,          \* bin[t]: the bucket that t copies
          idx,          \* idx[t]: the entry of its chain that t is at
          copied,       \* copied[t]: the key that t copies
          cur,          \* cur[t]: the value that a get has read
          resize,       \* resize[t]: t has reached num_expands_threshold
          by,           \* by[t]: the factor to resize by
          updates,      \* how many puts and removes have been called
          net,          \* history: successful puts less successful removes
          raced,        \* history: an update changed a bucket being copied
          ret,          \* ret[t]: what the last call of t returned, 0 during one
          seen          \* history: what the key was mapped to in the call

heap == <<tables, ht, resize_lock>>
answers == <<call, ret, updates>>
history == <<net, raced>>
copy == <<bin, copied, by>>
vars == <<heap, answers, history, pc, tab, idx, cur, resize, copy, seen>>

(* A table: chain[b] holds the entries of bucket b and of those linked to  *)
(* it; marked are the buckets that a resizer has locked, for ever.         *)
NewTable(n) ==
  [num |-> n, chain |-> [b \in 0 .. n - 1 |-> [i \in 1 .. Entries |-> Unused]],
   mutex |-> NoThread, expands |-> 0, marked |-> {}, prev |-> Null,
   released |-> FALSE]
Threshold(v) == tables[v].num
Bin(v, k) == k % tables[v].num
Chain(v, k) == tables[v].chain[Bin(v, k)]

(* The entries of a chain with key k; with NoKey, those that are free.     *)
Having(chain, k) == {i \in DOMAIN chain : chain[i].key = k}
Lookup(v, k) ==
  LET found == Having(Chain(v, k), k)
  IN  IF found = {} THEN NoVal ELSE Chain(v, k)[Min(found)].val
Size(v) ==
  LET chain == tables[v].chain
  IN  Cardinality(UNION {{b} \X (DOMAIN chain[b] \ Having(chain[b], NoKey)) :
                           b \in DOMAIN chain})

(* A new bucket with one entry is linked to the chain.                     *)
Linked(chain, c) ==
  chain \o [i \in 1 .. Entries |-> IF i = 1 THEN c ELSE Unused]
SetChain(v, k, chain) == [tables EXCEPT ![v].chain[Bin(v, k)] = chain]

(* The map that the table stands for, and its history.                     *)
Store == [k \in Keys |-> Lookup(ht, k)]

Observe ==
  seen' = [t \in Threads |-> IF call'[t] = Idle THEN {}
                             ELSE seen[t] \cup {Store'[call'[t].key]}]

TypeOK ==
  /\ Len(tables) \in 1 .. MaxTables
  /\ \A v \in 1 .. Len(tables) :
       /\ DOMAIN tables[v].chain = 0 .. tables[v].num - 1
       /\ \A b \in DOMAIN tables[v].chain : tables[v].chain[b] \in Seq(Cells)
       /\ tables[v].mutex \in Threads \cup {NoThread}
       /\ tables[v].expands \in Nat
       /\ tables[v].marked \subseteq DOMAIN tables[v].chain
       /\ tables[v].prev \in Null .. v - 1
       /\ tables[v].released \in BOOLEAN
  /\ ht \in 1 .. Len(tables)
  /\ resize_lock \in BOOLEAN
  /\ call \in [Threads -> Calls]
  /\ pc \in [Threads -> Labels]
  /\ tab \in [Threads -> Null .. Len(tables)]
  /\ {bin, idx, by} \subseteq [Threads -> Nat]
  /\ copied \in [Threads -> Keys \cup {NoKey}]
  /\ cur \in [Threads -> Vals \cup {NoVal}]
  /\ resize \in [Threads -> BOOLEAN]
  /\ updates \in 0 .. MaxUpdates /\ net \in Int /\ raced \in BOOLEAN
  /\ ret \in [Threads -> Vals \cup {0, 1}]
  /\ seen \in [Threads -> SUBSET (Vals \cup {NoVal})]

Init ==
  /\ tables = <<NewTable(Buckets)>> /\ ht = 1 /\ resize_lock = FALSE
  /\ call = [t \in Threads |-> Idle]
  /\ pc = [t \in Threads |-> "idle"]
  /\ tab = [t \in Threads |-> Null]
  /\ bin = [t \in Threads |-> 0]
  /\ idx = [t \in Threads |-> 0]
  /\ copied = [t \in Threads |-> NoKey]
  /\ cur = [t \in Threads |-> NoVal]
  /\ resize = [t \in Threads |-> FALSE]
  /\ by = [t \in Threads |-> 0]
  /\ updates = 0 /\ net = 0 /\ raced = FALSE
  /\ ret = [t \in Threads |-> 0]
  /\ seen = [t \in Threads |-> {}]

-----------------------------------------------------------------------------
(* Control.                                                                *)

At(t, label) == pc[t] = label
Goto(t, label) == pc' = [pc EXCEPT ![t] = label]
SetTab(t, v) == tab' = [tab EXCEPT ![t] = v]
SetIdx(t, i) == idx' = [idx EXCEPT ![t] = i]

Decide(t, r) ==
  /\ call' = [call EXCEPT ![t] = Idle]
  /\ ret' = [ret EXCEPT ![t] = r]
  /\ UNCHANGED updates

(* An answer found without the mutex: the call returns at once.            *)
Return(t, r) ==
  /\ Decide(t, r)
  /\ Goto(t, "idle") /\ SetTab(t, Null) /\ SetIdx(t, 0)
  /\ cur' = [cur EXCEPT ![t] = NoVal]
  /\ UNCHANGED <<heap, history, resize, copy>>

(* An answer found under the mutex, which is released next.                *)
Conclude(t, r) ==
  /\ Decide(t, r)
  /\ Goto(t, "unlock") /\ SetIdx(t, 0)
  /\ cur' = [cur EXCEPT ![t] = NoVal]
  /\ UNCHANGED <<ht, resize_lock, tab, copy>>

(* An update of the map; a resizer that has locked the bucket before does  *)
(* not notice it.                                                          *)
Account(t, d) ==
  /\ net' = net + d
  /\ raced' = (raced \/ Bin(tab[t], call[t].key) \in tables[tab[t]].marked)

-----------------------------------------------------------------------------
(* The calls: each reads h->ht first.                                      *)

Begin(t, c, label) ==
  /\ At(t, "idle")
  /\ call' = [call EXCEPT ![t] = c]
  /\ SetTab(t, ht) /\ SetIdx(t, 1)
  /\ Goto(t, label)
  /\ ret' = [ret EXCEPT ![t] = 0]
  /\ UNCHANGED <<heap, history, cur, resize, copy>>

Get(t) ==
  /\ t \in Readers
  /\ \E k \in Keys : Begin(t, [op |-> "get", key |-> k, val |-> NoVal], "get_val")
  /\ UNCHANGED updates

Put(t) ==
  /\ t \in Putters
  /\ updates < MaxUpdates /\ updates' = updates + 1
  /\ \E k \in Keys : Begin(t, [op |-> "put", key |-> k, val |-> updates + 1], "exists")

Remove(t) ==
  /\ t \in Removers
  /\ \E k \in Keys : Begin(t, [op |-> "remove", key |-> k, val |-> NoVal], "exists")
  /\ updates < MaxUpdates /\ updates' = updates + 1

(* The entry that t is at, and whether it is past the last one.            *)
MyChain(t) == Chain(tab[t], call[t].key)
AtEnd(t) == idx[t] \notin DOMAIN MyChain(t)
Entry(t) == MyChain(t)[idx[t]]

GetVal(t) ==
  /\ At(t, "get_val")
  /\ \/ AtEnd(t) /\ Return(t, 0)
     \/ /\ ~AtEnd(t)
        /\ cur' = [cur EXCEPT ![t] = Entry(t).val]
        /\ Goto(t, "get_key")
        /\ UNCHANGED <<heap, answers, history, tab, idx, resize, copy>>

GetKey(t) ==
  /\ At(t, "get_key")
  /\ IF Entry(t).key = call[t].key
     THEN Goto(t, "lock") /\ UNCHANGED <<idx, cur>>
     ELSE /\ Goto(t, "get_val") /\ SetIdx(t, idx[t] + 1)
          /\ cur' = [cur EXCEPT ![t] = NoVal]
  /\ UNCHANGED <<heap, answers, history, tab, resize, copy>>

(* bucket_exists: a put that finds its key has failed, and so has a remove *)
(* that does not find it; otherwise the update asks for the mutex.         *)
Exists(t) ==
  /\ At(t, "exists")
  /\ LET found == ~AtEnd(t) /\ Entry(t).key = call[t].key
         searching == ~AtEnd(t) /\ ~found
     IN  \/ /\ searching
            /\ SetIdx(t, idx[t] + 1)
            /\ UNCHANGED <<heap, answers, history, pc, tab, cur, resize, copy>>
         \/ /\ ~searching /\ (found <=> call[t].op = "put")
            /\ Return(t, 0)
         \/ /\ ~searching /\ (found <=> call[t].op = "remove")
            /\ Goto(t, "lock") /\ SetIdx(t, 0)
            /\ UNCHANGED <<heap, answers, history, tab, cur, resize, copy>>

-----------------------------------------------------------------------------
(* With the mutex of the table.                                            *)

(* The thread waits at "lock" until the mutex is free.  What it searches   *)
(* and reads then stands still, so the acquisition is one step with the    *)
(* search and with the first write.                                        *)
CanLock(t) == At(t, "lock") /\ tables[tab[t]].mutex = NoThread
Locked(t, chain) ==
  [tables EXCEPT ![tab[t]].mutex = t,
                 ![tab[t]].chain[Bin(tab[t], call[t].key)] = chain]

(* Mutant of GetAgain: the value is not compared again.                    *)
GetAgainUnchecked(t) ==
  /\ CanLock(t) /\ call[t].op = "get"
  /\ tables' = Locked(t, MyChain(t))
  /\ Conclude(t, Entry(t).val)
  /\ UNCHANGED <<history, resize>>

(* The entry must still have the value that was read before its key.       *)
GetAgain(t) ==
  /\ CanLock(t) /\ call[t].op = "get"
  /\ tables' = Locked(t, MyChain(t))
  /\ Conclude(t, IF Entry(t).val = cur[t] THEN cur[t] ELSE 0)
  /\ UNCHANGED <<history, resize>>

(* Mutant of Triggers: every bucket beyond the threshold asks for a resize.*)
TriggersAgain(v) == tables[v].expands + 1 >= Threshold(v)
Triggers(v) == tables[v].expands + 1 = Threshold(v)

(* clht_put: the key is there meanwhile, or there is no free entry and a   *)
(* bucket is linked, or the first free entry gets the value.               *)
PutLocked(t) ==
  /\ CanLock(t) /\ call[t].op = "put"
  /\ LET chain == MyChain(t)
         free == Having(chain, NoKey)
         found == Having(chain, call[t].key) # {}
     IN
       \/ /\ found
          /\ tables' = Locked(t, chain)
          /\ Conclude(t, 0)
          /\ UNCHANGED <<history, resize>>
       \/ /\ ~found /\ free = {}
          /\ tables' = [Locked(t, Linked(chain, [key |-> call[t].key,
                                                val |-> call[t].val]))
                          EXCEPT ![tab[t]].expands = @ + 1]
          /\ resize' = [resize EXCEPT ![t] = Triggers(tab[t])]
          /\ Account(t, 1)
          /\ Conclude(t, 1)
       \/ /\ ~found /\ free # {}
          /\ tables' = Locked(t, [chain EXCEPT ![Min(free)].val = call[t].val])
          /\ SetIdx(t, Min(free))
          /\ Goto(t, "write_key")
          /\ UNCHANGED <<ht, resize_lock, answers, history, tab, cur, resize,
                         copy>>

WriteKey(t) ==
  /\ At(t, "write_key")
  /\ tables' = SetChain(tab[t], call[t].key,
                        [MyChain(t) EXCEPT ![idx[t]].key = call[t].key])
  /\ Account(t, 1)
  /\ Conclude(t, 1)
  /\ UNCHANGED resize

RemoveLocked(t) ==
  /\ CanLock(t) /\ call[t].op = "remove"
  /\ LET chain == MyChain(t)
         found == Having(chain, call[t].key)
         i == Min(found)
     IN  IF found = {}
         THEN /\ tables' = Locked(t, chain)
              /\ Conclude(t, 0)
              /\ UNCHANGED history
         ELSE /\ tables' = Locked(t, [chain EXCEPT ![i].key = NoKey])
              /\ Account(t, -1)
              /\ Conclude(t, chain[i].val)
  /\ UNCHANGED resize

(* Mutant of Freed: a call that has failed returns with the mutex.         *)
FreedSuccess(t) ==
  IF ret[t] = 0 THEN tables
  ELSE [tables EXCEPT ![tab[t]].mutex = NoThread]
Freed(t) == [tables EXCEPT ![tab[t]].mutex = NoThread]

Unlock(t) ==
  /\ At(t, "unlock")
  /\ tables' = Freed(t)
  /\ SetTab(t, Null)
  /\ Goto(t, IF resize[t] THEN "status" ELSE "idle")
  /\ UNCHANGED <<ht, resize_lock, answers, history, idx, cur, resize, copy>>

-----------------------------------------------------------------------------
(* ht_status, with resize_increase: status_lock keeps nobody out then.     *)

Pow2RoundUp(x) == CHOOSE p \in {2 ^ e : e \in 0 .. x} :
                    x <= p /\ \A e \in 0 .. x : x <= 2 ^ e => p <= 2 ^ e

(* full_ratio is below CLHT_PERC_FULL_HALVE: nothing is done.              *)
Sparse(v) ==
  Size(v) > 0 /\ 100 * Size(v) < PercHalve * tables[v].num * Entries
IncBy(v) == (100 * Size(v)) \div (tables[v].num * Entries * Occup)

Status(t) ==
  /\ At(t, "status")
  /\ resize' = [resize EXCEPT ![t] = FALSE]
  /\ IF Sparse(ht) \/ Len(tables) = MaxTables
     THEN Goto(t, "idle") /\ UNCHANGED by
     ELSE /\ Goto(t, "ht_old")
          /\ by' = [by EXCEPT ![t] = Max({2, Pow2RoundUp(IncBy(ht))})]
  /\ UNCHANGED <<heap, answers, history, tab, idx, cur, bin, copied>>

-----------------------------------------------------------------------------
(* ht_resize_pes.                                                          *)

ReadOld(t) ==
  /\ At(t, "ht_old")
  /\ SetTab(t, ht)
  /\ Goto(t, "resize_lock")
  /\ UNCHANGED <<heap, answers, history, idx, cur, resize, copy>>

(* The thread that gets resize_lock creates the new table, which nobody    *)
(* else can see before the swap; another gives up.                         *)
ResizeLock(t) ==
  /\ At(t, "resize_lock")
  /\ resize_lock' = TRUE
  /\ by' = [by EXCEPT ![t] = 0]
  /\ IF resize_lock \/ Len(tables) = MaxTables
     THEN Goto(t, "idle") /\ SetTab(t, Null) /\ UNCHANGED tables
     ELSE /\ tables' = Append(tables, NewTable(by[t] * tables[tab[t]].num))
          /\ Goto(t, "copy_lock")
          /\ UNCHANGED tab
  /\ UNCHANGED <<ht, answers, history, idx, cur, resize, bin, copied>>

New == Len(tables)

(* Mutant of BinsLeft: one bucket beyond the table.                        *)
BinsLeftOrOne(t) == bin[t] <= tables[tab[t]].num
BinsLeft(t) == bin[t] < tables[tab[t]].num

(* bucket_cpy: a bucket that is locked for a resize already is left out.   *)
CopyLock(t) ==
  /\ At(t, "copy_lock") /\ BinsLeft(t)
  /\ IF bin[t] \in tables[tab[t]].marked
     THEN bin' = [bin EXCEPT ![t] = @ + 1] /\ UNCHANGED <<tables, pc, idx>>
     ELSE /\ tables' = [tables EXCEPT ![tab[t]].marked = @ \cup {bin[t]}]
          /\ Goto(t, "copy_key") /\ SetIdx(t, 1)
          /\ UNCHANGED bin
  /\ UNCHANGED <<ht, resize_lock, answers, history, tab, cur, resize, copied, by>>

CopyKey(t) ==
  LET chain == tables[tab[t]].chain[bin[t]] IN
  /\ At(t, "copy_key")
  /\ \/ /\ idx[t] \notin DOMAIN chain
        /\ bin' = [bin EXCEPT ![t] = @ + 1]
        /\ SetIdx(t, 0) /\ Goto(t, "copy_lock")
        /\ UNCHANGED copied
     \/ /\ idx[t] \in DOMAIN chain /\ chain[idx[t]].key = NoKey
        /\ SetIdx(t, idx[t] + 1)
        /\ UNCHANGED <<pc, bin, copied>>
     \/ /\ idx[t] \in DOMAIN chain /\ chain[idx[t]].key # NoKey
        /\ copied' = [copied EXCEPT ![t] = chain[idx[t]].key]
        /\ Goto(t, "copy_val")
        /\ UNCHANGED <<idx, bin>>
  /\ UNCHANGED <<heap, answers, history, tab, cur, resize, by>>

(* clht_put_seq: a bucket that it links counts, but triggers nothing.      *)
CopyVal(t) ==
  /\ At(t, "copy_val")
  /\ LET k == copied[t]
         c == [key |-> k, val |-> tables[tab[t]].chain[bin[t]][idx[t]].val]
         chain == Chain(New, k)
         free == Having(chain, NoKey)
     IN  tables' = IF free # {}
                   THEN SetChain(New, k, [chain EXCEPT ![Min(free)] = c])
                   ELSE [SetChain(New, k, Linked(chain, c))
                           EXCEPT ![New].expands = @ + 1]
  /\ copied' = [copied EXCEPT ![t] = NoKey]
  /\ SetIdx(t, idx[t] + 1) /\ Goto(t, "copy_key")
  /\ UNCHANGED <<ht, resize_lock, answers, history, tab, cur, resize, bin, by>>

(* The new table may need a resize itself.                                 *)
Swap(t) ==
  /\ At(t, "copy_lock") /\ ~BinsLeft(t)
  /\ tables' = [tables EXCEPT ![New].prev = tab[t]]
  /\ resize' = [resize EXCEPT ![t] = tables[New].expands >= Threshold(New)]
  /\ ht' = New
  /\ bin' = [bin EXCEPT ![t] = 0]
  /\ Goto(t, "resize_unlock")
  /\ UNCHANGED <<resize_lock, answers, history, tab, idx, cur, copied, by>>

(* clht_gc_release hands a table with its chains to the allocator.         *)
Released(v) == [tables EXCEPT ![v].released = TRUE]

ResizeUnlock(t) ==
  /\ At(t, "resize_unlock")
  /\ resize_lock' = FALSE
  /\ tables' = Released(tab[t])
  /\ SetTab(t, Null)
  /\ Goto(t, IF resize[t] THEN "status" ELSE "idle")
  /\ UNCHANGED <<ht, answers, history, idx, cur, resize, copy>>

-----------------------------------------------------------------------------

Next ==
  /\ \E t \in Threads :
       \/ Get(t) \/ Put(t) \/ Remove(t)
       \/ GetVal(t) \/ GetKey(t) \/ Exists(t)
       \/ GetAgain(t) \/ PutLocked(t) \/ WriteKey(t) \/ RemoveLocked(t)
       \/ Unlock(t)
       \/ Status(t) \/ ReadOld(t) \/ ResizeLock(t) \/ CopyLock(t) \/ CopyKey(t)
       \/ CopyVal(t) \/ Swap(t) \/ ResizeUnlock(t)
  /\ Observe

Spec == Init /\ [][Next]_vars
-----------------------------------------------------------------------------
(* What must hold.                                                         *)

(* The mutex of a table belongs to the thread between its lock and unlock, *)
(* and is never left behind by a call that returns (clht_put, clht_remove  *)
(* and clht_get unlock on every path).                                     *)
LockDiscipline ==
  \A v \in 1 .. Len(tables), t \in Threads :
    tables[v].mutex = t <=> tab[t] = v /\ pc[t] \in Critical

(* Each table is copied into one successor only, and nothing current is    *)
(* released: ht_resize_pes reads ht_old before it takes resize_lock, and   *)
(* only the equality in clht_bucket_create_stats keeps a second thread     *)
(* from waiting there with a table that is copied and replaced meanwhile.  *)
ResizedOnce ==
  /\ \A v \in 2 .. ht - 1 : tables[v].prev = v - 1
  /\ ht > 1 => tables[ht].prev = ht - 1
  /\ \A v \in 1 .. Len(tables) : tables[v].released => v < ht

(* As long as no update changes a bucket that a resizer has locked, every  *)
(* call takes effect at one moment, and resizes are invisible.             *)
Map == INSTANCE ClhtMap WITH store <- Store
ImplementsMapUnlessRaced == Map!Init /\ [][raced' \/ Map!Next]_(Map!vars)

(* When no thread is in a call the table has as many entries as puts have  *)
(* inserted and removes not removed (the assertion of bmarks/test_ro.c).   *)
SizeAccounts ==
  (\A t \in Threads : At(t, "idle")) => Size(ht) = net
=============================================================================
