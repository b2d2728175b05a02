------------------------------ MODULE LbNoNext ------------------------------
(***************************************************************************)
(* The lock-based table whose buckets are never linked                     *)
(* (src/clht_lb_res_no_next.c): a put that finds its bucket full has the   *)
(* table resized and starts over.                                          *)
(*                                                                         *)
(* The build decides whether a thread that waits for a resize helps with   *)
(* it (CLHT_HELP_RESIZE, 0 in clht_lb_res.h): a resizer copies from the    *)
(* first bucket on, one helper from the last one down, until they meet.    *)
(***************************************************************************)
EXTENDS LockedTables

CONSTANT Builds   \* the values of CLHT_HELP_RESIZE, a set of Booleans

ASSUME NoExtra == Extra = 0
ASSUME BuildsAssumption == Builds \subseteq BOOLEAN

VARIABLES help,        \* CLHT_HELP_RESIZE, which never changes
          is_helper,   \* is_helper of each table: 1 until somebody helps
          helper_done  \* the tables whose helper has done its part

helping == <<help, is_helper, helper_done>>
vars == <<calls, helping>>
Init ==
  /\ TablesInit
  /\ help \in Builds
  /\ is_helper = [v \in 1 .. MaxTables |-> 1]
  /\ helper_done = {}

-----------------------------------------------------------------------------
(* The updates.                                                            *)

ExistsUpdate(t) == Exists(t, "lock")

(* LOCK_ACQ waits while the lock is held for an update; of a bucket that   *)
(* is taken for a resize it waits for the successor of the table.          *)
Held(t) == {MyBin(t)}
CanLock(t, l) == At(t, "lock") /\ tables[tab[t]].locks[MyBin(t)] = l

LockTaken(t) ==
  /\ CanLock(t, "resize")
  /\ Goto(t, IF help THEN "help" ELSE "table_wait")
  /\ UNCHANGED <<heap, answers, tab, search, idx, wanted>>

(* ht_resize_help: the first to decrement is_helper helps.                 *)
Help(t) ==
  /\ At(t, "help")
  /\ is_helper' = [is_helper EXCEPT ![tab[t]] = @ - 1]
  /\ Goto(t, IF is_helper[tab[t]] > 0 THEN "help_lock" ELSE "table_wait")
  /\ SetIdx(t, IF is_helper[tab[t]] > 0 THEN tables[tab[t]].num ELSE 0)
  /\ UNCHANGED <<heap, answers, tab, search, wanted, help, helper_done>>

(* idx is one more than the bucket.  The resizer, or its end, stops it.    *)
HelpLock(t) ==
  LET old == tables[tab[t]]
      b == idx[t] - 1
      met == b < 0 \/ old.locks[Max({b, 0})] = "resize" IN
  /\ At(t, "help_lock")
  /\ \/ /\ met
        /\ helper_done' = helper_done \cup {tab[t]}
        /\ Goto(t, "table_wait") /\ SetIdx(t, 0)
        /\ UNCHANGED tables
     \/ /\ ~met /\ old.locks[b] = "free"
        /\ SetTable(tab[t], SetLocks(old, {b}, "resize"))
        /\ Goto(t, "help_copy")
        /\ UNCHANGED <<helper_done, idx>>
  /\ UNCHANGED <<ht, resize_lock, status_lock, answers, tab, search, wanted,
                 help, is_helper>>

(* table_tmp is the table the resizer is building.                         *)
HelpCopy(t) ==
  /\ At(t, "help_copy")
  /\ SetTable(New, BucketCpy(tables[New], tables[tab[t]].cells[idx[t] - 1]))
  /\ Goto(t, "help_lock") /\ SetIdx(t, idx[t] - 1)
  /\ UNCHANGED <<ht, resize_lock, status_lock, answers, tab, search, wanted,
                 helping>>

TableWait(t) ==
  /\ At(t, "table_wait") /\ tables[tab[t]].new # Null
  /\ SetTab(t, ht)
  /\ Goto(t, "lock")
  /\ UNCHANGED <<heap, answers, search, idx, wanted>>

(* Mutant of Released: the thread keeps the bucket while it resizes.       *)
ReleasedNot(t) == SetTable(tab[t], SetLocks(tables[tab[t]], Held(t), "update"))
(* A full bucket is locked and released again in one step.                 *)
Released(t) == UNCHANGED tables

(* The last free entry of the bucket gets the value.                       *)
PutLocked(t) ==
  /\ CanLock(t, "free") /\ call[t].op = "put"
  /\ LET found == Having(tab[t], Held(t), call[t].key)
         free == Having(tab[t], Held(t), NoKey)
         j == Max({p[2] : p \in free})
         T == SetLocks(tables[tab[t]], Held(t), "update")
     IN
       \/ /\ found # {}
          /\ Return(t, 0)
          /\ UNCHANGED heap
       \/ /\ found = {} /\ free = {}
          /\ Released(t)
          /\ Goto(t, "status")
          /\ UNCHANGED <<ht, resize_lock, status_lock, answers, tab, search, idx, wanted>>
       \/ /\ found = {} /\ free # {}
          /\ SetTable(tab[t], SetVal(T, <<MyBin(t), j>>, call[t].val))
          /\ Goto(t, "write_key") /\ SetIdx(t, j)
          /\ UNCHANGED <<ht, resize_lock, status_lock, answers, tab, search, wanted>>

WriteKey(t) ==
  /\ At(t, "write_key")
  /\ LET T == SetLocks(tables[tab[t]], Held(t), "free")
     IN  SetTable(tab[t], SetKey(T, <<MyBin(t), idx[t]>>, call[t].key))
  /\ Return(t, 1)
  /\ UNCHANGED <<ht, resize_lock, status_lock>>

RemoveLocked(t) ==
  /\ CanLock(t, "free") /\ call[t].op = "remove"
  /\ LET found == Having(tab[t], Held(t), call[t].key) IN
       \/ found = {} /\ Return(t, 0) /\ UNCHANGED tables
       \/ \E p \in found :
            /\ p = First(found)
            /\ SetTable(tab[t], SetKey(tables[tab[t]], p, NoKey))
            /\ Return(t, Cell(tab[t], p).val)
  /\ UNCHANGED <<ht, resize_lock, status_lock>>

-----------------------------------------------------------------------------
(* ht_status.                                                              *)

Factor(v) ==
  Max({2, Pow2RoundUp(((100 * Size(v)) \div (tables[v].num * Entries)) \div 20)})

(* Mutant of Status: status_lock keeps nobody out.                         *)
StatusFree(t) ==
  /\ At(t, "status")
  /\ status_lock' = TRUE
  /\ Goto(t, "ht_old")
  /\ UNCHANGED <<tables, ht, resize_lock, answers, tab, search, idx, wanted>>
Status(t) ==
  /\ At(t, "status")
  /\ status_lock' = TRUE
  /\ Goto(t, IF status_lock THEN "again" ELSE "ht_old")
  /\ UNCHANGED <<tables, ht, resize_lock, answers, tab, search, idx, wanted>>

(* Entries are counted and h->ht is read for ht_old.  The count is taken   *)
(* in one step: only the factor depends on it.                             *)
ReadOld(t) ==
  /\ At(t, "ht_old")
  /\ SetTab(t, ht)
  /\ wanted' = [wanted EXCEPT ![t] = Factor(ht) * tables[ht].num]
  /\ Goto(t, "resize_lock")
  /\ UNCHANGED <<heap, answers, search, idx>>

(* The resizer comes to where the helper has been.                         *)
Met(t) ==
  /\ help
  /\ At(t, "copy") /\ idx[t] < tables[tab[t]].num
  /\ tables[tab[t]].locks[idx[t]] = "resize"
Meet(t) ==
  /\ Met(t)
  /\ SetIdx(t, tables[tab[t]].num)
  /\ UNCHANGED <<heap, answers, pc, tab, search, wanted>>

(* Mutant of HelperDone: the helper is not waited for.                     *)
HelperAway(t) == TRUE
(* The resizer waits for a helper that has begun.                          *)
HelperDone(t) == help => is_helper[tab[t]] = 1 \/ tab[t] \in helper_done

Resize(t) ==
  \/ ReadOld(t)
  \/ ResizeLock(t, "status_unlock")
  \/ Copy(t) /\ ~Met(t)
  \/ Meet(t)
  \/ Swap(t) /\ HelperDone(t)
  \/ TableNew(t, TRUE, "status_unlock")
  \/ StatusUnlock(t, "again")

Work(t) ==
  \/ /\ \/ GetVal(t) \/ GetKey(t) \/ GetAgain(t)
        \/ ExistsUpdate(t) \/ Again(t) \/ LockTaken(t) \/ TableWait(t)
        \/ PutLocked(t) \/ WriteKey(t) \/ RemoveLocked(t)
        \/ Status(t) \/ Resize(t)
     /\ UNCHANGED helping
  \/ Help(t) \/ HelpLock(t) \/ HelpCopy(t)

Call(t) == (Get(t) \/ Put(t) \/ Remove(t)) /\ UNCHANGED helping

Next ==
  /\ \E t \in Threads : Call(t) \/ Work(t)
  /\ Observe

Spec == Init /\ [][Next]_vars

(* The scheduler runs every thread.                                        *)
FairSpec == Spec /\ \A t \in Threads : WF_vars(Work(t) /\ Observe)
-----------------------------------------------------------------------------
(* A table has one successor, the next that was created, although ht_old   *)
(* is read before resize_lock is tried and h->ht is read by everyone.      *)
OneSuccessor ==
  /\ \A v \in 1 .. Len(tables) : tables[v].new # Null => tables[v].new = v + 1
  /\ ht \in {Len(tables), Len(tables) - 1}

Map == INSTANCE ClhtMap WITH store <- Store

(* Every call takes effect at one moment between its start and its return, *)
(* across resizes and for gets on replaced tables too.                     *)
ImplementsMap == Map!Init /\ [][Map!Next]_(Map!vars)

(* Every call returns: no put waits for the successor of a table that      *)
(* nobody replaces, and no full bucket stays full.                         *)
CallsReturn == \A t \in Threads : call[t] # Idle ~> call[t] = Idle
=============================================================================
