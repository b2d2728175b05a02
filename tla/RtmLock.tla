------------------------------ MODULE RtmLock ------------------------------
(***************************************************************************)
(* The lock of a bucket on processors with transactions (CLHT_USE_RTM in   *)
(* src/include/clht_lb_res.h): an update runs its critical section as a    *)
(* transaction that has read the lock as free, and falls back to taking    *)
(* the lock; a resizer marks the bucket for ever before it copies it.      *)
(*                                                                         *)
(* The processor is external.  It undoes a transaction when what it has    *)
(* read is written by another thread, or at any other moment, and shows    *)
(* the stores of a transaction to others when it commits and not before.   *)
(* The section stands for the work on the bucket: read, then write.        *)
(***************************************************************************)
EXTENDS Integers

CONSTANTS Threads,
          Counts    \* bound: updates are counted modulo Counts > 1

CountsPositive == Counts \in Nat \ {0}

VARIABLES lock,     \* the lock of the bucket
          new,      \* table_new # NULL
          content,  \* the bucket: how many updates it has seen
          copied,   \* what the resizer has copied of it, or Nothing
          pc,       \* pc[t]: what t does next
          tx,       \* tx[t]: what t's transaction has touched, {} without one
          retries,  \* rtm_retries[t]
          saw,      \* saw[t]: the content that the section has read
          done      \* history: how many updates there were

shared == <<lock, new, content, copied>>
vars == <<shared, pc, tx, retries, saw, done>>

Nothing == -1
Labels == {"idle", "xbegin", "lv", "cas", "wait", "read", "write", "release",
           "copy", "table_new"}

Init ==
  /\ lock = "free" /\ new = FALSE /\ content = 0 /\ copied = Nothing
  /\ pc = [t \in Threads |-> "idle"]
  /\ tx = [t \in Threads |-> {}]
  /\ retries = [t \in Threads |-> 0]
  /\ saw = [t \in Threads |-> 0]
  /\ done = 0

TypeOK ==
  /\ lock \in {"free", "update", "resize"} /\ new \in BOOLEAN
  /\ {content, done} \subseteq 0 .. Counts - 1
  /\ copied \in {Nothing} \cup 0 .. Counts - 1
  /\ pc \in [Threads -> Labels]
  /\ tx \in [Threads -> SUBSET {"begun", "lock", "content"}]
  /\ retries \in [Threads -> {0, 1}]
  /\ saw \in [Threads -> 0 .. Counts - 1]

At(t, label) == pc[t] = label
More(n) == (n + 1) % Counts

-----------------------------------------------------------------------------
(* What the processor does.  A thread whose transaction is undone is back  *)
(* at _xbegin, which says so: it tries again, once, or takes the lock.     *)

Back(t) == IF retries[t] > 0 THEN "xbegin" ELSE "cas"
Undo(t) ==
  /\ pc' = [pc EXCEPT ![t] = Back(t)]
  /\ retries' = [retries EXCEPT ![t] = 0]
  /\ tx' = [tx EXCEPT ![t] = {}]

(* t goes on at label, having written what others have in a transaction.   *)
Write(t, what, label) ==
  LET hit == {u \in Threads \ {t} : what \in tx[u]} IN
  /\ pc' = [u \in Threads |-> IF u = t THEN label
                              ELSE IF u \in hit THEN Back(u) ELSE pc[u]]
  /\ retries' = [u \in Threads |-> IF u \in hit THEN 0 ELSE retries[u]]
  /\ tx' = [u \in Threads |-> IF u \in hit \cup {t} THEN {} ELSE tx[u]]

Step(t, label) == pc' = [pc EXCEPT ![t] = label] /\ UNCHANGED retries
Touch(t, what) == tx' = [tx EXCEPT ![t] = IF @ = {} THEN {} ELSE @ \cup {what}]

XBegin(t) ==
  /\ At(t, "xbegin")
  /\ Step(t, "lv")
  /\ tx' = [tx EXCEPT ![t] = {"begun"}]
  /\ UNCHANGED <<shared, saw, done>>

Abort(t) ==
  /\ tx[t] # {}
  /\ Undo(t)
  /\ UNCHANGED <<shared, saw, done>>

-----------------------------------------------------------------------------
(* LOCK_ACQ.                                                               *)

Acquire(t) ==
  /\ At(t, "idle")
  /\ pc' = [pc EXCEPT ![t] = "xbegin"]
  /\ retries' = [retries EXCEPT ![t] = 1]
  /\ UNCHANGED <<shared, tx, saw, done>>

(* Mutant of ReadLock: a lock that no update holds is as good as free.     *)
ReadLockNoUpdate(t) ==
  /\ At(t, "lv") /\ lock # "update"
  /\ Step(t, "read") /\ Touch(t, "lock")
  /\ UNCHANGED <<shared, saw, done>>
(* A bucket that is marked ends the transaction; one whose lock is held    *)
(* aborts it.                                                              *)
ReadLock(t) ==
  /\ At(t, "lv")
  /\ \/ lock = "free" /\ Step(t, "read") /\ Touch(t, "lock")
     \/ lock = "resize" /\ Step(t, "wait") /\ tx' = [tx EXCEPT ![t] = {}]
     \/ lock = "update" /\ Undo(t)
  /\ UNCHANGED <<shared, saw, done>>

Cas(t) ==
  /\ At(t, "cas")
  /\ \/ lock = "free" /\ lock' = "update" /\ Write(t, "lock", "read")
     \/ lock = "resize" /\ Step(t, "wait") /\ UNCHANGED <<lock, tx>>
  /\ UNCHANGED <<new, content, copied, saw, done>>

(* The update leaves the table for the one that replaces it.               *)
Wait(t) ==
  /\ At(t, "wait") /\ new
  /\ Step(t, "idle")
  /\ UNCHANGED <<shared, tx, saw, done>>

-----------------------------------------------------------------------------
(* The section and its end.                                                *)

Read(t) ==
  /\ At(t, "read")
  /\ saw' = [saw EXCEPT ![t] = content]
  /\ Step(t, "write") /\ Touch(t, "content")
  /\ UNCHANGED <<shared, done>>

(* In a transaction the store waits for _xend.                             *)
Store(t) ==
  /\ At(t, "write")
  /\ \/ tx[t] # {} /\ Step(t, "release") /\ UNCHANGED <<content, tx, done>>
     \/ /\ tx[t] = {}
        /\ content' = More(saw[t]) /\ done' = More(done)
        /\ Write(t, "content", "release")
  /\ UNCHANGED <<lock, new, copied, saw>>

(* LOCK_RLS: a lock that is free was not taken, so there is a transaction  *)
(* to commit.                                                              *)
Release(t) ==
  /\ At(t, "release")
  /\ \/ /\ lock = "free"
        /\ content' = More(saw[t]) /\ done' = More(done)
        /\ Write(t, "content", "idle")
        /\ UNCHANGED lock
     \/ lock # "free" /\ lock' = "free" /\ Write(t, "lock", "idle")
        /\ UNCHANGED <<content, done>>
  /\ saw' = [saw EXCEPT ![t] = 0]
  /\ UNCHANGED <<new, copied>>

-----------------------------------------------------------------------------
(* The resizer, which resize_lock makes the only one.                      *)

ResizeLock(t) ==
  /\ At(t, "idle") /\ lock = "free"
  /\ lock' = "resize" /\ Write(t, "lock", "copy")
  /\ UNCHANGED <<new, content, copied, saw, done>>

Copy(t) ==
  /\ At(t, "copy")
  /\ copied' = content
  /\ Step(t, "table_new")
  /\ UNCHANGED <<lock, new, content, tx, saw, done>>

TableNew(t) ==
  /\ At(t, "table_new")
  /\ new' = TRUE
  /\ Step(t, "idle")
  /\ UNCHANGED <<lock, content, copied, tx, saw, done>>

Next == \E t \in Threads :
  \/ XBegin(t) \/ Abort(t) \/ Acquire(t) \/ ReadLock(t) \/ Cas(t) \/ Wait(t)
  \/ Read(t) \/ Store(t) \/ Release(t)
  \/ ResizeLock(t) \/ Copy(t) \/ TableNew(t)

Spec == Init /\ [][Next]_vars
-----------------------------------------------------------------------------
(* Transactions, holders of the lock and the resizer exclude each other:   *)
(* no update is lost, none changes a bucket that has been copied, and      *)
(* LOCK_RLS commits if and only if there is a transaction.                 *)
LockExcludes ==
  /\ content = done
  /\ copied # Nothing => copied = content
  /\ \A t \in Threads : At(t, "release") => (lock = "free" <=> tx[t] # {})
=============================================================================
