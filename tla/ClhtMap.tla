------------------------------ MODULE ClhtMap ------------------------------
(***************************************************************************)
(* What every variant of the hash table promises to its callers: a map     *)
(* from keys to values whose get, put (insert if absent) and remove take   *)
(* effect atomically at some moment between the call and its return.       *)
(*                                                                         *)
(* A successful put or remove changes the map in one step, and returns in  *)
(* that step.  An operation that changes nothing may answer with anything  *)
(* that held for its key at some moment of the call: seen[t] collects what *)
(* the key was mapped to since the call began.  Operations that change     *)
(* nothing commute with everything else, so this is linearizability.       *)
(***************************************************************************)
EXTENDS Integers

CONSTANTS Threads,  \* the threads that call the table
          Keys,     \* the keys they use
          NoKey,    \* the key of a thread with no call in progress, no key
          Vals      \* the values they store, numbers other than 0

NoVal == 0          \* the answer "not found", and the value of an absent key

VARIABLES store,    \* the map
          call,     \* call[t]: the call of thread t in progress
          seen,     \* seen[t]: what its key was mapped to during that call
          ret       \* ret[t]: what the last call of t returned, 0 during one

vars == <<store, call, seen, ret>>

Idle == [op |-> "none", key |-> NoKey, val |-> NoVal]

Calls == {Idle}
           \cup [op : {"get", "remove"}, key : Keys, val : {NoVal}]
           \cup [op : {"put"}, key : Keys, val : Vals]

TypeOK ==
  /\ store \in [Keys -> Vals \cup {NoVal}]
  /\ call \in [Threads -> Calls]
  /\ seen \in [Threads -> SUBSET (Vals \cup {NoVal})]
  /\ ret \in [Threads -> Vals \cup {0, 1}]

Init ==
  /\ store = [k \in Keys |-> NoVal]
  /\ call = [t \in Threads |-> Idle]
  /\ seen = [t \in Threads |-> {}]
  /\ ret = [t \in Threads |-> 0]

(* Every call in progress observes the map that a step leaves behind.      *)
Observe ==
  seen' = [t \in Threads |-> IF call'[t] = Idle THEN {}
                             ELSE seen[t] \cup {store'[call'[t].key]}]

Return(t, r) ==
  /\ call' = [call EXCEPT ![t] = Idle]
  /\ ret' = [ret EXCEPT ![t] = r]

(* A new call forgets the answer of the last one.                          *)
Invoke(t) ==
  /\ call[t] = Idle
  /\ \E c \in Calls \ {Idle} : call' = [call EXCEPT ![t] = c]
  /\ ret' = [ret EXCEPT ![t] = 0]
  /\ UNCHANGED store

Insert(t) ==
  /\ call[t].op = "put"
  /\ store[call[t].key] = NoVal
  /\ store' = [store EXCEPT ![call[t].key] = call[t].val]
  /\ Return(t, 1)

Delete(t) ==
  /\ call[t].op = "remove"
  /\ store[call[t].key] # NoVal
  /\ store' = [store EXCEPT ![call[t].key] = NoVal]
  /\ Return(t, store[call[t].key])

(* A get answers what it saw; a put fails because it saw the key, a remove *)
(* because it saw it absent.                                               *)
Answer(t) ==
  /\ \E v \in seen[t] :
       \/ call[t].op = "get" /\ Return(t, v)
       \/ call[t].op = "put" /\ v # NoVal /\ Return(t, 0)
       \/ call[t].op = "remove" /\ v = NoVal /\ Return(t, 0)
  /\ UNCHANGED store

Next ==
  /\ \E t \in Threads : Invoke(t) \/ Insert(t) \/ Delete(t) \/ Answer(t)
  /\ Observe

Spec == Init /\ [][Next]_vars
=============================================================================
