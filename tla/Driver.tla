------------------------------- MODULE Driver -------------------------------
(***************************************************************************)
(* The benchmark of the tables (bmarks/test.c).  Threads fill the table,   *)
(* then put, remove and get at random until main says stop, and count;     *)
(* main adds the counts up and compares them with the size of the table.   *)
(* Barriers separate the phases.  The table is the map it implements, each *)
(* call one step; the rest are the steps of test.c.  The barriers, the     *)
(* counts and the frame of main are those of every benchmark: math_cache.c *)
(* and snap_stress.c have the same lines.                                  *)
(***************************************************************************)
EXTENDS Integers, FiniteSets, FiniteSetsExt

CONSTANTS Workers,     \* num_threads
          Initial,     \* initial * filling_rate: the entries to begin with
          KeyRange,    \* range: keys are 1 .. range
          IntBits,     \* width of int, in which a remove returns its value
          ScalePut, ScaleRem, \* the shares of puts, and of updates, in UINT_MAX
          MaxOps,      \* bound: updates that the threads make until they stop
          MaxSpurious  \* bound: how often pthread_cond_wait returns unasked

ASSUME DriverAssumption ==
  /\ {Workers, KeyRange, IntBits} \subseteq Nat \ {0}
  /\ {Initial, ScalePut, ScaleRem, MaxOps, MaxSpurious} \subseteq Nat
  /\ ScalePut <= ScaleRem
  /\ Initial + MaxOps <= KeyRange   \* so that a thread always can fill

Ids == 0 .. Workers - 1
main == Workers                     \* main, among the threads
Keys == 1 .. KeyRange
Words == 2 ^ IntBits

VARIABLES pc,        \* pc[t]: what thread t, or main, does next
          crossing,  \* crossing of barrier and of barrier_global
          waiting,   \* the threads that wait in a barrier
          woken,     \* those that have been woken and may go on
          i,         \* i[t]: the loop index of the fill, or of the prints
          store,     \* the table: a value for each key, or NoVal
          puts, rems,      \* my_putting_count_succ, my_removing_count_succ
          putting, removing, \* putting_count_succ, removing_count_succ
          stop,
          ops,       \* how many updates there were
          spurious,  \* how many wake-ups were not asked for
          missed,    \* history: removes that were not counted as such
          left       \* history: how often a thread has left barrier

counts == <<puts, rems, putting, removing>>
sync == <<crossing, waiting, woken, spurious, left>>
table == <<store, ops, missed>>
vars == <<pc, i, stop, counts, sync, table>>

NoVal == -1
Barriers == {"start", "filled", "stopped", "turn"}  \* where barrier is crossed
Labels == Barriers \cup
            {"new", "fill", "global", "run", "publish", "print", "exit",
             "create", "sleep", "join", "done"}
Procs == Ids \cup {main}

Init ==
  /\ pc = [t \in Procs |-> IF t = main THEN "create" ELSE "new"]
  /\ crossing = [b \in {"barrier", "barrier_global"} |-> 0]
  /\ waiting = {} /\ woken = {}
  /\ i = [t \in Procs |-> 0]
  /\ store = [k \in Keys |-> NoVal]
  /\ puts = [t \in Ids |-> 0] /\ rems = [t \in Ids |-> 0]
  /\ putting = [t \in Ids |-> 0] /\ removing = [t \in Ids |-> 0]
  /\ stop = FALSE
  /\ ops = 0 /\ spurious = 0 /\ missed = 0
  /\ left = [t \in Ids |-> 0]

TypeOK ==
  /\ pc \in [Procs -> Labels]
  /\ crossing["barrier"] \in 0 .. Workers - 1
  /\ crossing["barrier_global"] \in 0 .. Workers
  /\ waiting \subseteq Procs /\ woken \subseteq Procs /\ waiting \cap woken = {}
  /\ i \in [Procs -> 0 .. Max({Initial, Workers})]
  /\ store \in [Keys -> {NoVal} \cup 0 .. Words]
  /\ {puts, rems, putting, removing} \subseteq [Ids -> 0 .. MaxOps]
  /\ ops \in 0 .. MaxOps /\ spurious \in 0 .. MaxSpurious
  /\ missed \in 0 .. MaxOps

At(t, label) == pc[t] = label
Goto(t, label) == pc' = [pc EXCEPT ![t] = label]
Present == {k \in Keys : store[k] # NoVal}

-----------------------------------------------------------------------------
(* barrier_cross.  It is one step, under the mutex, up to the wait.        *)

AtBarrier(t) == pc[t] \in Barriers \cup {"global"}
Barrier(t) == IF At(t, "global") THEN "barrier_global" ELSE "barrier"
(* Mutant of Count: main is not among those who cross barrier_global.      *)
CountThreads(t) == Workers
Count(t) == IF At(t, "global") THEN Workers + 1 ELSE Workers
Fellows(t) == {u \in waiting : Barrier(u) = Barrier(t)}

(* Where t goes on, and with which index: the fill starts at 0, the turns  *)
(* to print at the last thread.                                            *)
Onward(t) ==
  CASE At(t, "start") -> "fill"
    [] At(t, "filled") -> "global"
    [] At(t, "global") /\ t # main -> "run"
    [] At(t, "global") /\ t = main -> "sleep"
    [] At(t, "stopped") -> "publish"
    [] At(t, "turn") /\ i[t] > 0 -> "print"
    [] At(t, "turn") /\ i[t] = 0 -> "exit"
Cross(t) ==
  /\ Goto(t, Onward(t))
  /\ i' = [i EXCEPT ![t] = IF At(t, "turn") /\ @ > 0 THEN @ - 1 ELSE 0]
  /\ left' = IF At(t, "global") THEN left ELSE [left EXCEPT ![t] = @ + 1]

Arrive(t) ==
  /\ AtBarrier(t) /\ t \notin waiting \cup woken
  /\ crossing[Barrier(t)] + 1 < Count(t)
  /\ crossing' = [crossing EXCEPT ![Barrier(t)] = @ + 1]
  /\ waiting' = waiting \cup {t}
  /\ UNCHANGED <<pc, i, woken, left>>

(* Mutant of Reset: crossing counts on.                                    *)
NoReset(t) == [crossing EXCEPT ![Barrier(t)] = @ + 1]
Reset(t) == [crossing EXCEPT ![Barrier(t)] = 0]

(* The last to arrive wakes the others.                                    *)
Complete(t) ==
  /\ AtBarrier(t) /\ t \notin waiting \cup woken
  /\ crossing[Barrier(t)] + 1 >= Count(t)
  /\ crossing' = Reset(t)
  /\ waiting' = waiting \ Fellows(t)
  /\ woken' = woken \cup Fellows(t)
  /\ Cross(t)

WakeUp(t) ==
  /\ t \in woken
  /\ woken' = woken \ {t}
  /\ Cross(t)
  /\ UNCHANGED <<crossing, waiting>>

(* pthread_cond_wait may return unasked, and is not called again.          *)
Spurious(t) ==
  /\ t \in waiting /\ spurious < MaxSpurious
  /\ spurious' = spurious + 1
  /\ waiting' = waiting \ {t}
  /\ Cross(t)
  /\ UNCHANGED <<crossing, woken, stop, counts, table>>

BarrierStep(t) ==
  /\ Arrive(t) \/ Complete(t) \/ WakeUp(t)
  /\ UNCHANGED <<spurious, stop, counts, table>>

-----------------------------------------------------------------------------
(* test.                                                                   *)

Share(t) ==
  (Initial \div Workers) + (IF t < Initial % Workers THEN 1 ELSE 0)

(* A put of a random key; one whose key is there is tried again.           *)
Fill(t) ==
  /\ At(t, "fill") /\ i[t] < Share(t)
  /\ \E k \in Keys \ Present : store' = [store EXCEPT ![k] = (k * k) % Words]
  /\ i' = [i EXCEPT ![t] = @ + 1]
  /\ UNCHANGED <<pc, stop, counts, sync, ops, missed>>

Filled(t) ==
  /\ At(t, "fill") /\ i[t] >= Share(t)
  /\ Goto(t, "filled") /\ i' = [i EXCEPT ![t] = 0]
  /\ UNCHANGED <<stop, counts, sync, table>>

(* One number c decides about the operation, the key and the value.  Calls *)
(* that leave the table as it is are left out: they count for nothing.     *)
Operation(t) ==
  /\ At(t, "run") /\ ~stop /\ ops < MaxOps
  /\ ops' = ops + 1
  /\ \E c \in 0 .. ScaleRem : LET k == (c % KeyRange) + 1 IN
       \/ /\ c <= ScalePut /\ k \notin Present
          /\ store' = [store EXCEPT ![k] = (c + 1) % Words]
          /\ puts' = [puts EXCEPT ![t] = @ + 1]
          /\ UNCHANGED <<rems, missed>>
       \/ /\ c > ScalePut /\ k \in Present
          /\ store' = [store EXCEPT ![k] = NoVal]
          /\ \/ /\ store[k] # 0
                /\ rems' = [rems EXCEPT ![t] = @ + 1]
                /\ UNCHANGED missed
             \/ /\ store[k] = 0
                /\ missed' = missed + 1
                /\ UNCHANGED rems
          /\ UNCHANGED puts
  /\ UNCHANGED <<pc, i, stop, putting, removing, sync>>

Stopped(t) ==
  /\ At(t, "run") /\ stop
  /\ Goto(t, "stopped")
  /\ UNCHANGED <<i, stop, counts, sync, table>>

Publish(t) ==
  /\ At(t, "publish")
  /\ putting' = [putting EXCEPT ![t] = @ + puts[t]]
  /\ removing' = [removing EXCEPT ![t] = @ + rems[t]]
  /\ Goto(t, "print") /\ i' = [i EXCEPT ![t] = Workers - 1]
  /\ UNCHANGED <<puts, rems, stop, sync, table>>

(* EXEC_IN_DEC_ID_ORDER: a thread prints in its turn, and all cross the    *)
(* barrier after each.                                                     *)
PrintTurn(t) ==
  /\ At(t, "print")
  /\ Goto(t, "turn")
  /\ UNCHANGED <<i, stop, counts, sync, table>>

-----------------------------------------------------------------------------
(* main.                                                                   *)

Create ==
  /\ At(main, "create")
  /\ \/ /\ i[main] < Workers
        /\ pc' = [pc EXCEPT ![i[main]] = "start"]
        /\ i' = [i EXCEPT ![main] = @ + 1]
     \/ /\ i[main] = Workers
        /\ Goto(main, "global") /\ i' = [i EXCEPT ![main] = 0]
  /\ UNCHANGED <<stop, counts, sync, table>>

Stop ==
  /\ At(main, "sleep")
  /\ stop' = TRUE
  /\ Goto(main, "join")
  /\ UNCHANGED <<i, counts, sync, table>>

Join ==
  /\ At(main, "join")
  /\ i[main] < Workers /\ At(i[main], "exit")
  /\ i' = [i EXCEPT ![main] = @ + 1]
  /\ UNCHANGED <<pc, stop, counts, sync, table>>

Report ==
  /\ At(main, "join") /\ i[main] = Workers
  /\ Goto(main, "done") /\ i' = [i EXCEPT ![main] = 0]
  /\ UNCHANGED <<stop, counts, sync, table>>

SizeAfter == Cardinality(Present)
Pr == MapThenSumSet(LAMBDA t : putting[t] - removing[t], Ids)
-----------------------------------------------------------------------------
Test(t) == Fill(t) \/ Filled(t) \/ Stopped(t) \/ Publish(t) \/ PrintTurn(t)
Main == Create \/ Stop \/ Join \/ Report
Next ==
  \/ Main
  \/ \E t \in Ids : Test(t) \/ Operation(t)
  \/ \E t \in Procs : BarrierStep(t) \/ Spurious(t)
Spec == Init /\ [][Next]_vars

(* The scheduler runs every thread, and a random key is in the end new.    *)
FairSpec ==
  /\ Spec
  /\ WF_vars(Main) /\ \A t \in Ids : WF_vars(Test(t))
  /\ \A t \in Procs : WF_vars(BarrierStep(t))
-----------------------------------------------------------------------------
(* Nobody is a barrier ahead of another, so nobody measures while another  *)
(* fills, unless a wait returns unasked.                                   *)
PhasesSeparate ==
  spurious > 0 \/
    /\ \A t, u \in Ids : left[t] <= left[u] + 1
    /\ (\E t \in Ids : At(t, "run")) =>
         \A t \in Ids : pc[t] \notin {"new", "start", "fill", "filled"}

(* The size of the table is what was filled plus pr, apart from removed    *)
(* values whose low bits are 0: clht_remove is assigned to an int.         *)
SizeMatches ==
  At(main, "done") => SizeAfter = Initial + Pr - missed

(* The program ends, unless a wait returns unasked: the thread that goes   *)
(* on early takes the place of another in the next round of the barrier,   *)
(* and all may come to wait.                                               *)
ProgramEnds == <>(At(main, "done") \/ spurious > 0)
=============================================================================
