------------------------------ MODULE MCBmarks ------------------------------
(***************************************************************************)
(* The benchmarks for TLC: one run explores the behaviours of test.c, of   *)
(* snap_stress.c, and of math_cache.c and test_mem.c, told apart by bench, *)
(* which never changes.                                                    *)
(***************************************************************************)
EXTENDS Driver

CONSTANTS Threads, Objects, StressKeys, Entries, MaxAllocs, DirtySlots,
          CacheKeys, CacheObjects, Fills, CacheAllocs

VARIABLES bench,
          \* of SnapStress
          at, role, idx, cur, snap, slot, word, key, val, first,
          refilled, used, readers, content,
          \* of ObjectCache
          program, label, objects, res, filled, inUse, mayRead, holds,
          \* of both
          k, obj, nputs, nrems, stopped, allocs

Stress == INSTANCE SnapStress WITH
            pc <- at, puts <- nputs, rems <- nrems, stop <- stopped
Cache == INSTANCE ObjectCache WITH
           Objects <- CacheObjects,
           pc <- label, store <- objects,
           used <- inUse, readers <- mayRead, content <- holds,
           puts <- nputs, rems <- nrems, stop <- stopped

(* The tables and the allocator have no key 0, and NULL is no object.      *)
ASSUME BenchAssumption ==
  /\ IsFiniteSet(Threads) /\ IsFiniteSet(CacheKeys)
  /\ Entries \in Nat \ {0}
  /\ {MaxAllocs, Fills, CacheAllocs} \subseteq Nat
  /\ Stress!Null \notin StressKeys \cup CacheKeys
  /\ Stress!Null \notin Objects \cup CacheObjects

ofStress == <<at, role, idx, cur, snap, slot, word, key, val, first,
              refilled, used, readers, content>>
ofCache == <<program, label, objects, res, filled, inUse, mayRead, holds>>
ofBoth == <<k, obj, nputs, nrems, stopped, allocs>>
mcvars == <<bench, vars, ofStress, ofCache, ofBoth>>

MCInit ==
  /\ bench \in {"test", "snap_stress", "objects"}
  /\ Init /\ Stress!SInit /\ Cache!CInit
  /\ bench # "snap_stress" => first = Stress!Blank.map
  /\ bench # "objects" => program = "math_cache"

MCNext ==
  /\ UNCHANGED bench
  /\ \/ bench = "test" /\ Next /\ UNCHANGED <<ofStress, ofCache, ofBoth>>
     \/ bench = "snap_stress" /\ Stress!SNext /\ UNCHANGED <<vars, ofCache>>
     \/ bench = "objects" /\ Cache!CNext /\ UNCHANGED <<vars, ofStress>>

(* The fairness of Driver.                                                 *)
still == <<bench, ofStress, ofCache, ofBoth>>
MCFairness ==
  /\ WF_mcvars(bench = "test" /\ Main /\ UNCHANGED still)
  /\ \A t \in Ids : WF_mcvars(bench = "test" /\ Test(t) /\ UNCHANGED still)
  /\ \A t \in Procs :
       WF_mcvars(bench = "test" /\ BarrierStep(t) /\ UNCHANGED still)
MCSpec == MCInit /\ [][MCNext]_mcvars /\ MCFairness
-----------------------------------------------------------------------------
(* The states of the benchmarks are well typed.                            *)
BmarksTypeOK ==
  CASE bench = "test" -> TypeOK
    [] bench = "snap_stress" -> Stress!STypeOK
    [] bench = "objects" -> Cache!CTypeOK

(* snap_stress.c, math_cache.c and test_mem.c: every object in use is in   *)
(* exactly one place, and so freed once and never lost.                    *)
ObjectsOnce ==
  /\ bench = "snap_stress" => Stress!ObjectsOnce
  /\ bench = "objects" => Cache!CacheObjectsOnce

(* snap_stress.c and math_cache.c: who looks at an object finds its key    *)
(* there, whoever frees it meanwhile, but for a get of snap_stress.c whose *)
(* slot is filled again with the object it was filled with before.         *)
ReadsRight ==
  /\ bench = "snap_stress" => Stress!GetsReadTheirKey
  /\ bench = "objects" => Cache!LooksRight

(* snap_stress.c: a marked slot belongs to one put, unless the first slot  *)
(* was left marked.                                                        *)
StressSlotsHeld == bench = "snap_stress" => Stress!StressSlotsHeld

(* The counts of calls agree with what is stored.                          *)
Counted ==
  /\ bench = "test" => SizeMatches
  /\ bench = "snap_stress" => Stress!ValidCounted
  /\ bench = "objects" => Cache!CacheCounted

(* test.c: it ends, unless a wait returns unasked.                         *)
TestEnds == bench = "test" => ProgramEnds
=============================================================================
