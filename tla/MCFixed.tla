------------------------------ MODULE MCFixed ------------------------------
(***************************************************************************)
(* The tables of a fixed size, and the transactional lock, for TLC: one    *)
(* run explores the behaviours of each, told apart by variant, which never *)
(* changes.                                                                *)
(***************************************************************************)
EXTENDS BucketCalls, TLC

CONSTANTS t1, t2, t3, k1, k2,
          Garbage, KeyBlck,
          MapSlots, MapPuts,  \* Entries and MaxPuts of LfMapRem
          RtmThreads, Counts  \* of RtmLock

VARIABLES variant,
          slot,                       \* of LbLockIns and LfMapRem
          last, bucket, full, moved,  \* of LbPacked
          word, key, val, snap, met,  \* of LfMapRem
          \* of RtmLock
          mark, new, content, copied, at, tx, retries, saw, done

Lb == INSTANCE LbBucket
Ins == INSTANCE LbLockIns
Pack == INSTANCE LbPacked
Rem == INSTANCE LfMapRem WITH Entries <- MapSlots, MaxPuts <- MapPuts,
                              VersionMod <- 2 * MapPuts + 2,
                              DistinctVals <- TRUE
Rtm == INSTANCE RtmLock WITH Threads <- RtmThreads, lock <- mark, pc <- at

(* KEY_BLCK (-1) marks a key that a remove is taking out: it is reserved,  *)
(* as 0 is for a free entry.                                               *)
ASSUME BlckAssumption == KeyBlck \notin Keys \cup {NoKey}
(* A linked bucket may hold any old value, but none that a put stores.     *)
ASSUME GarbageAssumption == Garbage \notin Lb!Vals
ASSUME MapBounds == MapSlots \in Nat \ {0} /\ MapPuts \in Nat \ {0}
ASSUME RtmCounts == Rtm!CountsPositive

ofPacked == <<last, bucket, full, moved>>
ofMapRem == <<word, key, val, snap, met>>
ofRtm == <<mark, new, content, copied, at, tx, retries, saw, done>>
vars == <<calls, variant, slot, ofPacked, ofMapRem, ofRtm>>

Init ==
  /\ variant \in {"lb", "lock_ins", "packed", "map_rem", "rtm"}
  /\ Lb!Init /\ Ins!Init /\ Pack!Init /\ Rem!Init /\ Rtm!Init

Next ==
  /\ UNCHANGED variant
  /\ \/ variant = "lb" /\ Lb!Next /\ UNCHANGED <<slot, ofPacked, ofMapRem, ofRtm>>
     \/ variant = "lock_ins" /\ Ins!Next /\ UNCHANGED <<ofPacked, ofMapRem, ofRtm>>
     \/ variant = "packed" /\ Pack!Next /\ UNCHANGED <<slot, ofMapRem, ofRtm>>
     \/ variant = "map_rem" /\ Rem!Next /\ UNCHANGED <<cells, lock, ofPacked, ofRtm>>
     \/ variant = "rtm" /\ Rtm!Next
        /\ UNCHANGED <<calls, slot, ofPacked, ofMapRem>>

Spec == Init /\ [][Next]_vars
Symmetry == Permutations(Threads) \cup Permutations(Keys)
-----------------------------------------------------------------------------
(* The state of every variant is well typed.                               *)
TypeOK ==
  CASE variant = "lb" -> Lb!TypeOK
    [] variant = "lock_ins" -> Ins!TypeOK
    [] variant = "packed" -> Pack!TypeOK
    [] variant = "map_rem" -> Rem!TypeOK
    [] variant = "rtm" -> Rtm!TypeOK

(* clht_lf_only_map_rem.c: one remove at most holds a mark, none leaves it.*)
MarksHeld == variant = "map_rem" => Rem!MarksHeld

(* When nobody updates, clht_size is the number of keys in the map: no key *)
(* has two entries, no entry is left half put or half removed, and the     *)
(* buckets of a packed chain are full but for the last.                    *)
Quiet == \A t \in Threads : pc[t] = "idle" \/ call[t].op = "get"
Present(store) == Cardinality({k \in Keys : store[k] # NoVal})
SizeRight ==
  Quiet => CASE variant = "lb" -> Lb!Size = Present(Lb!Store)
             [] variant = "lock_ins" -> Ins!Size = Present(Ins!Store)
             [] variant = "packed" -> Pack!Size = Present(Pack!Store)
             [] variant = "map_rem" -> Rem!Size = Present(Rem!Store)
             [] variant = "rtm" -> TRUE

(* Transactions, lock holders and the resizer exclude each other.          *)
LockExcludes == variant = "rtm" => Rtm!LockExcludes

(* What is left of linearizability in each variant (the definitions of     *)
(* these properties in the modules say what may go wrong and when).        *)
LbImplementsMap ==
  /\ variant = "lb" => Lb!Map!Init
  /\ [][variant = "lb" => [Lb!MapStep]_(Lb!Map!vars)]_vars
LockInsImplementsMap ==
  /\ variant = "lock_ins" => Ins!Map!Init
  /\ [][variant = "lock_ins" => [Ins!Map!Next]_(Ins!Map!vars)]_vars
PackedImplementsMap ==
  /\ variant = "packed" => Pack!Map!Init
  /\ [][variant = "packed" => [Pack!MapStep]_(Pack!Map!vars)]_vars
MapRemImplementsMap ==
  /\ variant = "map_rem" => Rem!Map!Init
  /\ [][variant = "map_rem" => [Rem!MapStep]_(Rem!Map!vars)]_vars
=============================================================================
