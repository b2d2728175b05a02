------------------------------ MODULE MCLinked ------------------------------
(***************************************************************************)
(* Three instances of LbLinked for TLC in one run, told apart by instance, *)
(* which never changes.  In "hops" keys come and go and spread over the    *)
(* next buckets; in "emergency" a put may find no free entry in reach, and *)
(* tables grow; in "shrink" a table with few entries gets smaller, and the *)
(* new one has to grow at once.  Their keys and values are among those of  *)
(* the cfg.                                                                *)
(***************************************************************************)
EXTENDS LbLinked

VARIABLE instance

H == INSTANCE LbLinked WITH
       Keys <- {1, 3}, Extra <- 2, SoftHops <- 1, PercHalve <- 5,
       MaxUpdates <- 4, MaxTables <- 2
E == INSTANCE LbLinked WITH
       Removers <- {}, Keys <- {1, 3, 9}, Extra <- 1, SoftHops <- 0,
       PercHalve <- 5, MaxUpdates <- 3, MaxTables <- 3
S == INSTANCE LbLinked WITH
       Readers <- {}, Keys <- {1, 3, 9}, Extra <- 2, SoftHops <- 0,
       PercHalve <- 26, MaxUpdates <- 3, MaxTables <- 4

MCInit ==
  \/ instance = "hops" /\ H!Init
  \/ instance = "emergency" /\ E!Init
  \/ instance = "shrink" /\ S!Init
MCNext ==
  /\ UNCHANGED instance
  /\ \/ instance = "hops" /\ H!Next
     \/ instance = "emergency" /\ E!Next
     \/ instance = "shrink" /\ S!Next
MCSpec == MCInit /\ [][MCNext]_<<vars, instance>>

Holds(spread, emergency, shrink) ==
  CASE instance = "hops" -> spread
    [] instance = "emergency" -> emergency
    [] instance = "shrink" -> shrink
-----------------------------------------------------------------------------
(* The states are well typed.                                              *)
LinkedTypeOK == Holds(H!TypeOK, E!TypeOK, S!TypeOK)

(* lock_release_n frees what its thread has locked, no less and no more.   *)
LocksReleased == Holds(H!HopLocks, E!HopLocks, S!HopLocks)

(* Keys are found where the hops of their bucket say, in one entry each,   *)
(* although puts read the hops before they have the lock: only a put that  *)
(* then writes with hops that have changed (lines 288 and 362), or a       *)
(* resize of a table already replaced, ends what is claimed.               *)
KeysReachable == Holds(H!WithinHops, E!WithinHops, S!WithinHops)

(* Calls take effect at one moment, until a put writes by hops, or a       *)
(* resize copies a table, that changed after they were read.               *)
LinkedImplementsMap ==
  /\ Holds(H!Map!Init, E!Map!Init, S!Map!Init)
  /\ [][instance = "hops" => H!ImplementsMapStep]_vars
  /\ [][instance = "emergency" => E!ImplementsMapStep]_vars
  /\ [][instance = "shrink" => S!ImplementsMapStep]_vars
=============================================================================
