------------------------------ MODULE MCLfRes ------------------------------
(***************************************************************************)
(* Two instances of LfRes for TLC in one run, told apart by instance,      *)
(* which never changes.  In "resize" one thread updates while another gets *)
(* and no table is freed; in "collect" both update and tables are          *)
(* collected.  Their keys and values are among those of the cfg, so the    *)
(* invariants of LfRes say the same of both.                               *)
(***************************************************************************)
EXTENDS LfRes

VARIABLE instance

G == INSTANCE LfRes WITH
       Updaters <- Threads, Keys <- {1, 2}, Tries <- 0, DoGc <- TRUE,
       MaxPuts <- 2

MCInit ==
  \/ instance = "resize" /\ Init
  \/ instance = "collect" /\ G!Init
MCNext ==
  /\ UNCHANGED instance
  /\ \/ instance = "resize" /\ Next
     \/ instance = "collect" /\ G!Next
MCSpec == MCInit /\ [][MCNext]_<<vars, instance>>
-----------------------------------------------------------------------------
(* Resizes are invisible to the calls.                                     *)
ResImplementsMap ==
  /\ instance = "resize" => Map!Init
  /\ [][instance = "resize" => [Map!Next]_(Map!vars)]_vars
=============================================================================
