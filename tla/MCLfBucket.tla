----------------------------- MODULE MCLfBucket -----------------------------
(* Instances of LfBucket for TLC.                                          *)
EXTENDS LfBucket, TLC

CONSTANTS t1, t2, t3, k1, k2

ThreadSymmetry == Permutations(Threads)
Symmetry == ThreadSymmetry \cup Permutations(Keys)

(* Only t1 is sure to be scheduled: t2 may stop at any point of a call and *)
(* never run again.  A call of one thread then needs no other to return.   *)
LoneSpec == Spec /\ WF_vars(Work(t1) /\ Observe)

(* A call returns though the other thread never moves again, wherever it   *)
(* stopped, unless the bucket stays full.                                  *)
LoneCallReturns == Returns(t1)

(* A get returns even then.                                                *)
LoneGetReturns == GetReturns(t1)
=============================================================================
