---------------------------- MODULE MCAdDispatch ----------------------------
(* The daily dispatch on a small instance: a day of three, split in two.   *)
EXTENDS AdDispatch, TLC
CONSTANTS p1, p2
MCShare == Base :> 3 @@ p1 :> 2 @@ p2 :> 1
MCPlans == {<<Base>>, <<p1, p2>>}
\* Two overlapping jobs with every fault, or four one after another.
MCWorlds == {[jobs |-> 2, overlap |-> 2, faults |-> TRUE],
             [jobs |-> 4, overlap |-> 1, faults |-> FALSE]}
MCOverlap == {[jobs |-> 2, overlap |-> 2, faults |-> FALSE]}
JobSymmetry == Permutations(Jobs)
=============================================================================
