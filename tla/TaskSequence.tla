---------------------------- MODULE TaskSequence ----------------------------
(***************************************************************************)
(* What task numbering promises to the users of a project, with no locks,  *)
(* counters or transactions: a project hands out the numbers 1, 2, 3, ...  *)
(* one at a time, each to one task, and never takes a number back.         *)
(***************************************************************************)
EXTENDS Naturals

CONSTANT Project

VARIABLE issued     \* issued[p]: the numbers of the tasks of project p

Init == issued = [p \in Project |-> {}]

\* The next task of p gets the smallest positive number not yet used in p:
\* 1, or the successor of a number in use.
Issue(p) ==
    \E n \in {1} \cup {m + 1 : m \in issued[p]} :
        /\ n \notin issued[p]
        /\ 1 .. (n - 1) \subseteq issued[p]
        /\ issued' = [issued EXCEPT ![p] = @ \cup {n}]

Next == \E p \in Project : Issue(p)

Spec == Init /\ [][Next]_issued
=============================================================================
