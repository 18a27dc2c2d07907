------------------------ MODULE MCInvocationQueue ------------------------
(***************************************************************************)
(* Instances of InvocationQueue for TLC.  All threads belong to one Bud,   *)
(* which is where they compete for automation capacity and browser control.*)
(***************************************************************************)
EXTENDS InvocationQueue, TLC

CONSTANTS t1, t2, b1, p1, p2, c1, c2

OneBud == [t \in Thread |-> b1]

\* Every task runs in a process of its own, or all of them in process p1.
OwnProcess == [s \in Slot |-> s]
SameProcess == [s \in Slot |-> p1]

Processes == Permutations({p1, p2})
===========================================================================
