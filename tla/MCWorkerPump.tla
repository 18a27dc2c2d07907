---------------------------- MODULE MCWorkerPump ----------------------------
\* Instances of WorkerPump for model checking.
EXTENDS WorkerPump, TLC

\* Invocations and the identities of drains are interchangeable.
Symmetry == Permutations(Inv) \cup Permutations(Drain)
=============================================================================
