------------------------------ MODULE MCLoader ------------------------------
(* A small instance of Loader. *)
EXTENDS Loader, TLC

CONSTANTS t1, t2

TwoThreads == {t1, t2}

\* Threads are interchangeable.
ThreadSymmetry == Permutations(Threads)
=============================================================================
