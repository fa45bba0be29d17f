---------------------------- MODULE MCScheduler ----------------------------
(* Model checking the scheduler. *)
EXTENDS Scheduler, TLC

\* The coroutines are interchangeable: neither the list nor the loop compares
\* them for anything but identity.
Symmetry == Permutations(Coroutines)
=============================================================================
