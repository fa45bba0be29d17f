------------------------------- MODULE MCHeap -------------------------------
(***************************************************************************)
(* A heap for TLC: objects of three and of four cells, with padding, and   *)
(* large objects.  Native objects have finalizers.                         *)
(***************************************************************************)
EXTENDS Heap

SmallRequests == {<<5, FALSE>>, <<7, TRUE>>, <<11, FALSE>>, <<11, TRUE>>}
=============================================================================
