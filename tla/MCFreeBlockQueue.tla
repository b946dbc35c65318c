-------------------------- MODULE MCFreeBlockQueue --------------------------
(* Checks the linked list against the sequence it stands for.              *)
EXTENDS FreeBlockQueue
=============================================================================
