-------------------------- MODULE MCCollaboration ---------------------------
(***************************************************************************)
(* Model checking of the collaboration mailbox on small instances.         *)
(***************************************************************************)
EXTENDS Collaboration
=============================================================================
