----------------------------- MODULE MCLinkList -----------------------------
(***************************************************************************)
(* LinkList for TLC.  No symmetry: both runs check liveness.               *)
(***************************************************************************)
EXTENDS LinkList
=============================================================================
