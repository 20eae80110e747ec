---------------------------- MODULE MCWorkThread ----------------------------
(* The bounds are in the cfg files; h1, h2 and INVALID are model values.  *)
EXTENDS WorkThread
=============================================================================
