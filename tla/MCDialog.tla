------------------------------ MODULE MCDialog ------------------------------
(***************************************************************************)
(* A text of the speed list and two that were typed: a separator after the *)
(* first digits, and no digits at all.  Every frame type; two of the five  *)
(* commands, which the dialog treats alike.                                *)
(***************************************************************************)
EXTENDS Dialog, TLC

SpeedTable == "38400" :> 38400 @@ "115,200" :> 115 @@ "abc" :> 0
SpeedSet == DOMAIN SpeedTable
=============================================================================
