------------------------- MODULE MCConfirmationGate -------------------------
(* Instances of ConfirmationGate for TLC; the constants are in the .cfg files. *)
EXTENDS ConfirmationGate
=============================================================================
