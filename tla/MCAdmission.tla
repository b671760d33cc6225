----------------------------- MODULE MCAdmission -----------------------------
(***************************************************************************)
(* Instances of PolicyAdmission for TLC.                                   *)
(***************************************************************************)
EXTENDS PolicyAdmission

=============================================================================
