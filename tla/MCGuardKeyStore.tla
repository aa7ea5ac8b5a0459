--------------------------- MODULE MCGuardKeyStore ---------------------------
(***************************************************************************)
(* Instances of GuardKeyStore for TLC.                                     *)
(***************************************************************************)
EXTENDS GuardKeyStore
=============================================================================
