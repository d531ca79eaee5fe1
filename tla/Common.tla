------------------------------- MODULE Common -------------------------------
(* An Option that is not set, in every module.                             *)
CONSTANT None
=============================================================================
