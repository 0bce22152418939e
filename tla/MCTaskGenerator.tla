-------------------------- MODULE MCTaskGenerator --------------------------
(* Model-checking instances of TaskGenerator. *)
EXTENDS TaskGenerator
=============================================================================
