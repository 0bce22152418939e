---------------------------- MODULE MCAsyncValue ----------------------------
(* Model-checking instances of AsyncValue. *)
EXTENDS AsyncValue
=============================================================================
