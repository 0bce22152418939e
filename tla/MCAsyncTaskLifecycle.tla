------------------------ MODULE MCAsyncTaskLifecycle ------------------------
(* Model-checking instances of AsyncTaskLifecycle. *)
EXTENDS AsyncTaskLifecycle
=============================================================================
