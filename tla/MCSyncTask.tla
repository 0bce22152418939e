----------------------------- MODULE MCSyncTask -----------------------------
(* Model-checking instances of SyncTask. *)
EXTENDS SyncTask
=============================================================================
