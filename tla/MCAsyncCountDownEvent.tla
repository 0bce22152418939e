----------------------- MODULE MCAsyncCountDownEvent -----------------------
(* Model-checking instances of AsyncCountDownEvent. *)
EXTENDS AsyncCountDownEvent
=============================================================================
