-------------------------- MODULE MCTaskLifecycle --------------------------
(* Instances of TaskLifecycle for TLC.  The tasks do not share rows and the *)
(* repair batch is larger than the instance, so one task shows the          *)
(* interleavings of its own actors.                                         *)
EXTENDS TaskLifecycle
=============================================================================
