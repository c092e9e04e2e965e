--------------------------- MODULE MCNativeWorker ---------------------------
(* The instance of NativeWorker for TLC.                                   *)
EXTENDS NativeWorker

\* A worker that is done, cancelled or in need of attention has no next step, so
\* the run does not check for deadlock.
=============================================================================
