----------------------------- MODULE MCCapture -----------------------------
(* Model-checking instances of Capture; the bounds are in the .cfg files.  *)
EXTENDS CaptureImplementsLog
=============================================================================
