------------------------ MODULE CaptureImplementsLog ------------------------
(***************************************************************************)
(* Capture implements CaptureLog: stdio's buffer is what is pending, its   *)
(* error flag says that packets were lost.                                 *)
(***************************************************************************)
EXTENDS Capture

\* The frames that VPP can have sent.
Sent == [id : 1 .. MaxFrames, len : 0 .. MaxLen, conn : 1 .. MaxConnects]

\* How the process has ended.
Outcome == CASE pc = "exited" -> IF rc = 0 THEN "ok" ELSE "failed"
             [] pc = "killed" -> "killed"
             [] OTHER         -> "running"

Log == INSTANCE CaptureLog WITH
         Packets <- Sent, Limits <- MaxBytesChoices,
         limit <- max_bytes, log <- disk.pkts, pending <- buf.pkts,
         count <- packets_captured, bytes <- bytes_captured,
         lost <- ferror, outcome <- Outcome

\* Every run of beastie_run_capture is a run of the abstract log: what is in
\* the file is a prefix of what was captured, in order and within the limit,
\* and exit status 0 is only given with nothing left in stdio's buffer.
ImplementsLog == Log!LogSpec
=============================================================================
