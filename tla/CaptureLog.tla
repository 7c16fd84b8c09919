----------------------------- MODULE CaptureLog -----------------------------
(***************************************************************************)
(* What beastie promises of a capture, whatever happens inside: the file   *)
(* is a log.  Packets enter it in the order of their arrival, up to the    *)
(* limit; some are still pending when a write fails or the process dies,   *)
(* and then those and all later ones are missing, but never one before     *)
(* them.  Only a run with nothing pending ends well.  Capture implements   *)
(* this: see CaptureImplementsLog.                                         *)
(***************************************************************************)
EXTENDS Integers, Sequences

CONSTANTS
  Packets,  \* what may be captured: records with an id and a len, both in Nat
  Limits    \* limits on the packet bytes of a capture; 0 is none

VARIABLES
  limit,        \* the limit of this capture
  log,          \* the packets in the file
  pending,      \* packets captured that are not in the file yet
  count, bytes, \* packets and bytes captured
  lost,         \* captured packets have been lost
  outcome       \* "running", "ok", "failed" or "killed"

logvars == <<limit, log, pending, count, bytes, lost, outcome>>

Running == outcome = "running"

\* Packet p may be captured: it fits, and it arrived after those recorded.
MayAccept(p) ==
  /\ limit = 0 \/ bytes + p.len <= limit
  /\ \A i \in DOMAIN (log \o pending) : (log \o pending)[i].id < p.id

Accept(p) ==
  /\ Running /\ MayAccept(p)
  /\ count' = count + 1 /\ bytes' = bytes + p.len
  /\ \/ pending' = Append(pending, p) /\ UNCHANGED <<log, lost>>
     \/ ~lost /\ log' = log \o pending /\ pending' = <<p>> /\ UNCHANGED lost
     \/ lost' = TRUE /\ pending' \in {<<>>, pending} /\ UNCHANGED log
  /\ UNCHANGED <<limit, outcome>>

\* Nothing is added behind a gap.
Persist ==
  /\ Running /\ ~lost
  /\ log' = log \o pending /\ pending' = <<>>
  /\ UNCHANGED <<limit, count, bytes, lost, outcome>>

Lose ==
  /\ Running
  /\ lost' = TRUE /\ pending' = <<>>
  /\ UNCHANGED <<limit, log, count, bytes, outcome>>

EndWell ==
  /\ Running /\ pending = <<>>
  /\ outcome' = "ok"
  /\ UNCHANGED <<limit, log, pending, count, bytes, lost>>

EndFailed ==
  /\ Running
  /\ outcome' = "failed"
  /\ log' = log \/ (~lost /\ log' = log \o pending)
  /\ pending' = <<>>
  /\ UNCHANGED <<limit, count, bytes, lost>>

Crash ==
  /\ Running
  /\ outcome' = "killed" /\ pending' = <<>>
  /\ UNCHANGED <<limit, log, count, bytes, lost>>

LogInit ==
  /\ limit \in Limits
  /\ log = <<>> /\ pending = <<>> /\ count = 0 /\ bytes = 0
  /\ lost = FALSE /\ outcome = "running"

LogNext == \/ \E p \in Packets : Accept(p)
           \/ Persist \/ Lose \/ EndWell \/ EndFailed \/ Crash

LogSpec == LogInit /\ [][LogNext]_logvars
=============================================================================
