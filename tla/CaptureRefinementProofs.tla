---------------------- MODULE CaptureRefinementProofs ----------------------
(***************************************************************************)
(* Capture implements CaptureLog, for every size of ring, burst and        *)
(* buffer, every limit and all failures.                                   *)
(***************************************************************************)
EXTENDS CaptureImplementsLog, CaptureOrderProofs

-----------------------------------------------------------------------------
(* The device and stdio's error flag                                       *)

\* stdio has the error flag set only if the device had failed, which does not
\* come back: once frames are missing nothing reaches the file any more.
DeviceInv == ferror => ~device_ok

\* The device does not come back, and an error is one of the device.
LEMMA DeviceNext == DeviceInv /\ [Next]_vars => DeviceInv'
<1> SUFFICES ASSUME DeviceInv, [Next]_vars PROVE DeviceInv'
  OBVIOUS
<1> USE DEF DeviceInv, command, counters, calls, file, device, link, events, memif
<1>1. CASE RxBurst \/ RxBurstFails \/ StopOverLimit \/ WriteFails \/ BurstDone
  BY <1>1 DEF RxBurst, RxBurstFails, StopOverLimit, WriteFails, BurstDone
<1>2. CASE CapturePacket
  BY <1>2 DEF CapturePacket, WritePacket, FlushSucceeds
<1>3. CASE AfterBurst \/ AfterBurstFlushFails \/ Finish
  BY <1>3 DEF AfterBurst, AfterBurstFlushFails, Finish, FlushOk, FlushFails, FlushSucceeds
<1>4. CASE Poll
  BY <1>4 DEF Poll, PollConnect, PollDisconnect, PollCancel, PollInterrupt
<1>5. CASE Setup \/ SetupFails \/ LoopTest \/ EnterPoll \/ AfterPoll \/ Cleanup
  BY <1>5 DEF Setup, SetupFails, LoopTest, EnterPoll, AfterPoll, Cleanup
<1>6. CASE Signal \/ Kill \/ DeviceFails \/ PollFails
  BY <1>6 DEF Signal, Kill, DeviceFails, PollFails
<1>7. CASE PeerConnects \/ PeerCloses \/ \E len \in Lens : Deliver(len)
  BY <1>7 DEF PeerConnects, PeerCloses, Deliver
<1>8. CASE UNCHANGED vars
  BY <1>8 DEF vars
<1> QED BY <1>1, <1>2, <1>3, <1>4, <1>5, <1>6, <1>7, <1>8
        DEF Next, Beastie, Callback, Main, Environment, Terminated

\* It holds in every reachable state, next to what is known of the frames.
LEMMA DeviceCorrect == Spec => [](TypeOK /\ Account /\ OrderInv /\ DeviceInv)
<1>1. Init => DeviceInv
  BY DEF Init, DeviceInv
<1> QED BY <1>1, DeviceNext, OrderCorrect, PTL DEF Spec

-----------------------------------------------------------------------------
(* Steps of the log                                                        *)

\* How the outcome follows from where beastie_run_capture stands, before and
\* after a step.
LEMMA OutcomeCases ==
  /\ ~Ended => Outcome = "running"
  /\ ~Ended' => Outcome' = "running"
  /\ pc' = "exited" => Outcome' = IF rc' = 0 THEN "ok" ELSE "failed"
  /\ pc' = "killed" => Outcome' = "killed"
BY DEF Outcome, Ended

\* What the log does not see.
Unseen ==
  UNCHANGED <<max_bytes, disk, buf, packets_captured, bytes_captured, ferror, Outcome>>

LEMMA UnseenStutters == Unseen => UNCHANGED Log!logvars
BY DEF Unseen, Log!logvars

\* Everything but writing, ending and dying is hidden from the log.
LEMMA UnseenSteps ==
  ASSUME \/ RxBurst \/ RxBurstFails \/ StopOverLimit \/ WriteFails \/ BurstDone
         \/ Poll \/ Setup \/ SetupFails \/ LoopTest \/ EnterPoll \/ AfterPoll
         \/ Signal \/ DeviceFails \/ PollFails \/ PeerConnects \/ PeerCloses
         \/ \E len \in Lens : Deliver(len)
         \/ UNCHANGED vars
  PROVE  Unseen
<1> USE DEF command, counters, calls, file, device, link, events, memif
<1>1. /\ UNCHANGED <<max_bytes, disk, buf, packets_captured, bytes_captured, ferror, rc>>
      /\ pc' = pc \/ (~Ended /\ ~Ended')
  <2>1. CASE RxBurst \/ RxBurstFails \/ StopOverLimit \/ WriteFails \/ BurstDone
    BY <2>1 DEF RxBurst, RxBurstFails, StopOverLimit, WriteFails, BurstDone, Returns, Ended
  <2>2. CASE Poll
    BY <2>2 DEF Poll, PollConnect, PollDisconnect, PollCancel, PollInterrupt, Returns, Ended
  <2>3. CASE Setup \/ SetupFails \/ LoopTest \/ EnterPoll \/ AfterPoll
    BY <2>3 DEF Setup, SetupFails, LoopTest, EnterPoll, AfterPoll, Ended
  <2>4. CASE Signal \/ DeviceFails \/ PollFails
    BY <2>4 DEF Signal, DeviceFails, PollFails, Ended
  <2>5. CASE PeerConnects \/ PeerCloses \/ \E len \in Lens : Deliver(len)
    BY <2>5 DEF PeerConnects, PeerCloses, Deliver
  <2>6. CASE UNCHANGED vars
    BY <2>6 DEF vars
  <2> QED BY <2>1, <2>2, <2>3, <2>4, <2>5, <2>6
<1>2. Outcome' = Outcome
  <2>1. CASE pc' = pc
    BY <1>1, <2>1 DEF Outcome
  <2>2. CASE ~Ended /\ ~Ended'
    <3>1. Outcome = "running" /\ Outcome' = "running"
      BY <2>2, OutcomeCases
    <3> QED BY <3>1
  <2> QED BY <1>1, <2>1, <2>2
<1> QED BY <1>1, <1>2 DEF Unseen

\* The buffer of stdio is written out, while nothing has been lost before.
LEMMA FlushPersists ==
  ASSUME TypeOK, DeviceInv, FlushOk, ~Ended, ~Ended',
         UNCHANGED <<max_bytes, packets_captured, bytes_captured>>
  PROVE  [Log!LogNext]_(Log!logvars)
<1>0. Outcome = "running" /\ Outcome' = "running"
  BY OutcomeCases
<1>1. /\ disk'.pkts = disk.pkts \o buf.pkts /\ buf'.pkts = << >>
      /\ ferror' = ferror
  BY DEF FlushOk, Join, Empty
<1>2. CASE ~ferror
  BY <1>0, <1>1, <1>2 DEF Log!LogNext, Log!Persist, Log!Running
<1>3. CASE ferror
  <2>1. buf = Empty
    BY <1>3 DEF DeviceInv, FlushOk, FlushSucceeds
  <2>2. disk.pkts \o << >> = disk.pkts
    BY RecordedType, ConcatEmptySeq
  <2>3. disk'.pkts = disk.pkts /\ buf'.pkts = buf.pkts
    BY <1>1, <2>1, <2>2 DEF Empty
  <2> QED BY <1>0, <1>1, <2>3 DEF Log!logvars
<1> QED BY <1>2, <1>3

\* The buffer of stdio is lost.
LEMMA FlushLoses ==
  ASSUME FlushFails, ~Ended, ~Ended',
         UNCHANGED <<max_bytes, packets_captured, bytes_captured>>
  PROVE  Log!LogNext
<1>0. Outcome = "running" /\ Outcome' = "running"
  BY OutcomeCases
<1> QED BY <1>0 DEF FlushFails, Empty, Log!LogNext, Log!Lose, Log!Running

\* The packet at hand may be accepted: VPP has sent it, after those recorded,
\* and it fits.
LEMMA PacketAcceptable ==
  ASSUME TypeOK, OrderInv, burst # << >>, ~OverLimit(NextBuf)
  PROVE  NextBuf \in Sent /\ Log!MayAccept(NextBuf)
<1>1. /\ NextBuf \in Frame
      /\ NextBuf \in FramesOf(burst)
  <2>1. burst \in Seq(Frame) /\ NextBuf = burst[1] /\ Len(burst) \in Nat \ {0}
    BY RecordedType, LenProperties, EmptySeq DEF NextBuf
  <2> QED BY <2>1, LenProperties DEF FramesOf
<1>2. NextBuf.id \in 1 .. sent /\ NextBuf.conn \in 1 .. LastConn
  BY <1>1 DEF OrderInv, Known
<1>3. NextBuf \in Sent
  <2>1. sent \in 0 .. MaxFrames /\ LastConn \in Int /\ LastConn <= MaxConnects
    BY CaptureAssumption DEF TypeOK, MemifTypeOK, LastConn
  <2>2. NextBuf.id \in 1 .. MaxFrames /\ NextBuf.conn \in 1 .. MaxConnects
    BY <1>2, <2>1, CaptureAssumption
  <2> QED BY <1>1, <2>2 DEF Frame, Sent
<1>4. max_bytes = 0 \/ bytes_captured + NextBuf.len <= max_bytes
  <2>1. max_bytes \in Nat /\ bytes_captured \in Nat /\ NextBuf.len \in Int
    BY <1>1, CaptureAssumption DEF TypeOK, CommandTypeOK, Frame
  <2> QED BY <2>1 DEF OverLimit
<1>5. \A i \in DOMAIN recorded : recorded[i].id < NextBuf.id
  <2>1. DOMAIN recorded = 1 .. Len(recorded)
    BY RecordedType, LenProperties
  <2> QED BY <1>1, <2>1 DEF OrderInv, Below, FramesOf
<1> QED BY <1>3, <1>4, <1>5 DEF Log!MayAccept, recorded

\* Writing a packet is accepting it, with the record kept back, together with
\* a full buffer written out, or lost.
LEMMA PacketAccepted ==
  ASSUME TypeOK, Account, OrderInv, DeviceInv, CapturePacket
  PROVE  Log!LogNext
<1> DEFINE p == NextBuf
<1>1. /\ burst # << >> /\ ~OverLimit(p) /\ WritePacket(p) /\ ~Ended /\ ~Ended'
      /\ packets_captured' = packets_captured + 1
      /\ bytes_captured' = bytes_captured + p.len /\ max_bytes' = max_bytes
  BY DEF CapturePacket, Ended, command
<1>2. p \in Sent /\ Log!MayAccept(p)
  BY <1>1, PacketAcceptable
<1>3. Outcome = "running" /\ Outcome' = "running"
  BY <1>1, OutcomeCases
<1>4. OpenedDisk = disk
  BY <1>1 DEF OpenedDisk, Account
<1> HIDE DEF p
<1>5. \/ buf'.pkts = Append(buf.pkts, p) /\ UNCHANGED <<disk.pkts, ferror>>
      \/ /\ ~ferror /\ disk'.pkts = disk.pkts \o buf.pkts
         /\ buf'.pkts = <<p>> /\ ferror' = ferror
      \/ ferror' = TRUE /\ buf'.pkts \in {<< >>, buf.pkts} /\ disk'.pkts = disk.pkts
  <2>1. CASE disk' = OpenedDisk /\ buf' = AddRecord(buf, p) /\ ferror' = ferror
    BY <1>4, <2>1 DEF AddRecord
  <2>2. CASE device_ok /\ disk' = Join(OpenedDisk, buf) /\ buf' = AddRecord(Empty, p) /\ ferror' = ferror
    <3>1. Append(<< >>, p) = <<p>>
      OBVIOUS
    <3>2. Append(Empty.pkts, p) = <<p>>
      BY <3>1 DEF Empty
    <3> QED BY <1>4, <2>2, <3>2 DEF AddRecord, Join, DeviceInv
  <2>3. CASE disk' = disk /\ buf' = Empty /\ ferror' = TRUE
    BY <2>3 DEF Empty
  <2>4. CASE ferror /\ UNCHANGED <<disk, buf, ferror>>
    <3>1. ferror' = TRUE
      BY <2>4 DEF TypeOK, FileTypeOK
    <3> QED BY <2>4, <3>1
  <2> QED BY <1>1, <2>1, <2>2, <2>3, <2>4 DEF WritePacket
<1>6. Log!Accept(p)
  BY <1>1, <1>2, <1>3, <1>5 DEF Log!Accept, Log!Running
<1> QED BY <1>2, <1>6 DEF Log!LogNext

\* The end of the process is one of the three ends of the log.
LEMMA EndAccepted ==
  ASSUME TypeOK, Account, DeviceInv, Cleanup \/ Kill
  PROVE  Log!LogNext
<1> USE DEF command, counters, file
<1>1. CASE Kill
  <2>1. Outcome = "running" /\ Outcome' = "killed"
    BY <1>1, OutcomeCases DEF Kill
  <2> QED BY <1>1, <2>1 DEF Kill, Empty, Log!LogNext, Log!Crash, Log!Running
<1>2. CASE Cleanup
  <2>1. /\ Outcome = "running" /\ Outcome' = IF rc = 0 THEN "ok" ELSE "failed"
        /\ buf'.pkts = << >> /\ ferror' = ferror
        /\ UNCHANGED <<max_bytes, packets_captured, bytes_captured>>
    BY <1>2, OutcomeCases DEF Cleanup, Ended, Empty
  <2>2. CASE buf = Empty
    <3>1. disk.pkts \o << >> = disk.pkts
      BY RecordedType, ConcatEmptySeq
    <3>2. disk'.pkts = disk.pkts /\ buf.pkts = << >>
      BY <1>2, <2>2, <3>1 DEF Cleanup, Join, Empty
    <3> QED BY <2>1, <3>2 DEF Log!LogNext, Log!EndWell, Log!EndFailed, Log!Running
  <2>3. CASE buf # Empty
    <3>1. rc # 0
      BY <2>3 DEF Account
    <3>2. disk'.pkts = disk.pkts \/ (~ferror /\ disk'.pkts = disk.pkts \o buf.pkts)
      BY <1>2, <2>3 DEF Cleanup, FlushSucceeds, DeviceInv, Join
    <3> QED BY <2>1, <3>1, <3>2 DEF Log!LogNext, Log!EndFailed, Log!Running
  <2> QED BY <2>2, <2>3
<1> QED BY <1>1, <1>2

-----------------------------------------------------------------------------
(* Refinement                                                              *)

\* Every step of beastie, libmemif and the environment is a step of the log or
\* hidden from it.
LEMMA LogStep ==
  TypeOK /\ Account /\ OrderInv /\ DeviceInv /\ [Next]_vars => [Log!LogNext]_(Log!logvars)
<1> SUFFICES ASSUME TypeOK, Account, OrderInv, DeviceInv, [Next]_vars
             PROVE  [Log!LogNext]_(Log!logvars)
  OBVIOUS
<1> USE DEF command, counters
<1>1. CASE CapturePacket
  BY <1>1, PacketAccepted
<1>2. CASE AfterBurst
  <2>1. ~Ended /\ ~Ended' /\ UNCHANGED <<max_bytes, rc, packets_captured, bytes_captured>>
    BY <1>2 DEF AfterBurst, Returns, Ended
  <2>2. CASE FlushOk
    BY <2>1, <2>2, FlushPersists
  <2>3. CASE UNCHANGED <<buf, disk, ferror>>
    <3>1. Outcome = "running" /\ Outcome' = "running"
      BY <2>1, OutcomeCases
    <3> QED BY <2>1, <2>3, <3>1, UnseenStutters DEF Unseen
  <2> QED BY <1>2, <2>2, <2>3 DEF AfterBurst
<1>3. CASE AfterBurstFlushFails
  <2>1. ~Ended /\ ~Ended' /\ UNCHANGED <<max_bytes, packets_captured, bytes_captured>>
    BY <1>3 DEF AfterBurstFlushFails, Returns, Ended
  <2> QED BY <1>3, <2>1, FlushLoses DEF AfterBurstFlushFails
<1>4. CASE Finish
  <2>1. ~Ended /\ ~Ended' /\ UNCHANGED <<max_bytes, packets_captured, bytes_captured>>
    BY <1>4 DEF Finish, Ended
  <2> QED BY <1>4, <2>1, FlushPersists, FlushLoses DEF Finish
<1>5. CASE Cleanup \/ Kill
  BY <1>5, EndAccepted
<1>6. CASE \/ RxBurst \/ RxBurstFails \/ StopOverLimit \/ WriteFails \/ BurstDone
           \/ Poll \/ Setup \/ SetupFails \/ LoopTest \/ EnterPoll \/ AfterPoll
           \/ Signal \/ DeviceFails \/ PollFails \/ PeerConnects \/ PeerCloses
           \/ \E len \in Lens : Deliver(len)
           \/ UNCHANGED vars
  BY <1>6, UnseenSteps, UnseenStutters
<1> QED BY <1>1, <1>2, <1>3, <1>4, <1>5, <1>6
        DEF Next, Beastie, Callback, Main, Environment, Terminated

\* beastie_run_capture implements the log: whatever the ring, the device, the
\* peer and the signals do, the file is a prefix of the packets captured, in
\* order and within the limit, and exit status 0 is only given with nothing
\* left in stdio's buffer.
THEOREM CaptureIsLog == Spec => ImplementsLog
<1>1. Init => Log!LogInit
  <2> SUFFICES ASSUME Init PROVE Log!LogInit
    OBVIOUS
  <2>1. Outcome = "running"
    BY OutcomeCases DEF Init, Ended
  <2> QED BY <2>1 DEF Init, Empty, Log!LogInit
<1> QED BY <1>1, LogStep, DeviceCorrect, PTL DEF Spec, ImplementsLog, Log!LogSpec
=============================================================================
