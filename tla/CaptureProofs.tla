--------------------------- MODULE CaptureProofs ---------------------------
(***************************************************************************)
(* What Capture guarantees for every ring and burst size, flush interval,  *)
(* packet length, limit and number of frames and connections.              *)
(***************************************************************************)
EXTENDS Capture, SequenceTheorems, TLAPS

-----------------------------------------------------------------------------
(* The operators on records and bursts                                     *)

\* A file with no record yet.
LEMMA EmptyLemma == Empty \in Records /\ Empty.pkts = << >> /\ Empty.bytes = 0 /\ Len(Empty.pkts) = 0
<1>1. << >> \in Seq(Frame) /\ Len(<< >>) = 0
  BY EmptySeq
<1> QED BY <1>1 DEF Empty, Records

\* Writing the buffer out keeps the type of the file and adds up its records.
LEMMA JoinLemma ==
  ASSUME NEW f \in Records, NEW g \in Records
  PROVE  /\ Join(f, g) \in Records
         /\ Join(f, g).bytes = f.bytes + g.bytes
         /\ Len(Join(f, g).pkts) = Len(f.pkts) + Len(g.pkts)
<1>1. f.pkts \in Seq(Frame) /\ g.pkts \in Seq(Frame) /\ f.bytes \in Nat /\ g.bytes \in Nat
  BY DEF Records
<1>2. f.pkts \o g.pkts \in Seq(Frame) /\ Len(f.pkts \o g.pkts) = Len(f.pkts) + Len(g.pkts)
  BY <1>1, ConcatProperties
<1> QED BY <1>1, <1>2 DEF Join, Records

\* So does dumping one packet.
LEMMA AddRecordLemma ==
  ASSUME NEW f \in Records, NEW p \in Frame
  PROVE  /\ AddRecord(f, p) \in Records
         /\ AddRecord(f, p).bytes = f.bytes + p.len
         /\ Len(AddRecord(f, p).pkts) = Len(f.pkts) + 1
<1>1. f.pkts \in Seq(Frame) /\ f.bytes \in Nat /\ p.len \in Nat
  BY CaptureAssumption DEF Records, Frame
<1>2. Append(f.pkts, p) \in Seq(Frame) /\ Len(Append(f.pkts, p)) = Len(f.pkts) + 1
  BY <1>1
<1> QED BY <1>1, <1>2 DEF AddRecord, Records

\* Cutting a ring of frames in two: both parts are frames and no slot is lost.
LEMMA CutLemma ==
  ASSUME NEW s \in Seq(Frame), NEW n \in 0 .. Len(s)
  PROVE  /\ SubSeq(s, 1, n) \in Seq(Frame) /\ Len(SubSeq(s, 1, n)) = n
         /\ SubSeq(s, n + 1, Len(s)) \in Seq(Frame)
         /\ Len(SubSeq(s, n + 1, Len(s))) = Len(s) - n
<1>1. \A i \in 1 .. Len(s) : s[i] \in Frame
  BY ElementOfSeq
<1>2. Len(s) \in Nat
  BY LenProperties
<1>3. /\ SubSeq(s, 1, n) \in Seq(Frame)
      /\ Len(SubSeq(s, 1, n)) = IF 1 <= n THEN n - 1 + 1 ELSE 0
  <2>1. \A i \in 1 .. n : s[i] \in Frame
    BY <1>1, <1>2
  <2> QED BY <2>1, <1>2, SubSeqProperties
<1>4. /\ SubSeq(s, n + 1, Len(s)) \in Seq(Frame)
      /\ Len(SubSeq(s, n + 1, Len(s))) = IF n + 1 <= Len(s) THEN Len(s) - (n + 1) + 1 ELSE 0
  <2>1. \A i \in n + 1 .. Len(s) : s[i] \in Frame
    BY <1>1, <1>2
  <2>2. n + 1 \in Int /\ Len(s) \in Int
    BY <1>2
  <2> QED BY <2>1, <2>2, SubSeqProperties
<1> QED BY <1>2, <1>3, <1>4

\* A burst never takes more than the array holds or than the ring has.
LEMMA BurstLenLemma ==
  ASSUME ring \in Seq(Frame)
  PROVE  BurstLen \in 0 .. Len(ring) /\ BurstLen \in 0 .. MaxBufs
BY CaptureAssumption, LenProperties DEF BurstLen

\* The next buffer of a burst and the rest of it.
LEMMA NextBufLemma ==
  ASSUME burst \in Seq(Frame), burst # << >>
  PROVE  /\ NextBuf \in Frame /\ NextBuf.len \in 0 .. MaxLen
         /\ Tail(burst) \in Seq(Frame) /\ Len(Tail(burst)) = Len(burst) - 1
<1>1. /\ Head(burst) \in Frame
      /\ Tail(burst) \in Seq(Frame) /\ Len(Tail(burst)) = Len(burst) - 1
  BY HeadTailProperties
<1>2. \A p \in Frame : p.len \in 0 .. MaxLen
  BY DEF Frame
<1> QED BY <1>1, <1>2 DEF NextBuf
-----------------------------------------------------------------------------
(* Type correctness                                                        *)
(* TypeOK bounds the free slots by the ring size, which on_interrupt keeps *)
(* only because it returns no more slots than the burst took.  Slots says  *)
(* where the slots of the ring are.                                        *)

\* Slots of the burst that on_interrupt still has to hand back.
InFlight == IF pc \in {"packet", "after_burst"} THEN rx ELSE 0

\* No slot exists twice, and without a connection there is none.
Slots ==
  /\ free + Len(ring) + InFlight <= RingSize
  /\ conn \in {"down", "connecting"} => ring = << >> /\ free = 0 /\ InFlight = 0

TypeInv == TypeOK /\ Slots

\* Callbacks keep the types and the slots.
LEMMA TypeCallback == TypeInv /\ Callback => TypeInv'
<1> SUFFICES ASSUME TypeOK, Slots, Callback
             PROVE  TypeOK' /\ Slots'
  BY DEF TypeInv
<1> USE CaptureAssumption
    DEF command, counters, calls, file, device, link, events, memif,
        CommandTypeOK, FileTypeOK, MemifTypeOK
<1>0. ring \in Seq(Frame) /\ Len(ring) \in Nat /\ burst \in Seq(Frame) /\ Len(burst) \in Nat
  BY LenProperties DEF TypeOK
<1>e. << >> \in Seq(Frame) /\ Len(<< >>) = 0
  BY EmptySeq
<1>1. CASE RxBurst
  <2>1. BurstLen \in 0 .. Len(ring) /\ BurstLen \in 0 .. MaxBufs
    BY <1>0, BurstLenLemma
  <2>2. burst' \in Seq(Frame) /\ ring' \in Seq(Frame) /\ Len(ring') = Len(ring) - BurstLen
    BY <1>0, <1>1, <2>1, CutLemma DEF RxBurst
  <2>3. TypeOK'
    BY <1>1, <2>1, <2>2 DEF RxBurst, TypeOK, PCs
  <2>4. Slots'
    BY <1>0, <1>1, <2>1, <2>2 DEF RxBurst, TypeOK, Slots, InFlight
  <2> QED BY <2>3, <2>4
<1>2. CASE RxBurstFails
  <2>1. BurstLen \in 0 .. Len(ring)
    BY <1>0, BurstLenLemma
  <2>2. PICK n \in 0 .. BurstLen : ring' = SubSeq(ring, n + 1, Len(ring))
    BY <1>2 DEF RxBurstFails
  <2>3. n \in 0 .. Len(ring)
    BY <1>0, <2>1
  <2>4. ring' \in Seq(Frame) /\ Len(ring') = Len(ring) - n
    BY <1>0, <2>2, <2>3, CutLemma
  <2>5. n = 0 \/ ring # << >>
    BY <1>e, <2>3
  <2>6. TypeOK'
    BY <1>2, <2>4 DEF RxBurstFails, Returns, TypeOK, PCs
  <2>7. conn \in {"down", "connecting"} => Len(ring') = 0
    BY <1>0, <1>e, <2>3, <2>4 DEF Slots
  <2>8. Len(ring') = 0 => ring' = << >>
    BY <2>4
  <2>9. Slots'
    BY <1>0, <1>2, <2>3, <2>4, <2>7, <2>8 DEF RxBurstFails, Returns, TypeOK, Slots, InFlight
  <2> QED BY <2>6, <2>9
<1>3. CASE StopOverLimit
  <2>1. TypeOK'
    BY <1>e, <1>3 DEF StopOverLimit, TypeOK, PCs
  <2>2. Slots'
    BY <1>3 DEF StopOverLimit, Slots, InFlight
  <2> QED BY <2>1, <2>2
<1>4. CASE WriteFails
  <2>1. TypeOK'
    BY <1>e, <1>4 DEF WriteFails, Returns, TypeOK, PCs
  <2>2. Slots'
    BY <1>0, <1>4 DEF WriteFails, Returns, TypeOK, Slots, InFlight
  <2> QED BY <2>1, <2>2
<1>5. CASE CapturePacket
  <2>1. /\ NextBuf \in Frame /\ NextBuf.len \in 0 .. MaxLen
        /\ Tail(burst) \in Seq(Frame)
    BY <1>0, <1>5, NextBufLemma DEF CapturePacket
  <2>2. buf' \in Records /\ disk' \in Records /\ ferror' \in BOOLEAN /\ initialized' \in BOOLEAN
    <3>1. WritePacket(NextBuf)
      BY <1>5 DEF CapturePacket
    <3>2. OpenedDisk \in Records
      BY EmptyLemma DEF OpenedDisk, TypeOK
    <3>3. buf \in Records /\ disk \in Records /\ ferror \in BOOLEAN
      BY DEF TypeOK
    <3>4. CASE disk' = OpenedDisk /\ buf' = AddRecord(buf, NextBuf) /\ ferror' = ferror
      BY <2>1, <3>1, <3>2, <3>3, <3>4, AddRecordLemma DEF WritePacket
    <3>5. CASE disk' = Join(OpenedDisk, buf) /\ buf' = AddRecord(Empty, NextBuf) /\ ferror' = ferror
      BY <2>1, <3>1, <3>2, <3>3, <3>5, AddRecordLemma, JoinLemma, EmptyLemma DEF WritePacket
    <3>6. CASE disk' = disk /\ buf' = Empty /\ ferror' = TRUE
      BY <3>1, <3>3, <3>6, EmptyLemma DEF WritePacket
    <3>7. CASE UNCHANGED <<disk, buf, ferror>>
      BY <3>1, <3>3, <3>7 DEF WritePacket
    <3> QED BY <3>1, <3>4, <3>5, <3>6, <3>7 DEF WritePacket
  <2>3. TypeOK'
    BY <1>e, <1>5, <2>1, <2>2 DEF CapturePacket, LimitReached, TypeOK, PCs
  <2>4. Slots'
    BY <1>5 DEF CapturePacket, Slots, InFlight
  <2> QED BY <2>3, <2>4
<1>6. CASE BurstDone
  BY <1>6 DEF BurstDone, TypeOK, PCs, Slots, InFlight
<1>7. CASE AfterBurst
  <2>1. buf' \in Records /\ disk' \in Records /\ ferror' \in BOOLEAN
        /\ bytes_since_last_flush' \in Nat
    <3>1. buf \in Records /\ disk \in Records /\ ferror \in BOOLEAN
          /\ bytes_since_last_flush \in Nat
      BY DEF TypeOK
    <3>2. CASE FlushDue
      <4>1. /\ disk' = Join(disk, buf) /\ buf' = Empty /\ ferror' = ferror
            /\ bytes_since_last_flush' = 0
        BY <1>7, <3>2 DEF AfterBurst, FlushOk
      <4> QED BY <3>1, <4>1, EmptyLemma, JoinLemma
    <3>3. CASE ~FlushDue
      BY <1>7, <3>1, <3>3 DEF AfterBurst
    <3> QED BY <3>2, <3>3
  <2>2. TypeOK'
    BY <1>0, <1>7, <2>1 DEF AfterBurst, Refilled, Returns, TypeOK, PCs, Slots, InFlight
  <2>3. Slots'
    BY <1>0, <1>7 DEF AfterBurst, Refilled, Returns, TypeOK, Slots, InFlight
  <2> QED BY <2>2, <2>3
<1>8. CASE AfterBurstFlushFails
  <2>1. TypeOK'
    BY <1>8, EmptyLemma DEF AfterBurstFlushFails, FlushFails, Returns, TypeOK, PCs
  <2>2. Slots'
    BY <1>0, <1>8 DEF AfterBurstFlushFails, Returns, TypeOK, Slots, InFlight
  <2> QED BY <2>1, <2>2
<1> QED BY <1>1, <1>2, <1>3, <1>4, <1>5, <1>6, <1>7, <1>8 DEF Callback

\* So do the steps of libmemif inside memif_poll_event.
LEMMA TypePoll == TypeInv /\ Poll => TypeInv'
<1> SUFFICES ASSUME TypeOK, Slots, Poll
             PROVE  TypeOK' /\ Slots'
  BY DEF TypeInv
<1> USE CaptureAssumption
    DEF command, counters, calls, file, device, link, events, memif,
        CommandTypeOK, FileTypeOK, MemifTypeOK
<1>e. << >> \in Seq(Frame) /\ Len(<< >>) = 0
  BY EmptySeq
<1>1. CASE PollConnect
  <2>1. TypeOK'
    BY <1>1 DEF PollConnect, Returns, TypeOK, PCs
  <2>2. Slots'
    BY <1>e, <1>1 DEF PollConnect, Returns, TypeOK, Slots, InFlight
  <2> QED BY <2>1, <2>2
<1>2. CASE PollDisconnect
  <2>1. CommandTypeOK' /\ FileTypeOK'
    BY <1>2 DEF PollDisconnect, TypeOK, PCs
  <2>2. ring' \in Seq(Frame) /\ intr' \in BOOLEAN /\ cancel' \in BOOLEAN
    BY <1>e, <1>2, Zenon DEF PollDisconnect
  <2>3. MemifTypeOK'
    BY <1>2, <2>2 DEF PollDisconnect, TypeOK
  <2>4. Slots'
    BY <1>e, <1>2 DEF PollDisconnect, Slots, InFlight
  <2> QED BY <2>1, <2>3, <2>4 DEF TypeOK
<1>3. CASE PollCancel
  BY <1>3 DEF PollCancel, TypeOK, PCs, Slots, InFlight
<1>4. CASE PollInterrupt
  <2>1. CommandTypeOK' /\ FileTypeOK' /\ Slots'
    BY <1>4 DEF PollInterrupt, TypeOK, PCs, Slots, InFlight
  <2>2. MemifTypeOK'
    BY <1>4 DEF PollInterrupt, TypeOK
  <2> QED BY <2>1, <2>2 DEF TypeOK
<1> QED BY <1>1, <1>2, <1>3, <1>4 DEF Poll

\* So does beastie_run_capture itself.
LEMMA TypeMain == TypeInv /\ Main => TypeInv'
<1> SUFFICES ASSUME TypeOK, Slots, Main
             PROVE  TypeOK' /\ Slots'
  BY DEF TypeInv
<1> USE CaptureAssumption
    DEF command, counters, calls, file, device, link, events, memif,
        CommandTypeOK, FileTypeOK, MemifTypeOK
<1>e. << >> \in Seq(Frame) /\ Len(<< >>) = 0
  BY EmptySeq
<1>1. CASE Setup
  BY <1>1 DEF Setup, TypeOK, PCs, Slots, InFlight
<1>2. CASE SetupFails
  BY <1>2 DEF SetupFails, TypeOK, PCs, Slots, InFlight
<1>3. CASE LoopTest
  BY <1>3 DEF LoopTest, TypeOK, PCs, Slots, InFlight
<1>4. CASE EnterPoll
  BY <1>4 DEF EnterPoll, TypeOK, PCs, Slots, InFlight
<1>5. CASE AfterPoll
  BY <1>5 DEF AfterPoll, TypeOK, PCs, Slots, InFlight
<1>6. CASE Finish
  <2>1. buf' \in Records /\ disk' \in Records
    <3>1. buf' = Empty /\ disk' \in {disk, Join(disk, buf)}
      BY <1>6 DEF Finish, FlushOk, FlushFails
    <3>2. buf \in Records /\ disk \in Records
      BY DEF TypeOK
    <3> QED BY <3>1, <3>2, EmptyLemma, JoinLemma
  <2>2. CommandTypeOK'
    BY <1>6 DEF Finish, TypeOK, PCs
  <2>3. FileTypeOK'
    BY <1>6, <2>1 DEF Finish, FlushOk, FlushFails, TypeOK
  <2>4. MemifTypeOK' /\ Slots'
    BY <1>6 DEF Finish, TypeOK, Slots, InFlight
  <2> QED BY <2>2, <2>3, <2>4 DEF TypeOK
<1>7. CASE Cleanup
  <2>1. buf' \in Records /\ disk' \in Records
    <3>1. buf' = Empty /\ disk' \in {disk, Join(disk, buf)}
      BY <1>7 DEF Cleanup
    <3>2. buf \in Records /\ disk \in Records
      BY DEF TypeOK
    <3> QED BY <3>1, <3>2, EmptyLemma, JoinLemma
  <2>2. CommandTypeOK'
    BY <1>7 DEF Cleanup, TypeOK, PCs
  <2>3. FileTypeOK'
    BY <1>7, <2>1 DEF Cleanup, TypeOK
  <2>4. MemifTypeOK'
    <3>1. ring' \in Seq(Frame) /\ intr' \in BOOLEAN /\ cancel' \in BOOLEAN
      BY <1>e, <1>7, Zenon DEF Cleanup
    <3> QED BY <1>7, <3>1 DEF Cleanup, TypeOK
  <2>5. Slots'
    BY <1>e, <1>7 DEF Cleanup, Slots, InFlight
  <2> QED BY <2>2, <2>3, <2>4, <2>5 DEF TypeOK
<1> QED BY <1>1, <1>2, <1>3, <1>4, <1>5, <1>6, <1>7 DEF Main

\* So does everything that happens around beastie.
LEMMA TypeEnvironment == TypeInv /\ Environment => TypeInv'
<1> SUFFICES ASSUME TypeOK, Slots, Environment
             PROVE  TypeOK' /\ Slots'
  BY DEF TypeInv
<1> USE CaptureAssumption
    DEF command, counters, calls, file, device, link, events, memif,
        CommandTypeOK, FileTypeOK, MemifTypeOK
<1>e. << >> \in Seq(Frame) /\ Len(<< >>) = 0
  BY EmptySeq
<1>1. CASE Signal
  <2>1. CommandTypeOK'
    BY <1>1 DEF Signal, TypeOK, PCs
  <2>2. FileTypeOK' /\ MemifTypeOK'
    BY <1>1 DEF Signal, TypeOK
  <2>3. Slots'
    BY <1>1 DEF Signal, Slots, InFlight
  <2> QED BY <2>1, <2>2, <2>3 DEF TypeOK
<1>2. CASE Kill
  <2>1. CommandTypeOK'
    BY <1>2 DEF Kill, TypeOK, PCs
  <2>2. FileTypeOK'
    BY <1>2, EmptyLemma DEF Kill, TypeOK
  <2>3. MemifTypeOK'
    <3>1. ring' \in Seq(Frame) /\ intr' \in BOOLEAN /\ cancel' \in BOOLEAN
      BY <1>e, <1>2, Zenon DEF Kill
    <3> QED BY <1>2, <3>1 DEF Kill, TypeOK
  <2>4. Slots'
    BY <1>e, <1>2 DEF Kill, Slots, InFlight
  <2> QED BY <2>1, <2>2, <2>3, <2>4 DEF TypeOK
<1>3. CASE DeviceFails
  BY <1>3 DEF DeviceFails, TypeOK, Slots, InFlight
<1>4. CASE PollFails
  BY <1>4 DEF PollFails, TypeOK, PCs, Slots, InFlight
<1>5. CASE PeerConnects
  BY <1>5 DEF PeerConnects, TypeOK, Slots, InFlight
<1>6. CASE PeerCloses
  BY <1>6 DEF PeerCloses, TypeOK, Slots, InFlight
<1>7. ASSUME NEW len \in Lens, Deliver(len)
      PROVE  TypeOK' /\ Slots'
  <2>1. [id |-> sent + 1, len |-> len, conn |-> connects] \in Frame
    BY DEF Frame, TypeOK
  <2>2. ring \in Seq(Frame) /\ Len(ring) \in Nat
    BY LenProperties DEF TypeOK
  <2>3. ring' \in Seq(Frame) /\ Len(ring') = Len(ring) + 1
    BY <1>7, <2>1, <2>2 DEF Deliver
  <2>4. TypeOK'
    BY <1>7, <2>3 DEF Deliver, TypeOK
  <2>5. Slots'
    BY <1>7, <2>2, <2>3 DEF Deliver, TypeOK, Slots, InFlight
  <2> QED BY <2>4, <2>5
<1> QED BY <1>1, <1>2, <1>3, <1>4, <1>5, <1>6, <1>7 DEF Environment

\* Types and slots hold at the start.
LEMMA TypeInit == Init => TypeInv
<1>1. << >> \in Seq(Frame) /\ Len(<< >>) = 0
  BY EmptySeq
<1> SUFFICES ASSUME Init PROVE TypeInv
  OBVIOUS
<1>2. CommandTypeOK
  BY <1>1, CaptureAssumption DEF Init, CommandTypeOK, PCs
<1>3. FileTypeOK
  BY EmptyLemma DEF Init, FileTypeOK
<1>4. MemifTypeOK
  <2>1. ring \in Seq(Frame) /\ intr \in BOOLEAN /\ cancel \in BOOLEAN
    BY <1>1, Zenon DEF Init
  <2> QED BY <2>1, CaptureAssumption DEF Init, MemifTypeOK
<1>5. Slots
  BY <1>1, CaptureAssumption DEF Init, Slots, InFlight
<1> QED BY <1>2, <1>3, <1>4, <1>5 DEF TypeInv, TypeOK

\* So does every step.
LEMMA TypeNext == TypeInv /\ [Next]_vars => TypeInv'
<1> SUFFICES ASSUME TypeInv, [Next]_vars
             PROVE  TypeInv'
  OBVIOUS
<1>1. CASE UNCHANGED vars
  BY <1>1 DEF TypeInv, TypeOK, CommandTypeOK, FileTypeOK, MemifTypeOK, Slots, InFlight, vars,
         command, counters, calls, file, device, link, events, memif
<1>2. CASE Next
  BY <1>1, <1>2, TypeCallback, TypePoll, TypeMain, TypeEnvironment
     DEF Next, Beastie, Terminated
<1> QED BY <1>1, <1>2

\* Types and slots are right in every reachable state.
LEMMA TypeInvCorrect == Spec => []TypeInv
BY TypeInit, TypeNext, PTL DEF Spec

\* beastie_run_capture, its callbacks, libmemif and the environment keep every
\* variable in its type, whatever the sizes: in particular on_interrupt never
\* hands VPP more slots than the ring has.
THEOREM TypeCorrect == Spec => []TypeOK
<1>1. TypeInv => TypeOK
  BY DEF TypeInv
<1> QED BY <1>1, TypeInvCorrect, PTL
-----------------------------------------------------------------------------
(* Accounting                                                              *)
(* FileWithinLimit, ExitZeroComplete and CrashLossBounded are not          *)
(* inductive: they speak of the file, and each step of on_interrupt moves  *)
(* bytes between the ring, the buffer of stdio and the file.  Account ties *)
(* the file to the counters, Loss ties the counters to the burst.          *)

Account ==
  /\ disk.bytes + buf.bytes <= bytes_captured
  /\ max_bytes > 0 => bytes_captured <= max_bytes
  /\ ~initialized /\ ~Ended => /\ disk = Empty /\ buf = Empty /\ packets_captured = 0
                               /\ bytes_captured = 0 /\ bytes_since_last_flush = 0
  /\ ~ferror /\ ~Ended => /\ Len(disk.pkts) + Len(buf.pkts) = packets_captured
                          /\ disk.bytes + buf.bytes = bytes_captured
                          /\ buf.bytes <= bytes_since_last_flush
  /\ rc = 0 => pc \in {"cleanup", "exited", "killed"} /\ buf = Empty
  /\ ExitZeroComplete

\* The bytes since the last flush: below the interval between callbacks, and
\* in a callback above it by no more than the packets already looked at.
Loss ==
  /\ ~ferror /\ pc \notin {"packet", "after_burst", "exited", "killed"} =>
       bytes_since_last_flush <= FlushInterval - 1
  /\ ~ferror /\ pc = "packet" =>
       bytes_since_last_flush + Len(burst) * MaxLen <= FlushInterval - 1 + rx * MaxLen
  /\ ~ferror /\ pc = "after_burst" =>
       bytes_since_last_flush <= FlushInterval - 1 + rx * MaxLen
  /\ ~ferror /\ Ended =>
       bytes_captured - disk.bytes <= FlushInterval - 1 + MaxBufs * MaxLen

\* Multiples of the longest packet: one more packet, and more packets.
LEMMA TimesLemma ==
  ASSUME NEW m \in Nat, NEW n \in Nat, m <= n
  PROVE  /\ m * MaxLen \in Nat /\ n * MaxLen \in Nat
         /\ m * MaxLen <= n * MaxLen
         /\ m > 0 => (m - 1) * MaxLen = m * MaxLen - MaxLen /\ (m - 1) * MaxLen \in Nat
<1>1. MaxLen \in Nat
  BY CaptureAssumption
<1>2. PICK k \in Nat : n = m + k
  BY n - m \in Nat
<1>3. n * MaxLen = m * MaxLen + k * MaxLen
  BY <1>1, <1>2
<1>4. m * MaxLen \in Nat /\ k * MaxLen \in Nat
  BY <1>1, <1>2
<1>5. m > 0 => (m - 1) * MaxLen = m * MaxLen - MaxLen /\ (m - 1) * MaxLen \in Nat
  BY <1>1
<1> QED BY <1>1, <1>3, <1>4, <1>5

\* Accounting holds at the start.
LEMMA AccountInit == Init => Account /\ Loss
<1> SUFFICES ASSUME Init PROVE Account /\ Loss
  OBVIOUS
<1>1. Account
  BY EmptyLemma, CaptureAssumption DEF Init, Account, ExitZeroComplete, Ended
<1>2. Loss
  BY CaptureAssumption DEF Init, Loss, Ended
<1> QED BY <1>1, <1>2

\* A packet goes to the buffer, to the file or, after an error, nowhere: the
\* counters and the file move together.
LEMMA AccountCapturePacket == TypeOK /\ Account /\ CapturePacket => Account'
<1> SUFFICES ASSUME TypeOK, Account, CapturePacket PROVE Account'
  OBVIOUS
<1> DEFINE p == NextBuf
<1>1. p \in Frame /\ p.len \in Nat
  <2>1. burst \in Seq(Frame) /\ burst # << >>
    BY DEF TypeOK, CommandTypeOK, CapturePacket
  <2> QED BY <2>1, NextBufLemma, CaptureAssumption
<1>2. /\ buf \in Records /\ disk \in Records /\ ferror \in BOOLEAN /\ initialized \in BOOLEAN
      /\ buf.bytes \in Nat /\ disk.bytes \in Nat
      /\ Len(buf.pkts) \in Nat /\ Len(disk.pkts) \in Nat
      /\ packets_captured \in Nat /\ bytes_captured \in Nat /\ bytes_since_last_flush \in Nat
      /\ max_bytes \in Nat
  BY LenProperties DEF TypeOK, CommandTypeOK, FileTypeOK, Records
<1>3. /\ pc = "packet" /\ pc' \in {"packet", "after_burst"}
      /\ initialized' = TRUE /\ rc' = rc /\ max_bytes' = max_bytes
      /\ packets_captured' = packets_captured + 1
      /\ bytes_captured' = bytes_captured + p.len
      /\ bytes_since_last_flush' = bytes_since_last_flush + p.len
      /\ ~OverLimit(p)
      /\ WritePacket(p)
  BY DEF CapturePacket, WritePacket, command
<1>4. rc = 1
  BY <1>3 DEF Account, TypeOK, CommandTypeOK
<1>5. max_bytes > 0 => bytes_captured + p.len <= max_bytes
  BY <1>1, <1>2, <1>3 DEF OverLimit
<1>6. OpenedDisk = disk
  BY <1>2, <1>3 DEF OpenedDisk, Account, Ended
<1>7. /\ disk'.bytes + buf'.bytes <= bytes_captured + p.len
      /\ ~ferror' => /\ ~ferror
                     /\ Len(disk'.pkts) + Len(buf'.pkts) = Len(disk.pkts) + Len(buf.pkts) + 1
                     /\ disk'.bytes + buf'.bytes = disk.bytes + buf.bytes + p.len
                     /\ buf'.bytes <= buf.bytes + p.len
  <2>0. disk.bytes + buf.bytes <= bytes_captured
    BY DEF Account
  <2>1. CASE disk' = OpenedDisk /\ buf' = AddRecord(buf, p) /\ ferror' = ferror
    <3>1. buf'.bytes = buf.bytes + p.len /\ Len(buf'.pkts) = Len(buf.pkts) + 1
      BY <1>1, <1>2, <2>1, AddRecordLemma
    <3>2. disk'.bytes = disk.bytes /\ Len(disk'.pkts) = Len(disk.pkts)
      BY <1>6, <2>1
    <3>3. ~ferror' => ~ferror
      BY <2>1
    <3>4. disk'.bytes + buf'.bytes <= bytes_captured + p.len
      BY <1>1, <1>2, <2>0, <3>1, <3>2
    <3>5. Len(disk'.pkts) + Len(buf'.pkts) = Len(disk.pkts) + Len(buf.pkts) + 1
      <4>1. Len(disk'.pkts) + Len(buf'.pkts) = Len(disk.pkts) + (Len(buf.pkts) + 1)
        BY <3>1, <3>2, Zenon
      <4>2. \A m, n \in Nat : m + (n + 1) = m + n + 1
        OBVIOUS
      <4> QED BY <1>2, <4>1, <4>2, Zenon
    <3>6. disk'.bytes + buf'.bytes = disk.bytes + buf.bytes + p.len
      BY <1>1, <1>2, <3>1, <3>2
    <3>7. buf'.bytes <= buf.bytes + p.len
      BY <1>1, <1>2, <3>1
    <3> QED BY <3>3, <3>4, <3>5, <3>6, <3>7
  <2>2. CASE disk' = Join(OpenedDisk, buf) /\ buf' = AddRecord(Empty, p) /\ ferror' = ferror
    <3>1. disk'.bytes = disk.bytes + buf.bytes /\ Len(disk'.pkts) = Len(disk.pkts) + Len(buf.pkts)
      BY <1>2, <1>6, <2>2, JoinLemma
    <3>2. buf'.bytes = 0 + p.len /\ Len(buf'.pkts) = 0 + 1
      BY <1>1, <2>2, EmptyLemma, AddRecordLemma
    <3> QED BY <1>1, <1>2, <2>0, <2>2, <3>1, <3>2
  <2>3. CASE disk' = disk /\ buf' = Empty /\ ferror' = TRUE
    BY <1>1, <1>2, <2>0, <2>3, EmptyLemma
  <2>4. CASE ferror /\ UNCHANGED <<disk, buf, ferror>>
    BY <1>1, <1>2, <2>0, <2>4
  <2> QED BY <1>3, <2>1, <2>2, <2>3, <2>4 DEF WritePacket
<1>8. ~ferror => /\ Len(disk.pkts) + Len(buf.pkts) = packets_captured
                 /\ disk.bytes + buf.bytes = bytes_captured
                 /\ buf.bytes <= bytes_since_last_flush
  BY <1>3 DEF Account, Ended
<1>9. ~ferror' => /\ Len(disk'.pkts) + Len(buf'.pkts) = packets_captured + 1
                  /\ disk'.bytes + buf'.bytes = bytes_captured + p.len
                  /\ buf'.bytes <= bytes_since_last_flush + p.len
  <2> SUFFICES ASSUME ~ferror'
               PROVE  /\ Len(disk'.pkts) + Len(buf'.pkts) = packets_captured + 1
                      /\ disk'.bytes + buf'.bytes = bytes_captured + p.len
                      /\ buf'.bytes <= bytes_since_last_flush + p.len
    OBVIOUS
  <2>1. buf'.bytes \in Int
    <3>1. buf' \in {AddRecord(buf, p), AddRecord(Empty, p), Empty, buf}
      BY <1>3 DEF WritePacket
    <3>2. AddRecord(buf, p) \in Records /\ AddRecord(Empty, p) \in Records
      BY <1>1, <1>2, EmptyLemma, AddRecordLemma
    <3>3. buf' \in Records
      BY <1>2, <3>1, <3>2, EmptyLemma
    <3> QED BY <3>3 DEF Records
  <2>2. ~ferror
    BY <1>7
  <2>3. buf'.bytes <= buf.bytes + p.len /\ buf.bytes <= bytes_since_last_flush
    BY <1>7, <1>8, <2>2
  <2>4. buf'.bytes <= bytes_since_last_flush + p.len
    BY <1>1, <1>2, <2>1, <2>3
  <2> QED BY <1>7, <1>8, <2>2, <2>4
<1> QED BY <1>3, <1>4, <1>5, <1>7, <1>9 DEF Account, ExitZeroComplete, Ended

\* Program points outside on_interrupt's loop and before the end.
Outside == {"setup", "while", "enter", "poll", "rx_burst", "polled", "finish", "cleanup"}

\* A step that touches neither the counters nor the file.
Quiet ==
  /\ UNCHANGED <<command, counters, file>>
  /\ \/ pc' = pc /\ rx' = rx /\ burst' = burst
     \/ pc \in Outside \ {"cleanup"} /\ pc' \in Outside

\* Such a step keeps the accounts.
LEMMA QuietLemma == TypeOK /\ Account /\ Loss /\ Quiet => Account' /\ Loss'
<1> SUFFICES ASSUME TypeOK, Account, Loss, Quiet PROVE Account' /\ Loss'
  OBVIOUS
<1> USE DEF command, counters, calls, file, device, link, events, memif
<1>1. CASE pc' = pc /\ rx' = rx /\ burst' = burst
  BY <1>1 DEF Quiet, Account, Loss, ExitZeroComplete, AllWritten, Ended
<1>2. CASE pc \in Outside \ {"cleanup"} /\ pc' \in Outside
  <2>1. rc = 1
    BY <1>2 DEF Account, Outside, TypeOK, CommandTypeOK
  <2>2. Account'
    BY <1>2, <2>1 DEF Quiet, Outside, Account, ExitZeroComplete, Ended
  <2>3. Loss'
    BY <1>2 DEF Quiet, Outside, Loss, Ended
  <2> QED BY <2>2, <2>3
<1> QED BY <1>1, <1>2 DEF Quiet

\* The steps around the loop of on_interrupt and everything outside beastie
\* but a kill are quiet.
LEMMA QuietSteps ==
  ASSUME \/ RxBurstFails \/ Poll
         \/ Setup \/ SetupFails \/ LoopTest \/ EnterPoll \/ AfterPoll
         \/ Signal \/ DeviceFails \/ PollFails \/ PeerConnects \/ PeerCloses
         \/ \E len \in Lens : Deliver(len)
         \/ UNCHANGED vars
  PROVE  Quiet
<1> USE DEF Quiet, Outside, command, counters, calls, file, device, link, events, memif
<1>1. CASE RxBurstFails
  BY <1>1 DEF RxBurstFails, Returns
<1>2. CASE Poll
  BY <1>2 DEF Poll, PollConnect, PollDisconnect, PollCancel, PollInterrupt, Returns
<1>3. CASE Setup \/ SetupFails \/ LoopTest \/ EnterPoll \/ AfterPoll
  BY <1>3 DEF Setup, SetupFails, LoopTest, EnterPoll, AfterPoll
<1>4. CASE Signal
  BY <1>4 DEF Signal
<1>5. CASE DeviceFails \/ PeerConnects \/ PeerCloses
  BY <1>5 DEF DeviceFails, PeerConnects, PeerCloses
<1>6. CASE PollFails
  BY <1>6 DEF PollFails
<1>7. CASE \E len \in Lens : Deliver(len)
  BY <1>7 DEF Deliver
<1>8. CASE UNCHANGED vars
  BY <1>8 DEF vars
<1> QED BY <1>1, <1>2, <1>3, <1>4, <1>5, <1>6, <1>7, <1>8

\* Facts about the numbers that every accounting step uses.
LEMMA Numbers ==
  ASSUME TypeOK
  PROVE  /\ buf \in Records /\ disk \in Records /\ buf.bytes \in Nat /\ disk.bytes \in Nat
         /\ Len(buf.pkts) \in Nat /\ Len(disk.pkts) \in Nat
         /\ packets_captured \in Nat /\ bytes_captured \in Nat
         /\ bytes_since_last_flush \in Nat /\ rx \in Nat /\ burst \in Seq(Frame)
         /\ Len(burst) \in Nat /\ FlushInterval \in Nat \ {0} /\ MaxLen \in Nat
         /\ rx * MaxLen \in Nat /\ MaxBufs * MaxLen \in Nat /\ rx * MaxLen <= MaxBufs * MaxLen
<1>1. rx \in Nat /\ MaxBufs \in Nat /\ rx <= MaxBufs
  BY CaptureAssumption DEF TypeOK, CommandTypeOK
<1>2. rx * MaxLen \in Nat /\ MaxBufs * MaxLen \in Nat /\ rx * MaxLen <= MaxBufs * MaxLen
  BY <1>1, TimesLemma
<1>3. /\ buf \in Records /\ disk \in Records
      /\ buf.bytes \in Nat /\ disk.bytes \in Nat
      /\ buf.pkts \in Seq(Frame) /\ disk.pkts \in Seq(Frame)
      /\ burst \in Seq(Frame)
  BY DEF TypeOK, CommandTypeOK, FileTypeOK, Records
<1>4. Len(buf.pkts) \in Nat /\ Len(disk.pkts) \in Nat /\ Len(burst) \in Nat
  BY <1>3, LenProperties
<1> QED BY <1>1, <1>2, <1>3, <1>4, CaptureAssumption DEF TypeOK, CommandTypeOK

\* At every instant the unwritten bytes are less than an interval and a burst.
LEMMA LossImplies == TypeOK /\ Account /\ Loss => CrashLossBounded
<1> SUFFICES ASSUME TypeOK, Account, Loss, ~ferror
             PROVE  bytes_captured - disk.bytes <= FlushInterval - 1 + MaxBufs * MaxLen
  BY DEF CrashLossBounded
<1>1. CASE Ended
  BY <1>1 DEF Loss
<1>2. CASE ~Ended
  <2>1. disk.bytes + buf.bytes = bytes_captured /\ buf.bytes <= bytes_since_last_flush
    BY <1>2 DEF Account
  <2>2. bytes_since_last_flush <= FlushInterval - 1 + rx * MaxLen
    <3>1. Len(burst) * MaxLen \in Nat
      BY Numbers, TimesLemma
    <3>2. CASE pc = "packet"
      BY <3>1, <3>2, Numbers DEF Loss
    <3>3. CASE pc = "after_burst"
      BY <3>3 DEF Loss
    <3>4. CASE pc \notin {"packet", "after_burst"}
      BY <1>2, <3>4, Numbers DEF Loss, Ended
    <3> QED BY <3>2, <3>3, <3>4
  <2>3. /\ bytes_captured \in Nat /\ disk.bytes \in Nat /\ buf.bytes \in Nat
        /\ bytes_since_last_flush \in Nat /\ FlushInterval \in Nat
        /\ rx * MaxLen \in Nat /\ MaxBufs * MaxLen \in Nat /\ rx * MaxLen <= MaxBufs * MaxLen
    BY Numbers
  <2>4. buf.bytes <= FlushInterval - 1 + MaxBufs * MaxLen
    BY <2>1, <2>2, <2>3
  <2>5. bytes_captured - disk.bytes = buf.bytes
    BY <2>1, <2>3
  <2> QED BY <2>4, <2>5
<1> QED BY <1>1, <1>2

\* The steps of on_interrupt keep the accounts.
LEMMA AccountCallback == TypeOK /\ Account /\ Loss /\ Callback => Account' /\ Loss'
<1> SUFFICES ASSUME TypeOK, Account, Loss, Callback PROVE Account' /\ Loss'
  OBVIOUS
<1> USE DEF command, counters, calls, file, device, link, events, memif
<1>0. /\ bytes_since_last_flush \in Nat /\ FlushInterval \in Nat \ {0} /\ MaxLen \in Nat
      /\ rx * MaxLen \in Nat /\ Len(burst) \in Nat /\ Len(burst) * MaxLen \in Nat
      /\ rc \in {0, 1} /\ ferror \in BOOLEAN
  BY Numbers, TimesLemma DEF TypeOK, CommandTypeOK, FileTypeOK
<1>1. CASE RxBurst
  <2>1. rc = 1 /\ pc = "rx_burst" /\ pc' = "packet"
    BY <1>0, <1>1 DEF RxBurst, Account
  <2>2. Account'
    BY <1>1, <2>1 DEF RxBurst, Account, ExitZeroComplete, Ended
  <2>3. Len(burst') = rx' /\ rx' \in Nat
    <3>1. ring \in Seq(Frame)
      BY DEF TypeOK, MemifTypeOK
    <3>2. BurstLen \in 0 .. Len(ring)
      BY <3>1, BurstLenLemma
    <3> QED BY <1>1, <3>1, <3>2, CutLemma DEF RxBurst
  <2>4. Len(burst') * MaxLen = rx' * MaxLen /\ rx' * MaxLen \in Nat
    BY <2>3, TimesLemma
  <2>5. ~ferror => bytes_since_last_flush <= FlushInterval - 1
    BY <2>1 DEF Loss
  <2>6. ~ferror => bytes_since_last_flush + rx' * MaxLen <= FlushInterval - 1 + rx' * MaxLen
    BY <1>0, <2>4, <2>5
  <2>7. bytes_since_last_flush' = bytes_since_last_flush /\ ferror' = ferror
    BY <1>1 DEF RxBurst
  <2>8. ~ferror' => bytes_since_last_flush' + Len(burst') * MaxLen
                      <= FlushInterval - 1 + rx' * MaxLen
    BY <2>4, <2>6, <2>7
  <2>9. Loss'
    BY <2>1, <2>8 DEF Loss, Ended
  <2> QED BY <2>2, <2>9
<1>2. CASE RxBurstFails
  BY <1>2, QuietSteps, QuietLemma
<1>3. CASE StopOverLimit
  <2>1. rc = 1 /\ pc = "packet" /\ pc' = "after_burst"
    BY <1>0, <1>3 DEF StopOverLimit, Account
  <2>2. Account'
    BY <1>3, <2>1 DEF StopOverLimit, Account, ExitZeroComplete, Ended
  <2>3. ~ferror => bytes_since_last_flush <= FlushInterval - 1 + rx * MaxLen
    BY <1>0, <2>1 DEF Loss
  <2>4. Loss'
    BY <1>3, <2>1, <2>3 DEF StopOverLimit, Loss, Ended
  <2> QED BY <2>2, <2>4
<1>4. CASE WriteFails
  <2>1. rc = 1 /\ pc = "packet" /\ pc' = "polled" /\ ~initialized
    BY <1>0, <1>4 DEF WriteFails, Returns, Account
  <2>2. Account'
    BY <1>4, <2>1 DEF WriteFails, Account, ExitZeroComplete, Ended
  <2>3. bytes_since_last_flush = 0
    BY <2>1 DEF Account, Ended
  <2>4. Loss'
    BY <1>0, <1>4, <2>1, <2>3 DEF WriteFails, Loss, Ended
  <2> QED BY <2>2, <2>4
<1>5. CASE CapturePacket
  <2>1. Account'
    BY <1>5, AccountCapturePacket
  <2>2. burst \in Seq(Frame) /\ burst # << >>
    BY <1>5 DEF TypeOK, CommandTypeOK, CapturePacket
  <2>3. /\ NextBuf.len \in Nat /\ NextBuf.len <= MaxLen
        /\ Len(Tail(burst)) = Len(burst) - 1 /\ Len(burst) > 0
    BY <1>0, <2>2, NextBufLemma, EmptySeq
  <2>4. /\ pc = "packet" /\ rx' = rx
        /\ bytes_since_last_flush' = bytes_since_last_flush + NextBuf.len
        /\ \/ pc' = "packet" /\ burst' = Tail(burst)
           \/ pc' = "after_burst"
    BY <1>5 DEF CapturePacket
  <2>5. ~ferror' => ~ferror
    BY <1>0, <1>5 DEF CapturePacket, WritePacket
  <2>6. ~ferror => bytes_since_last_flush + Len(burst) * MaxLen
                     <= FlushInterval - 1 + rx * MaxLen
    BY <2>4 DEF Loss
  <2>7. /\ (Len(burst) - 1) * MaxLen = Len(burst) * MaxLen - MaxLen
        /\ (Len(burst) - 1) * MaxLen \in Nat
    BY <1>0, <2>3, TimesLemma
  <2>8. ~ferror => /\ bytes_since_last_flush + NextBuf.len + (Len(burst) - 1) * MaxLen
                        <= FlushInterval - 1 + rx * MaxLen
                   /\ bytes_since_last_flush + NextBuf.len <= FlushInterval - 1 + rx * MaxLen
    BY <1>0, <2>3, <2>6, <2>7
  <2>9. Loss'
    <3>1. CASE pc' = "packet" /\ burst' = Tail(burst)
      <4>1. Len(burst') = Len(burst) - 1
        BY <2>3, <3>1
      <4>2. ~ferror' => bytes_since_last_flush' + Len(burst') * MaxLen
                          <= FlushInterval - 1 + rx' * MaxLen
        BY <2>4, <2>5, <2>8, <4>1
      <4> QED BY <3>1, <4>2 DEF Loss, Ended
    <3>2. CASE pc' = "after_burst"
      <4>1. ~ferror' => bytes_since_last_flush' <= FlushInterval - 1 + rx' * MaxLen
        BY <2>4, <2>5, <2>8
      <4> QED BY <3>2, <4>1 DEF Loss, Ended
    <3> QED BY <2>4, <3>1, <3>2
  <2> QED BY <2>1, <2>9
<1>6. CASE BurstDone
  <2>1. rc = 1 /\ pc = "packet" /\ pc' = "after_burst"
    BY <1>0, <1>6 DEF BurstDone, Account
  <2>2. Account'
    BY <1>6, <2>1 DEF BurstDone, Account, ExitZeroComplete, Ended
  <2>3. ~ferror => bytes_since_last_flush <= FlushInterval - 1 + rx * MaxLen
    BY <1>0, <2>1 DEF Loss
  <2>4. Loss'
    BY <1>6, <2>1, <2>3 DEF BurstDone, Loss, Ended
  <2> QED BY <2>2, <2>4
<1>7. CASE AfterBurst
  <2>1. /\ rc = 1 /\ pc = "after_burst" /\ pc' = "polled" /\ rc' = rc
        /\ max_bytes' = max_bytes /\ initialized' = initialized
        /\ bytes_captured' = bytes_captured /\ packets_captured' = packets_captured
    BY <1>0, <1>7 DEF AfterBurst, Returns, Account
  <2>2. CASE FlushDue
    <3>1. /\ disk' = Join(disk, buf) /\ buf' = Empty /\ ferror' = ferror
          /\ bytes_since_last_flush' = 0
      BY <1>7, <2>2 DEF AfterBurst, FlushOk
    <3>2. /\ disk'.bytes = disk.bytes + buf.bytes /\ buf'.bytes = 0
          /\ Len(disk'.pkts) = Len(disk.pkts) + Len(buf.pkts) /\ Len(buf'.pkts) = 0
      BY <3>1, Numbers, JoinLemma, EmptyLemma
    <3>3. ~initialized => disk' = Empty /\ bytes_captured = 0 /\ packets_captured = 0
      <4>1. ~initialized => /\ disk = Empty /\ buf = Empty /\ bytes_captured = 0
                            /\ packets_captured = 0
        BY <2>1 DEF Account, Ended
      <4>2. Join(Empty, Empty) = Empty
        BY ConcatEmptySeq, EmptySeq DEF Join, Empty
      <4> QED BY <3>1, <4>1, <4>2
    <3>4. /\ disk.bytes + buf.bytes <= bytes_captured
          /\ ~ferror => /\ Len(disk.pkts) + Len(buf.pkts) = packets_captured
                        /\ disk.bytes + buf.bytes = bytes_captured
      BY <2>1 DEF Account, Ended
    <3>5. /\ disk'.bytes + buf'.bytes <= bytes_captured
          /\ ~ferror => /\ Len(disk'.pkts) + Len(buf'.pkts) = packets_captured
                        /\ disk'.bytes + buf'.bytes = bytes_captured
      <4>1. /\ disk.bytes + buf.bytes + 0 = disk.bytes + buf.bytes
            /\ Len(disk.pkts) + Len(buf.pkts) + 0 = Len(disk.pkts) + Len(buf.pkts)
        BY Numbers
      <4> QED BY <3>2, <3>4, <4>1
    <3>6. max_bytes > 0 => bytes_captured <= max_bytes
      BY DEF Account
    <3>7. Account'
      <4>1. ~ferror' => /\ Len(disk'.pkts) + Len(buf'.pkts) = packets_captured'
                        /\ disk'.bytes + buf'.bytes = bytes_captured'
                        /\ buf'.bytes <= bytes_since_last_flush'
        <5>1. buf'.bytes <= bytes_since_last_flush'
          BY <3>1, <3>2
        <5>2. ~ferror' => ~ferror
          BY <3>1
        <5> QED BY <2>1, <3>5, <5>1, <5>2, Zenon
      <4>2. disk'.bytes + buf'.bytes <= bytes_captured'
        BY <2>1, <3>5
      <4>3. ~initialized' => /\ disk' = Empty /\ buf' = Empty /\ packets_captured' = 0
                             /\ bytes_captured' = 0 /\ bytes_since_last_flush' = 0
        BY <2>1, <3>1, <3>3
      <4>4. (max_bytes > 0 => bytes_captured <= max_bytes)' /\ rc' = 1 /\ pc' = "polled"
        BY <2>1, <3>6
      <4>5. ExitZeroComplete' /\ rc' # 0
        BY <4>4 DEF ExitZeroComplete
      <4> QED BY <4>1, <4>2, <4>3, <4>4, <4>5, Zenon DEF Account
    <3>8. Loss'
      BY <1>0, <2>1, <3>1 DEF Loss, Ended
    <3> QED BY <3>7, <3>8
  <2>3. CASE ~FlushDue
    <3>1. UNCHANGED <<buf, disk, ferror, bytes_since_last_flush>>
      BY <1>7, <2>3 DEF AfterBurst
    <3>2. Account'
      BY <2>1, <3>1 DEF Account, ExitZeroComplete, Ended
    <3>3. bytes_since_last_flush <= FlushInterval - 1
      BY <1>0, <2>3 DEF FlushDue
    <3>4. Loss'
      BY <2>1, <3>1, <3>3 DEF Loss, Ended
    <3> QED BY <3>2, <3>4
  <2> QED BY <2>2, <2>3
<1>8. CASE AfterBurstFlushFails
  <2>1. rc = 1 /\ pc = "after_burst" /\ pc' = "polled"
    BY <1>0, <1>8 DEF AfterBurstFlushFails, Returns, Account
  <2>2. /\ disk' = disk /\ buf' = Empty /\ ferror' = TRUE /\ initialized' = initialized
        /\ rc' = rc /\ UNCHANGED <<max_bytes, counters>>
    BY <1>8 DEF AfterBurstFlushFails, FlushFails
  <2>3. disk.bytes + 0 <= bytes_captured
    BY Numbers DEF Account
  <2>4. Account'
    BY <2>1, <2>2, <2>3, EmptyLemma DEF Account, ExitZeroComplete, Ended
  <2>5. Loss'
    BY <2>2 DEF Loss
  <2> QED BY <2>4, <2>5
<1> QED BY <1>1, <1>2, <1>3, <1>4, <1>5, <1>6, <1>7, <1>8 DEF Callback

\* The last flush, the close of the file and a kill keep the accounts: this is
\* where the exit status is decided and where buffered records may be lost.
LEMMA AccountEnd ==
  TypeOK /\ Account /\ Loss /\ (Finish \/ Cleanup \/ Kill) => Account' /\ Loss'
<1> SUFFICES ASSUME TypeOK, Account, Loss, Finish \/ Cleanup \/ Kill
             PROVE  Account' /\ Loss'
  OBVIOUS
<1> USE DEF command, counters, calls, file, device, link, events, memif
<1>0. /\ rc \in {0, 1} /\ ferror \in BOOLEAN /\ initialized \in BOOLEAN
      /\ buf \in Records /\ disk \in Records
      /\ disk.bytes \in Nat /\ buf.bytes \in Nat /\ bytes_captured \in Nat
      /\ Len(disk.pkts) \in Nat /\ Len(buf.pkts) \in Nat
      /\ disk.bytes + buf.bytes <= bytes_captured
      /\ bytes_since_last_flush \in Nat
  BY Numbers DEF TypeOK, CommandTypeOK, FileTypeOK, Account
<1>1. /\ Join(disk, buf).bytes = disk.bytes + buf.bytes
      /\ Len(Join(disk, buf).pkts) = Len(disk.pkts) + Len(buf.pkts)
  BY <1>0, JoinLemma
<1>2. disk.bytes + 0 = disk.bytes /\ disk.bytes <= bytes_captured
      /\ disk.bytes + buf.bytes + 0 = disk.bytes + buf.bytes
      /\ Len(disk.pkts) + Len(buf.pkts) + 0 = Len(disk.pkts) + Len(buf.pkts)
  BY <1>0
<1>l. max_bytes > 0 => bytes_captured <= max_bytes
  BY DEF Account
<1>3. CASE Finish
  <2>1. /\ pc = "finish" /\ pc' = "cleanup" /\ buf' = Empty
        /\ UNCHANGED <<max_bytes, counters, initialized>>
    BY <1>3 DEF Finish, FlushOk, FlushFails
  <2>2. ~Ended /\ ~Ended'
    BY <2>1 DEF Ended
  <2>3. Loss'
    <3>1. ~ferror => bytes_since_last_flush <= FlushInterval - 1
      BY <2>1 DEF Loss
    <3>2. ~ferror' => ~ferror
      BY <1>0, <1>3 DEF Finish, FlushOk, FlushFails
    <3> QED BY <2>1, <2>2, <3>1, <3>2 DEF Loss
  <2>4. ExitZeroComplete'
    BY <2>1 DEF ExitZeroComplete
  <2>5. CASE FlushOk
    <3>1. disk' = Join(disk, buf) /\ ferror' = ferror
      BY <2>5 DEF FlushOk
    <3>2. ~initialized => disk' = Empty
      <4>1. ~initialized => disk = Empty /\ buf = Empty
        BY <2>2 DEF Account
      <4>2. Join(Empty, Empty) = Empty
        BY ConcatEmptySeq, EmptySeq DEF Join, Empty
      <4> QED BY <3>1, <4>1, <4>2
    <3>3. disk'.bytes + buf'.bytes <= bytes_captured'
      BY <1>0, <1>1, <1>2, <2>1, <3>1, EmptyLemma
    <3>4. ~ferror => /\ Len(disk.pkts) + Len(buf.pkts) = packets_captured
                     /\ disk.bytes + buf.bytes = bytes_captured
      BY <2>2 DEF Account
    <3>5. /\ disk'.bytes + buf'.bytes = disk.bytes + buf.bytes
          /\ Len(disk'.pkts) + Len(buf'.pkts) = Len(disk.pkts) + Len(buf.pkts)
          /\ buf'.bytes <= bytes_since_last_flush'
      <4>1. /\ buf'.bytes = 0 /\ Len(buf'.pkts) = 0
            /\ disk'.bytes = disk.bytes + buf.bytes
            /\ Len(disk'.pkts) = Len(disk.pkts) + Len(buf.pkts)
            /\ bytes_since_last_flush' = bytes_since_last_flush
        BY <1>1, <2>1, <3>1, EmptyLemma
      <4>2. 0 <= bytes_since_last_flush
        BY <1>0
      <4> QED BY <1>2, <4>1, <4>2, Zenon
    <3>6. ~ferror' => /\ Len(disk'.pkts) + Len(buf'.pkts) = packets_captured'
                      /\ disk'.bytes + buf'.bytes = bytes_captured'
                      /\ buf'.bytes <= bytes_since_last_flush'
      BY <2>1, <3>1, <3>4, <3>5
    <3>7. ~initialized' => /\ disk' = Empty /\ buf' = Empty /\ packets_captured' = 0
                           /\ bytes_captured' = 0 /\ bytes_since_last_flush' = 0
      BY <2>1, <2>2, <3>2 DEF Account
    <3>8. (max_bytes > 0 => bytes_captured <= max_bytes)'
      BY <1>l, <2>1
    <3>9. rc' = 0 => pc' \in {"cleanup", "exited", "killed"} /\ buf' = Empty
      BY <2>1
    <3>10. Account'
      BY <2>4, <3>3, <3>6, <3>7, <3>8, <3>9, Zenon DEF Account
    <3> QED BY <2>3, <3>10
  <2>6. CASE FlushFails
    <3>1. disk' = disk /\ ferror' = TRUE
      BY <2>6 DEF FlushFails
    <3>2. disk'.bytes + buf'.bytes <= bytes_captured'
      BY <1>2, <2>1, <3>1, EmptyLemma
    <3>3. ~initialized' => /\ disk' = Empty /\ buf' = Empty /\ packets_captured' = 0
                           /\ bytes_captured' = 0 /\ bytes_since_last_flush' = 0
      BY <2>1, <2>2, <3>1 DEF Account
    <3>4. (max_bytes > 0 => bytes_captured <= max_bytes)'
      BY <1>l, <2>1
    <3>5. rc' = 0 => pc' \in {"cleanup", "exited", "killed"} /\ buf' = Empty
      BY <2>1
    <3>6. Account'
      BY <2>4, <3>1, <3>2, <3>3, <3>4, <3>5, Zenon DEF Account
    <3> QED BY <2>3, <3>6
  <2> QED BY <1>3, <2>5, <2>6 DEF Finish
<1>4. CASE Cleanup
  <2>1. /\ pc = "cleanup" /\ pc' = "exited" /\ buf' = Empty /\ ferror' = ferror /\ rc' = rc
        /\ UNCHANGED <<max_bytes, counters>>
        /\ disk' = disk \/ disk' = Join(disk, buf)
    BY <1>4 DEF Cleanup
  <2>2. ~Ended /\ Ended'
    BY <2>1 DEF Ended
  <2>3. disk'.bytes + buf'.bytes <= bytes_captured'
    BY <1>0, <1>1, <1>2, <2>1, EmptyLemma
  <2>4. disk'.bytes \in Nat /\ disk'.bytes >= disk.bytes
    BY <1>0, <1>1, <2>1
  <2>5. ExitZeroComplete'
    <3> SUFFICES ASSUME rc = 0, ~ferror
                 PROVE  Len(disk'.pkts) = packets_captured' /\ disk'.bytes = bytes_captured'
      BY <2>1 DEF ExitZeroComplete, AllWritten
    <3>1. buf = Empty
      BY DEF Account
    <3>2. disk.bytes + 0 = bytes_captured /\ Len(disk.pkts) + 0 = packets_captured
      BY <2>2, <3>1, EmptyLemma DEF Account
    <3>3. disk'.bytes = disk.bytes /\ Len(disk'.pkts) = Len(disk.pkts)
      BY <1>0, <1>1, <2>1, <3>1, EmptyLemma
    <3> QED BY <1>0, <2>1, <3>2, <3>3
  <2>6. Loss'
    <3> SUFFICES ASSUME ~ferror
                 PROVE  bytes_captured - disk'.bytes <= FlushInterval - 1 + MaxBufs * MaxLen
      BY <2>1 DEF Loss, Ended
    <3>1. bytes_captured - disk.bytes <= FlushInterval - 1 + MaxBufs * MaxLen
      BY LossImplies DEF CrashLossBounded
    <3>2. FlushInterval - 1 + MaxBufs * MaxLen \in Int
      BY Numbers
    <3> QED BY <1>0, <2>4, <3>1, <3>2
  <2>7. Account'
    <3>1. (max_bytes > 0 => bytes_captured <= max_bytes)'
      BY <1>l, <2>1
    <3>2. rc' = 0 => pc' \in {"cleanup", "exited", "killed"} /\ buf' = Empty
      BY <2>1
    <3> QED BY <2>2, <2>3, <2>5, <3>1, <3>2, Zenon DEF Account
  <2> QED BY <2>6, <2>7
<1>5. CASE Kill
  <2>1. /\ ~Ended /\ pc' = "killed" /\ buf' = Empty /\ disk' = disk /\ ferror' = ferror
        /\ rc' = rc /\ UNCHANGED <<max_bytes, counters>>
    BY <1>5 DEF Kill
  <2>2. Ended'
    BY <2>1 DEF Ended
  <2>3. disk'.bytes + buf'.bytes <= bytes_captured'
    BY <1>2, <2>1, EmptyLemma
  <2>4. Loss'
    BY <2>1, LossImplies DEF Loss, Ended, CrashLossBounded
  <2>5. Account'
    <3>1. (max_bytes > 0 => bytes_captured <= max_bytes)'
      BY <1>l, <2>1
    <3>2. rc' = 0 => pc' \in {"cleanup", "exited", "killed"} /\ buf' = Empty
      BY <2>1
    <3>3. ExitZeroComplete'
      BY <2>1 DEF ExitZeroComplete
    <3> QED BY <2>2, <2>3, <3>1, <3>2, <3>3, Zenon DEF Account
  <2> QED BY <2>4, <2>5
<1> QED BY <1>3, <1>4, <1>5

\* Every step keeps the accounts.
LEMMA AccountNext == TypeOK /\ Account /\ Loss /\ [Next]_vars => Account' /\ Loss'
<1> SUFFICES ASSUME TypeOK, Account, Loss, [Next]_vars PROVE Account' /\ Loss'
  OBVIOUS
<1>1. CASE Callback
  BY <1>1, AccountCallback
<1>2. CASE Finish \/ Cleanup \/ Kill
  BY <1>2, AccountEnd
<1>3. CASE \/ RxBurstFails \/ Poll
           \/ Setup \/ SetupFails \/ LoopTest \/ EnterPoll \/ AfterPoll
           \/ Signal \/ DeviceFails \/ PollFails \/ PeerConnects \/ PeerCloses
           \/ \E len \in Lens : Deliver(len)
           \/ UNCHANGED vars
  BY <1>3, QuietSteps, QuietLemma
<1> QED BY <1>1, <1>2, <1>3 DEF Next, Beastie, Main, Environment, Terminated

\* The accounts hold in every reachable state.
LEMMA AccountCorrect == Spec => [](TypeOK /\ Account /\ Loss)
BY TypeCorrect, AccountInit, AccountNext, PTL DEF Spec

\* --max-bytes is a hard limit on the packet bytes of the file for every limit
\* and packet length: on_interrupt tests before it writes, and nothing else
\* writes.
THEOREM LimitKept == Spec => []FileWithinLimit
<1>1. TypeOK /\ Account => FileWithinLimit
  <2> SUFFICES ASSUME TypeOK, Account, max_bytes > 0
               PROVE  disk.bytes + buf.bytes <= max_bytes
    BY DEF FileWithinLimit
  <2>1. disk.bytes + buf.bytes <= bytes_captured /\ bytes_captured <= max_bytes
    BY DEF Account
  <2>2. disk.bytes + buf.bytes \in Nat /\ bytes_captured \in Nat /\ max_bytes \in Nat
    BY Numbers DEF TypeOK, CommandTypeOK
  <2> QED BY <2>1, <2>2
<1> QED BY <1>1, AccountCorrect, PTL

\* Exit status 0 without an earlier write error means that the file holds every
\* packet and byte of the summary, however the loop of beastie_run_capture ended.
THEOREM ExitStatusSound == Spec => []ExitZeroComplete
<1>1. Account => ExitZeroComplete
  BY DEF Account
<1> QED BY <1>1, AccountCorrect, PTL

\* Killed at any instant, beastie has lost less than PCAP_FLUSH_INTERVAL_BYTES
\* plus one burst of MAX_MEMIF_BUFS packets, for every value of the three sizes.
THEOREM CrashLoss == Spec => []CrashLossBounded
BY LossImplies, AccountCorrect, PTL

\* A sequence is the beginning of every sequence it is put in front of.
LEMMA PrefixLemma ==
  ASSUME NEW s \in Seq(Frame), NEW t \in Seq(Frame)
  PROVE  /\ Len(s) <= Len(s \o t)
         /\ SubSeq(s \o t, 1, Len(s)) = s
<1>1. Len(s) \in Nat /\ Len(t) \in Nat
  BY LenProperties
<1>2. /\ Len(s \o t) = Len(s) + Len(t)
      /\ \A i \in 1 .. Len(s) + Len(t) :
           (s \o t)[i] = IF i <= Len(s) THEN s[i] ELSE t[i - Len(s)]
  BY ConcatProperties
<1>3. \A i \in 1 .. Len(s) : (s \o t)[i] = s[i] /\ s[i] \in Frame
  BY <1>1, <1>2, ElementOfSeq
<1>4. \A i \in 1 .. Len(s) : (s \o t)[i] \in Frame
  BY <1>3
<1> DEFINE u == SubSeq(s \o t, 1, Len(s))
<1>5. /\ u \in Seq(Frame)
      /\ Len(u) = IF 1 <= Len(s) THEN Len(s) - 1 + 1 ELSE 0
      /\ \A i \in 1 .. Len(s) - 1 + 1 : u[i] = (s \o t)[1 + i - 1]
  <2>1. 1 \in Int /\ Len(s) \in Int
    BY <1>1
  <2> QED BY <1>4, <2>1, SubSeqProperties
<1> HIDE DEF u
<1>6. Len(u) = Len(s)
  BY <1>1, <1>5
<1>7. \A i \in 1 .. Len(s) : u[i] = s[i]
  <2> SUFFICES ASSUME NEW i \in 1 .. Len(s) PROVE u[i] = s[i]
    OBVIOUS
  <2>1. i \in 1 .. Len(s) - 1 + 1 /\ 1 + i - 1 = i
    BY <1>1
  <2> QED BY <1>3, <1>5, <2>1
<1>8. u = s
  BY <1>5, <1>6, <1>7, SeqEqual
<1>9. Len(s) <= Len(s \o t)
  BY <1>1, <1>2
<1> QED BY <1>8, <1>9 DEF u

\* Writing the buffer out leaves what is in the file where it is.
LEMMA JoinExtends ==
  ASSUME NEW f \in Records, NEW g \in Records
  PROVE  /\ Len(f.pkts) <= Len(Join(f, g).pkts)
         /\ SubSeq(Join(f, g).pkts, 1, Len(f.pkts)) = f.pkts
<1>1. f.pkts \in Seq(Frame) /\ g.pkts \in Seq(Frame)
  BY DEF Records
<1>2. Join(f, g).pkts = f.pkts \o g.pkts
  BY DEF Join
<1> QED BY <1>1, <1>2, PrefixLemma

\* The only step that changes the file appends the buffer of stdio to it.
LEMMA DiskSteps == Account /\ [Next]_vars => disk' = disk \/ disk' = Join(disk, buf)
<1> SUFFICES ASSUME Account, [Next]_vars PROVE disk' = disk \/ disk' = Join(disk, buf)
  OBVIOUS
<1> USE DEF command, counters, calls, file, device, link, events, memif
<1>1. CASE CapturePacket
  <2>1. ~Ended /\ WritePacket(NextBuf)
    BY <1>1 DEF CapturePacket, Ended
  <2>2. OpenedDisk = disk
    BY <2>1 DEF OpenedDisk, Account
  <2> QED BY <2>1, <2>2 DEF WritePacket
<1>2. CASE RxBurst \/ StopOverLimit \/ WriteFails \/ BurstDone
  BY <1>2 DEF RxBurst, StopOverLimit, WriteFails, BurstDone
<1>3. CASE AfterBurst
  BY <1>3 DEF AfterBurst, FlushOk
<1>6. CASE AfterBurstFlushFails \/ Finish
  BY <1>6 DEF AfterBurstFlushFails, Finish, FlushOk, FlushFails
<1>4. CASE Cleanup \/ Kill
  BY <1>4 DEF Cleanup, Kill
<1>5. CASE \/ RxBurstFails \/ Poll
           \/ Setup \/ SetupFails \/ LoopTest \/ EnterPoll \/ AfterPoll
           \/ Signal \/ DeviceFails \/ PollFails \/ PeerConnects \/ PeerCloses
           \/ \E len \in Lens : Deliver(len)
           \/ UNCHANGED vars
  BY <1>5, QuietSteps DEF Quiet
<1> QED BY <1>1, <1>2, <1>3, <1>4, <1>5, <1>6
        DEF Next, Beastie, Callback, Main, Environment, Terminated

\* What is in the file stays there: no later packet, flush, failure, reconnection
\* or kill overwrites it, although the first packet of a run truncates the file.
THEOREM DurableKept == Spec => DurableGrows
<1>1. TypeOK /\ Account /\ [Next]_vars =>
        [/\ Len(disk.pkts) <= Len(disk'.pkts)
         /\ SubSeq(disk'.pkts, 1, Len(disk.pkts)) = disk.pkts]_disk
  <2> SUFFICES ASSUME TypeOK, Account, [Next]_vars, disk' # disk
               PROVE  /\ Len(disk.pkts) <= Len(disk'.pkts)
                      /\ SubSeq(disk'.pkts, 1, Len(disk.pkts)) = disk.pkts
    OBVIOUS
  <2>1. disk' = Join(disk, buf)
    BY DiskSteps
  <2>2. disk \in Records /\ buf \in Records
    BY DEF TypeOK, FileTypeOK
  <2> QED BY <2>1, <2>2, JoinExtends
<1> QED BY <1>1, AccountCorrect, PTL DEF Spec, DurableGrows
=============================================================================
