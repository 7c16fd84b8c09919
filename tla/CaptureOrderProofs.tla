------------------------- MODULE CaptureOrderProofs -------------------------
(***************************************************************************)
(* The order of the frames on their way from VPP's ring to the file, and   *)
(* the slots they take there, for every size and number of frames.         *)
(***************************************************************************)
EXTENDS CaptureProofs

-----------------------------------------------------------------------------
(* Frames in sequence                                                      *)

\* The frames of a sequence.
FramesOf(s) == {s[i] : i \in 1 .. Len(s)}

\* Frames stand in the order in which VPP sent them.
Rising(s) == \A i, j \in 1 .. Len(s) : i < j => s[i].id < s[j].id

\* All frames of s were sent before those of t.
Below(s, t) == \A f \in FramesOf(s), g \in FramesOf(t) : f.id < g.id

\* The empty sequence and that of one frame.
LEMMA FewFrames ==
  /\ FramesOf(<< >>) = {} /\ Rising(<< >>)
  /\ \A p : FramesOf(<<p>>) = {p} /\ Rising(<<p>>)
<1>1. Len(<< >>) = 0 /\ \A p : Len(<<p>>) = 1 /\ <<p>>[1] = p
  OBVIOUS
<1> QED BY <1>1 DEF FramesOf, Rising

\* The frames of a sequence put behind another.
LEMMA FramesConcat ==
  ASSUME NEW s \in Seq(Frame), NEW t \in Seq(Frame)
  PROVE  FramesOf(s \o t) = FramesOf(s) \cup FramesOf(t)
<1>1. Len(s) \in Nat /\ Len(t) \in Nat
  BY LenProperties
<1>2. /\ Len(s \o t) = Len(s) + Len(t)
      /\ \A i \in 1 .. Len(s) + Len(t) :
           (s \o t)[i] = IF i <= Len(s) THEN s[i] ELSE t[i - Len(s)]
  BY ConcatProperties
<1>3. FramesOf(s \o t) \subseteq FramesOf(s) \cup FramesOf(t)
  <2> SUFFICES ASSUME NEW i \in 1 .. Len(s \o t)
               PROVE  (s \o t)[i] \in FramesOf(s) \cup FramesOf(t)
    BY DEF FramesOf
  <2>1. CASE i <= Len(s)
    BY <1>1, <1>2, <2>1 DEF FramesOf
  <2>2. CASE ~(i <= Len(s))
    <3>1. i - Len(s) \in 1 .. Len(t) /\ (s \o t)[i] = t[i - Len(s)]
      BY <1>1, <1>2, <2>2
    <3> QED BY <3>1 DEF FramesOf
  <2> QED BY <2>1, <2>2
<1>4. FramesOf(s) \subseteq FramesOf(s \o t)
  BY <1>1, <1>2 DEF FramesOf
<1>5. FramesOf(t) \subseteq FramesOf(s \o t)
  <2> SUFFICES ASSUME NEW i \in 1 .. Len(t) PROVE t[i] \in FramesOf(s \o t)
    BY DEF FramesOf
  <2>1. i + Len(s) \in 1 .. Len(s \o t) /\ (s \o t)[i + Len(s)] = t[i]
    BY <1>1, <1>2
  <2> QED BY <2>1 DEF FramesOf
<1> QED BY <1>3, <1>4, <1>5

\* Two sequences in order make one, and the other way round.
LEMMA RisingConcat ==
  ASSUME NEW s \in Seq(Frame), NEW t \in Seq(Frame)
  PROVE  Rising(s \o t) <=> Rising(s) /\ Rising(t) /\ Below(s, t)
<1>1. Len(s) \in Nat /\ Len(t) \in Nat
  BY LenProperties
<1>2. /\ Len(s \o t) = Len(s) + Len(t)
      /\ \A i \in 1 .. Len(s) + Len(t) :
           (s \o t)[i] = IF i <= Len(s) THEN s[i] ELSE t[i - Len(s)]
  BY ConcatProperties
<1>3. ASSUME Rising(s \o t) PROVE Rising(s)
  BY <1>1, <1>2, <1>3 DEF Rising
<1>4. ASSUME Rising(s \o t) PROVE Rising(t)
  <2> SUFFICES ASSUME NEW i \in 1 .. Len(t), NEW j \in 1 .. Len(t), i < j
               PROVE  t[i].id < t[j].id
    BY DEF Rising
  <2>1. /\ i + Len(s) \in 1 .. Len(s \o t) /\ j + Len(s) \in 1 .. Len(s \o t)
        /\ i + Len(s) < j + Len(s)
        /\ (s \o t)[i + Len(s)] = t[i] /\ (s \o t)[j + Len(s)] = t[j]
    BY <1>1, <1>2
  <2> QED BY <1>4, <2>1 DEF Rising
<1>5. ASSUME Rising(s \o t) PROVE Below(s, t)
  <2> SUFFICES ASSUME NEW i \in 1 .. Len(s), NEW j \in 1 .. Len(t)
               PROVE  s[i].id < t[j].id
    BY DEF Below, FramesOf
  <2>1. /\ i \in 1 .. Len(s \o t) /\ j + Len(s) \in 1 .. Len(s \o t)
        /\ i < j + Len(s)
        /\ (s \o t)[i] = s[i] /\ (s \o t)[j + Len(s)] = t[j]
    BY <1>1, <1>2
  <2> QED BY <1>5, <2>1 DEF Rising
<1>6. ASSUME Rising(s), Rising(t), Below(s, t) PROVE Rising(s \o t)
  <2> SUFFICES ASSUME NEW i \in 1 .. Len(s \o t), NEW j \in 1 .. Len(s \o t), i < j
               PROVE  (s \o t)[i].id < (s \o t)[j].id
    BY DEF Rising
  <2>1. CASE j <= Len(s)
    BY <1>1, <1>2, <1>6, <2>1 DEF Rising
  <2>2. CASE i <= Len(s) /\ ~(j <= Len(s))
    <3>1. j - Len(s) \in 1 .. Len(t) /\ i \in 1 .. Len(s)
      BY <1>1, <1>2, <2>2
    <3>2. s[i] \in FramesOf(s) /\ t[j - Len(s)] \in FramesOf(t)
      BY <3>1 DEF FramesOf
    <3> QED BY <1>1, <1>2, <1>6, <2>2, <3>2 DEF Below
  <2>3. CASE ~(i <= Len(s)) /\ ~(j <= Len(s))
    <3>1. /\ i - Len(s) \in 1 .. Len(t) /\ j - Len(s) \in 1 .. Len(t)
          /\ i - Len(s) < j - Len(s)
      BY <1>1, <1>2, <2>3
    <3> QED BY <1>1, <1>2, <1>6, <2>3, <3>1 DEF Rising
  <2>4. i <= Len(s) \/ ~(j <= Len(s)) \/ j <= Len(s)
    OBVIOUS
  <2> QED BY <1>1, <1>2, <2>1, <2>2, <2>3
<1> QED BY <1>3, <1>4, <1>5, <1>6

\* A ring cut in two is the two parts, one behind the other.
LEMMA CutConcat ==
  ASSUME NEW s \in Seq(Frame), NEW n \in 0 .. Len(s)
  PROVE  SubSeq(s, 1, n) \o SubSeq(s, n + 1, Len(s)) = s
<1>1. Len(s) \in Nat
  BY LenProperties
<1>2. 1 \in 1 .. Len(s) + 1 /\ n \in 1 - 1 .. Len(s) /\ Len(s) \in n .. Len(s)
  BY <1>1
<1> QED BY <1>1, <1>2, ConcatAdjacentSubSeq, SubSeqFull

\* It does not matter in which order three sequences are put together.
LEMMA Regroup == \A s, t, u \in Seq(Frame) : (s \o t) \o u = s \o (t \o u)
BY ConcatAssociative

\* The first frame of a burst and the others make the burst.
LEMMA BurstConcat ==
  ASSUME burst \in Seq(Frame), burst # << >>
  PROVE  /\ <<NextBuf>> \in Seq(Frame) /\ Tail(burst) \in Seq(Frame)
         /\ <<NextBuf>> \o Tail(burst) = burst
<1>1. /\ NextBuf \in Frame /\ Tail(burst) \in Seq(Frame)
      /\ burst = <<Head(burst)>> \o Tail(burst)
  BY NextBufLemma, HeadTailProperties
<1> QED BY <1>1 DEF NextBuf
-----------------------------------------------------------------------------
(* What a step does to the records of a run                                *)

\* The records are sequences of frames, in the file and in stdio's buffer.
LEMMA RecordedType ==
  ASSUME TypeOK
  PROVE  /\ disk.pkts \in Seq(Frame) /\ buf.pkts \in Seq(Frame)
         /\ recorded \in Seq(Frame)
         /\ burst \in Seq(Frame) /\ ring \in Seq(Frame)
<1>1. disk.pkts \in Seq(Frame) /\ buf.pkts \in Seq(Frame)
  BY DEF TypeOK, FileTypeOK, Records
<1>2. disk.pkts \o buf.pkts \in Seq(Frame)
  BY <1>1, ConcatProperties
<1> QED BY <1>1, <1>2 DEF recorded, TypeOK, CommandTypeOK, MemifTypeOK

\* Flushing keeps the records, or loses those that were buffered.
LEMMA FlushRecords ==
  ASSUME TypeOK, buf' = Empty, disk' \in {disk, Join(disk, buf)}
  PROVE  /\ recorded' \in {recorded, disk.pkts}
         /\ disk' = Join(disk, buf) => recorded' = recorded
<1>1. disk.pkts \o << >> = disk.pkts /\ (disk.pkts \o buf.pkts) \o << >> = disk.pkts \o buf.pkts
  BY RecordedType, ConcatEmptySeq DEF recorded
<1>2. buf'.pkts = << >> /\ Join(disk, buf).pkts = disk.pkts \o buf.pkts
  BY EmptyLemma DEF Join
<1>3. recorded' = disk'.pkts \o << >>
  BY <1>2 DEF recorded
<1> QED BY <1>1, <1>2, <1>3 DEF recorded

\* write_pcap_packet puts the packet behind the records; otherwise a write has
\* failed, then or earlier, and nothing is added.
LEMMA WriteRecords ==
  ASSUME TypeOK, Account, CapturePacket
  PROVE  \/ recorded' = recorded \o <<NextBuf>>
         \/ ferror' /\ recorded' \in {recorded, disk.pkts}
<1> DEFINE p == NextBuf
<1>1. burst \in Seq(Frame) /\ burst # << >> /\ p \in Frame /\ <<p>> \in Seq(Frame)
  BY NextBufLemma, BurstConcat DEF TypeOK, CommandTypeOK, CapturePacket
<1>2. WritePacket(p) /\ OpenedDisk = disk
  BY DEF CapturePacket, OpenedDisk, Account, Ended
<1> HIDE DEF p
<1>3. disk.pkts \in Seq(Frame) /\ buf.pkts \in Seq(Frame)
  BY RecordedType
<1>4. CASE disk' = OpenedDisk /\ buf' = AddRecord(buf, p) /\ ferror' = ferror
  <2>1. buf'.pkts = buf.pkts \o <<p>>
    BY <1>1, <1>3, <1>4, AppendIsConcat DEF AddRecord
  <2>2. \A t \in Seq(Frame) : (disk.pkts \o buf.pkts) \o t = disk.pkts \o (buf.pkts \o t)
    BY <1>3, Regroup, Zenon
  <2>3. (disk.pkts \o buf.pkts) \o <<p>> = disk.pkts \o (buf.pkts \o <<p>>)
    BY <1>1, <2>2, Zenon
  <2> QED BY <1>2, <1>4, <2>1, <2>3 DEF recorded, p
<1>5. CASE disk' = Join(OpenedDisk, buf) /\ buf' = AddRecord(Empty, p) /\ ferror' = ferror
  <2>1. buf'.pkts = <<p>>
    BY <1>5 DEF AddRecord, Empty
  <2>2. disk'.pkts = disk.pkts \o buf.pkts
    BY <1>2, <1>5 DEF Join
  <2> QED BY <2>1, <2>2 DEF recorded, p
<1>6. CASE disk' = disk /\ buf' = Empty /\ ferror' = TRUE
  BY <1>6, FlushRecords
<1>7. CASE ferror /\ UNCHANGED <<disk, buf, ferror>>
  BY <1>7 DEF recorded
<1> QED BY <1>2, <1>4, <1>5, <1>6, <1>7 DEF WritePacket

\* No other step adds a record, and none is taken from the middle.  What is lost
\* while the process runs leaves the error flag.
LEMMA OtherRecords ==
  ASSUME TypeOK, Account, [Next]_vars, ~CapturePacket
  PROVE  /\ recorded' \in {recorded, disk.pkts}
         /\ ~ferror' /\ ~Ended' => recorded' = recorded
<1> USE DEF command, counters, calls, file, device, link, events, memif
<1>1. CASE UNCHANGED <<disk, buf>>
  BY <1>1 DEF recorded
<1>2. CASE RxBurst \/ StopOverLimit \/ WriteFails \/ BurstDone
  BY <1>1, <1>2 DEF RxBurst, StopOverLimit, WriteFails, BurstDone
<1>3. CASE AfterBurst
  <2>1. UNCHANGED <<disk, buf>> \/ (buf' = Empty /\ disk' = Join(disk, buf))
    BY <1>3 DEF AfterBurst, FlushOk
  <2> QED BY <1>1, <2>1, FlushRecords
<1>4. CASE AfterBurstFlushFails \/ Finish
  <2>1. buf' = Empty /\ (disk' = Join(disk, buf) \/ (disk' = disk /\ ferror'))
    BY <1>4 DEF AfterBurstFlushFails, Finish, FlushOk, FlushFails
  <2> QED BY <2>1, FlushRecords
<1>5. CASE Cleanup \/ Kill
  <2>1. buf' = Empty /\ disk' \in {disk, Join(disk, buf)} /\ Ended'
    BY <1>5 DEF Cleanup, Kill, Ended
  <2> QED BY <2>1, FlushRecords
<1>6. CASE \/ RxBurstFails \/ Poll
           \/ Setup \/ SetupFails \/ LoopTest \/ EnterPoll \/ AfterPoll
           \/ Signal \/ DeviceFails \/ PollFails \/ PeerConnects \/ PeerCloses
           \/ \E len \in Lens : Deliver(len)
           \/ UNCHANGED vars
  BY <1>1, <1>6, QuietSteps DEF Quiet
<1> QED BY <1>2, <1>3, <1>4, <1>5, <1>6
        DEF Next, Beastie, Callback, Main, Environment, Terminated
-----------------------------------------------------------------------------
(* Order                                                                   *)
(* FileInOrder speaks of records only.  They keep their order because each *)
(* frame is behind all those that are nearer to the file: the ring behind  *)
(* the burst, the burst behind the records, and VPP numbers on from there. *)

\* The last connection on which VPP can have sent a frame.
LastConn == IF conn = "connecting" THEN connects - 1 ELSE connects

\* The frames of s have been sent, on a connection there was.
Known(s) == \A f \in FramesOf(s) : f.id \in 1 .. sent /\ f.conn \in 1 .. LastConn

OrderInv ==
  /\ Rising(recorded) /\ Rising(burst) /\ Rising(ring)
  /\ Below(recorded, burst) /\ Below(recorded, ring) /\ Below(burst, ring)
  /\ Known(recorded) /\ Known(burst) /\ Known(ring)
  /\ conn # "down" => connects > 0

\* Frames may be dropped anywhere.
LEMMA OrderThinned ==
  ASSUME TypeOK, OrderInv,
         FramesOf(recorded') \subseteq FramesOf(recorded), Rising(recorded'),
         FramesOf(burst') \subseteq FramesOf(burst), Rising(burst'),
         FramesOf(ring') \subseteq FramesOf(ring), Rising(ring'),
         sent' = sent, LastConn' \in {LastConn, LastConn + 1},
         conn' # "down" => connects' > 0
  PROVE  OrderInv'
<1>1. Below(recorded', burst') /\ Below(recorded', ring') /\ Below(burst', ring')
  BY DEF OrderInv, Below
<1>2. LastConn \in Int
  BY DEF TypeOK, MemifTypeOK, LastConn
<1>3. Known(recorded)' /\ Known(burst)' /\ Known(ring)'
  BY <1>2 DEF OrderInv, Known
<1> QED BY <1>1, <1>3 DEF OrderInv

\* The back of a ring keeps the order, as does nothing at all.
LEMMA RingThinned ==
  ASSUME TypeOK, OrderInv, NEW n \in 0 .. Len(ring), ring' = SubSeq(ring, n + 1, Len(ring))
  PROVE  FramesOf(ring') \subseteq FramesOf(ring) /\ Rising(ring')
<1>1. ring \in Seq(Frame)
  BY RecordedType
<1> DEFINE front == SubSeq(ring, 1, n)
           back  == SubSeq(ring, n + 1, Len(ring))
<1>2. front \in Seq(Frame) /\ back \in Seq(Frame) /\ front \o back = ring
  BY <1>1, CutLemma, CutConcat
<1> HIDE DEF front, back
<1>3. Rising(ring)
  BY DEF OrderInv
<1>4. FramesOf(back) \subseteq FramesOf(ring) /\ Rising(back)
  BY <1>2, <1>3, FramesConcat, RisingConcat
<1> QED BY <1>4 DEF back

\* So do the records that are in the file already.
LEMMA RecordedThinned ==
  ASSUME TypeOK, OrderInv, recorded' \in {recorded, disk.pkts}
  PROVE  FramesOf(recorded') \subseteq FramesOf(recorded) /\ Rising(recorded')
<1>1. disk.pkts \in Seq(Frame) /\ buf.pkts \in Seq(Frame)
  BY RecordedType
<1>2. Rising(disk.pkts \o buf.pkts)
  BY DEF OrderInv, recorded
<1>3. Rising(disk.pkts) /\ FramesOf(disk.pkts) \subseteq FramesOf(disk.pkts \o buf.pkts)
  BY <1>1, <1>2, FramesConcat, RisingConcat
<1>4. FramesOf(disk.pkts) \subseteq FramesOf(recorded) /\ Rising(recorded)
  BY <1>3 DEF OrderInv, recorded
<1>5. CASE recorded' = recorded
  BY <1>4, <1>5
<1>6. CASE recorded' = disk.pkts
  BY <1>3, <1>4, <1>6
<1> QED BY <1>5, <1>6

\* What the other steps do to the burst, the ring and the connection.
LEMMA OtherFrames ==
  ASSUME TypeOK, OrderInv, [Next]_vars, ~RxBurst, ~CapturePacket,
         \A len \in Lens : ~Deliver(len)
  PROVE  /\ burst' \in {burst, << >>}
         /\ ring' \in {ring, << >>} \/ \E n \in 0 .. Len(ring) : ring' = SubSeq(ring, n + 1, Len(ring))
         /\ sent' = sent /\ LastConn' \in {LastConn, LastConn + 1}
         /\ conn' # "down" => connects' > 0
<1> USE DEF command, counters, calls, file, device, link, events, memif, LastConn
<1>0. connects \in Nat /\ (conn # "down" => connects > 0) /\ ring \in Seq(Frame)
  BY RecordedType DEF TypeOK, MemifTypeOK, OrderInv
<1>1. CASE RxBurstFails
  <2>1. BurstLen \in 0 .. Len(ring) /\ Len(ring) \in Nat
    BY <1>0, BurstLenLemma, LenProperties
  <2>2. PICK n \in 0 .. BurstLen : ring' = SubSeq(ring, n + 1, Len(ring))
    BY <1>1 DEF RxBurstFails
  <2>3. n \in 0 .. Len(ring)
    BY <2>1
  <2>4. burst' = burst /\ UNCHANGED link
    BY <1>1 DEF RxBurstFails
  <2> QED BY <1>0, <2>2, <2>3, <2>4
<1>2. CASE StopOverLimit \/ WriteFails \/ BurstDone \/ AfterBurst \/ AfterBurstFlushFails
  BY <1>0, <1>2 DEF StopOverLimit, WriteFails, BurstDone, AfterBurst, AfterBurstFlushFails
<1>3. CASE Poll
  BY <1>0, <1>3 DEF Poll, PollConnect, PollDisconnect, PollCancel, PollInterrupt
<1>4. CASE Main
  BY <1>0, <1>4 DEF Main, Setup, SetupFails, LoopTest, EnterPoll, AfterPoll, Finish, Cleanup
<1>5. CASE \/ Signal \/ Kill \/ DeviceFails \/ PollFails \/ PeerConnects \/ PeerCloses
  BY <1>0, <1>5 DEF Signal, Kill, DeviceFails, PollFails, PeerConnects, PeerCloses
<1>6. CASE UNCHANGED vars
  BY <1>0, <1>6 DEF vars
<1> QED BY <1>1, <1>2, <1>3, <1>4, <1>5, <1>6
        DEF Next, Beastie, Callback, Environment, Terminated

\* Every step keeps the order.
LEMMA OrderNext == TypeOK /\ Account /\ OrderInv /\ [Next]_vars => OrderInv'
<1> SUFFICES ASSUME TypeOK, Account, OrderInv, [Next]_vars PROVE OrderInv'
  OBVIOUS
<1> USE DEF command, counters, calls, file, device, link, events, memif
<1>0. /\ recorded \in Seq(Frame) /\ burst \in Seq(Frame) /\ ring \in Seq(Frame)
      /\ sent \in Nat /\ connects \in Nat
  BY RecordedType DEF TypeOK, MemifTypeOK
<1>1. CASE RxBurst
  <2>1. burst' = SubSeq(ring, 1, BurstLen) /\ ring' = SubSeq(ring, BurstLen + 1, Len(ring))
    BY <1>1 DEF RxBurst
  <2>2. BurstLen \in 0 .. Len(ring)
    BY <1>0, BurstLenLemma
  <2>3. burst' \in Seq(Frame) /\ ring' \in Seq(Frame) /\ burst' \o ring' = ring
    BY <1>0, <2>1, <2>2, CutLemma, CutConcat
  <2>4. /\ Rising(burst') /\ Rising(ring') /\ Below(burst', ring')
        /\ FramesOf(ring) = FramesOf(burst') \cup FramesOf(ring')
    BY <2>3, RisingConcat, FramesConcat DEF OrderInv
  <2>5. /\ recorded' = recorded /\ conn' = conn
        /\ sent' = sent /\ connects' = connects
    BY <1>1 DEF RxBurst, recorded
  <2>6. Below(recorded', burst') /\ Below(recorded', ring')
    BY <2>4, <2>5 DEF OrderInv, Below
  <2>7. Known(recorded)' /\ Known(burst)' /\ Known(ring)'
    BY <2>4, <2>5 DEF OrderInv, Known, LastConn
  <2> QED BY <2>4, <2>5, <2>6, <2>7 DEF OrderInv
<1>2. CASE CapturePacket
  <2>1. /\ <<NextBuf>> \in Seq(Frame) /\ Tail(burst) \in Seq(Frame)
        /\ <<NextBuf>> \o Tail(burst) = burst
    BY <1>0, <1>2, BurstConcat DEF CapturePacket
  <2>2. /\ FramesOf(burst) = {NextBuf} \cup FramesOf(Tail(burst))
        /\ Rising(Tail(burst)) /\ \A f \in FramesOf(Tail(burst)) : NextBuf.id < f.id
    <3>1. /\ FramesOf(burst) = FramesOf(<<NextBuf>>) \cup FramesOf(Tail(burst))
          /\ Rising(Tail(burst)) /\ Below(<<NextBuf>>, Tail(burst))
      BY <2>1, FramesConcat, RisingConcat DEF OrderInv
    <3> QED BY <3>1, FewFrames DEF Below
  <2>3. burst' \in {<< >>, Tail(burst)} /\ ring' = ring /\ sent' = sent
        /\ connects' = connects /\ conn' = conn
    BY <1>2 DEF CapturePacket
  <2>4. FramesOf(burst') \subseteq FramesOf(Tail(burst)) /\ Rising(burst')
    BY <2>2, <2>3, FewFrames
  <2>5. CASE recorded' = recorded \o <<NextBuf>>
    <3>1. \A f \in FramesOf(recorded) : f.id < NextBuf.id
      BY <2>2 DEF OrderInv, Below
    <3>2. Below(recorded, <<NextBuf>>)
      BY <3>1, FewFrames DEF Below
    <3>3. Rising(recorded') /\ FramesOf(recorded') = FramesOf(recorded) \cup {NextBuf}
      <4>1. FramesOf(recorded \o <<NextBuf>>) = FramesOf(recorded) \cup FramesOf(<<NextBuf>>)
        BY <1>0, <2>1, FramesConcat
      <4>2. Rising(recorded \o <<NextBuf>>)
        BY <1>0, <2>1, <3>2, FewFrames, RisingConcat DEF OrderInv
      <4> QED BY <2>5, <4>1, <4>2, FewFrames, Zenon
    <3>4. Below(recorded', burst') /\ Below(recorded', ring') /\ Below(burst', ring')
      BY <2>2, <2>3, <2>4, <3>3 DEF OrderInv, Below
    <3>5. Known(recorded)' /\ Known(burst)' /\ Known(ring)'
      BY <2>2, <2>3, <2>4, <3>3 DEF OrderInv, Known, LastConn
    <3> QED BY <2>3, <2>4, <3>3, <3>4, <3>5 DEF OrderInv
  <2>6. CASE recorded' \in {recorded, disk.pkts}
    <3>1. FramesOf(recorded') \subseteq FramesOf(recorded) /\ Rising(recorded')
      BY <2>6, RecordedThinned
    <3>2. FramesOf(burst') \subseteq FramesOf(burst)
      BY <2>2, <2>4
    <3>3. LastConn' = LastConn
      BY <2>3 DEF LastConn
    <3> QED BY <2>3, <2>4, <3>1, <3>2, <3>3, OrderThinned DEF OrderInv
  <2> QED BY <1>2, <2>5, <2>6, WriteRecords
<1>3. ASSUME NEW len \in Lens, Deliver(len)
      PROVE  OrderInv'
  <2> DEFINE f == [id |-> sent + 1, len |-> len, conn |-> connects]
  <2>1. f \in Frame
    BY <1>0, CaptureAssumption DEF Frame
  <2>2. /\ ring' = Append(ring, f) /\ sent' = sent + 1 /\ connects' = connects
        /\ conn' = conn /\ conn = "up" /\ burst' = burst /\ recorded' = recorded
    BY <1>3 DEF Deliver, recorded
  <2>3. f.id = sent + 1 /\ f.conn = connects
    OBVIOUS
  <2> HIDE DEF f
  <2>4. ring' = ring \o <<f>> /\ <<f>> \in Seq(Frame)
    <3>1. <<f>> \in Seq(Frame)
      BY <2>1
    <3>2. \A g \in Frame : Append(ring, g) = ring \o <<g>>
      BY <1>0, AppendIsConcat
    <3> QED BY <2>1, <2>2, <3>1, <3>2, Zenon
  <2>5. \A g \in FramesOf(recorded) \cup FramesOf(burst) \cup FramesOf(ring) :
          g.id \in 1 .. sent /\ g.conn \in 1 .. connects
    BY <2>2 DEF OrderInv, Known, LastConn
  <2>6. FramesOf(ring') = FramesOf(ring) \cup {f}
    <3>1. FramesOf(ring \o <<f>>) = FramesOf(ring) \cup FramesOf(<<f>>)
      BY <1>0, <2>4, FramesConcat
    <3> QED BY <2>4, <3>1, FewFrames, Zenon
  <2>7. Rising(ring')
    <3>1. Below(ring, <<f>>)
      BY <1>0, <2>3, <2>5, FewFrames DEF Below
    <3>2. Rising(ring \o <<f>>)
      BY <1>0, <2>4, <3>1, FewFrames, RisingConcat DEF OrderInv
    <3> QED BY <2>4, <3>2, Zenon
  <2>8. \A g \in FramesOf(recorded) \cup FramesOf(burst) : g.id < f.id
    BY <1>0, <2>3, <2>5
  <2>9. Below(recorded', ring') /\ Below(burst', ring') /\ Below(recorded', burst')
    BY <2>2, <2>6, <2>8 DEF OrderInv, Below
  <2>10. connects > 0
    BY <2>2 DEF OrderInv
  <2>11. Known(recorded)' /\ Known(burst)' /\ Known(ring)'
    BY <1>0, <2>2, <2>3, <2>5, <2>6, <2>10 DEF Known, LastConn
  <2> QED BY <2>2, <2>7, <2>9, <2>10, <2>11 DEF OrderInv
<1>4. CASE ~RxBurst /\ ~CapturePacket /\ \A len \in Lens : ~Deliver(len)
  <2>1. FramesOf(recorded') \subseteq FramesOf(recorded) /\ Rising(recorded')
    BY <1>4, OtherRecords, RecordedThinned
  <2>2. FramesOf(burst') \subseteq FramesOf(burst) /\ Rising(burst')
    BY <1>4, OtherFrames, FewFrames DEF OrderInv
  <2>3. FramesOf(ring') \subseteq FramesOf(ring) /\ Rising(ring')
    <3>1. CASE ring' \in {ring, << >>}
      BY <3>1, FewFrames DEF OrderInv
    <3>2. CASE \E n \in 0 .. Len(ring) : ring' = SubSeq(ring, n + 1, Len(ring))
      BY <3>2, RingThinned
    <3> QED BY <1>4, <3>1, <3>2, OtherFrames
  <2> QED BY <1>4, <2>1, <2>2, <2>3, OtherFrames, OrderThinned
<1> QED BY <1>1, <1>2, <1>3, <1>4

\* At the start there are no frames.
LEMMA OrderInit == Init => OrderInv
<1> SUFFICES ASSUME Init PROVE OrderInv
  OBVIOUS
<1>1. recorded = << >>
  BY EmptyLemma, ConcatEmptySeq, EmptySeq DEF Init, recorded
<1> QED BY <1>1, FewFrames DEF Init, OrderInv, Below, Known

\* The order of all frames between ring and file holds in every reachable state.
LEMMA OrderCorrect == Spec => [](TypeOK /\ Account /\ OrderInv)
BY AccountCorrect, OrderInit, OrderNext, PTL DEF Spec

\* The file keeps the order of arrival and has no frame twice, for every size of
\* ring, burst and buffer: across reconnections, failing receive and refill
\* calls, errors of the device and dropped bursts.
THEOREM FileKeepsOrder == Spec => []FileInOrder
<1>1. OrderInv => FileInOrder
  BY DEF OrderInv, Rising, FileInOrder
<1> QED BY <1>1, OrderCorrect, PTL
-----------------------------------------------------------------------------
(* Slots                                                                   *)
(* SlotsReturned speaks of the time between callbacks.  During a callback  *)
(* the slots of the burst are missing: InFlight counts them.               *)

\* The calls of libmemif that receive and refill do not fail.
RingCallsWork == "rx" \notin Faults /\ "refill" \notin Faults

AllSlots ==
  conn \in {"up", "closing"} /\ ~ferror /\ ~write_failed =>
    free + Len(ring) + InFlight = RingSize

\* A step that leaves connection, ring and burst alone keeps the slots.
LEMMA SlotsStay ==
  ASSUME AllSlots, UNCHANGED <<conn, ring, free>>, InFlight' = InFlight,
         ferror => ferror', write_failed => write_failed'
  PROVE  AllSlots'
BY DEF AllSlots

\* Every step keeps the slots.
LEMMA SlotsNext ==
  ASSUME RingCallsWork
  PROVE  TypeInv /\ AllSlots /\ [Next]_vars => AllSlots'
<1> SUFFICES ASSUME TypeInv, AllSlots, [Next]_vars PROVE AllSlots'
  OBVIOUS
<1> USE DEF command, counters, calls, file, device, link, events, memif
<1>0. /\ ring \in Seq(Frame) /\ Len(ring) \in Nat /\ free \in Nat /\ rx \in Nat
      /\ RingSize \in Nat /\ ferror \in BOOLEAN /\ write_failed \in BOOLEAN
  BY LenProperties, CaptureAssumption
     DEF TypeInv, TypeOK, CommandTypeOK, FileTypeOK, MemifTypeOK
<1>1. CASE RxBurst
  <2>1. /\ pc = "rx_burst" /\ pc' = "packet" /\ rx' = BurstLen
        /\ ring' = SubSeq(ring, BurstLen + 1, Len(ring))
        /\ UNCHANGED <<conn, free, ferror, write_failed>>
    BY <1>1 DEF RxBurst
  <2>2. BurstLen \in 0 .. Len(ring)
    BY <1>0, BurstLenLemma
  <2>3. Len(ring') = Len(ring) - BurstLen
    BY <1>0, <2>1, <2>2, CutLemma
  <2>4. InFlight = 0 /\ InFlight' = BurstLen
    BY <2>1 DEF InFlight
  <2> QED BY <1>0, <2>1, <2>2, <2>3, <2>4 DEF AllSlots
<1>2. CASE RxBurstFails
  BY <1>2 DEF RxBurstFails, RingCallsWork
<1>3. CASE StopOverLimit \/ BurstDone
  BY <1>3, SlotsStay DEF StopOverLimit, BurstDone, InFlight
<1>4. CASE CapturePacket
  <2>1. /\ pc = "packet" /\ pc' \in {"packet", "after_burst"}
        /\ UNCHANGED <<rx, conn, ring, free, write_failed>>
        /\ WritePacket(NextBuf)
    BY <1>4 DEF CapturePacket
  <2>2. ferror => ferror'
    BY <2>1 DEF WritePacket
  <2> QED BY <2>1, <2>2, SlotsStay DEF InFlight
<1>5. CASE WriteFails
  BY <1>5 DEF WriteFails, AllSlots
<1>6. CASE AfterBurst
  <2>1. /\ pc = "after_burst" /\ pc' = "polled" /\ free' = free + rx
        /\ UNCHANGED <<conn, ring, write_failed>>
    BY <1>6 DEF AfterBurst, Refilled, RingCallsWork
  <2>2. ferror' = ferror
    BY <1>6 DEF AfterBurst, FlushOk
  <2>3. InFlight = rx /\ InFlight' = 0
    BY <2>1 DEF InFlight
  <2> QED BY <1>0, <2>1, <2>2, <2>3 DEF AllSlots
<1>7. CASE AfterBurstFlushFails
  BY <1>7 DEF AfterBurstFlushFails, FlushFails, AllSlots
<1>8. CASE PollConnect
  <2>1. conn = "connecting" /\ pc' = "polled" /\ free' = RingSize /\ ring' = ring
    BY <1>8 DEF PollConnect, RingCallsWork
  <2>2. ring = << >>
    BY <2>1 DEF TypeInv, Slots
  <2>3. InFlight' = 0 /\ Len(ring') = 0
    BY <2>1, <2>2, EmptySeq DEF InFlight
  <2> QED BY <1>0, <2>1, <2>3 DEF AllSlots
<1>9. CASE PollDisconnect \/ Cleanup \/ Kill \/ PeerConnects
  BY <1>9 DEF PollDisconnect, Cleanup, Kill, PeerConnects, AllSlots
<1>10. CASE \/ PollCancel \/ PollInterrupt \/ PollFails
            \/ Setup \/ SetupFails \/ LoopTest \/ EnterPoll \/ AfterPoll
  BY <1>10, SlotsStay DEF PollCancel, PollInterrupt, PollFails,
       Setup, SetupFails, LoopTest, EnterPoll, AfterPoll, InFlight
<1>11. CASE Finish
  <2>1. ferror => ferror'
    BY <1>11 DEF Finish, FlushOk, FlushFails
  <2> QED BY <1>11, <2>1, SlotsStay DEF Finish, InFlight
<1>12. CASE Signal
  BY <1>12, SlotsStay DEF Signal, InFlight
<1>13. CASE DeviceFails \/ UNCHANGED vars
  BY <1>13, SlotsStay DEF DeviceFails, vars, InFlight
<1>14. CASE PeerCloses
  <2>1. conn = "up" /\ UNCHANGED <<pc, rx, ring, free, ferror, write_failed>>
    BY <1>14 DEF PeerCloses
  <2> QED BY <2>1 DEF AllSlots, InFlight
<1>15. ASSUME NEW len \in Lens, Deliver(len)
       PROVE  AllSlots'
  <2> DEFINE f == [id |-> sent + 1, len |-> len, conn |-> connects]
  <2>1. f \in Frame
    BY CaptureAssumption DEF Frame, TypeInv, TypeOK, MemifTypeOK
  <2>2. /\ ring' = Append(ring, f) /\ free > 0 /\ free' = free - 1
        /\ UNCHANGED <<pc, rx, conn, ferror, write_failed>>
    BY <1>15 DEF Deliver
  <2> HIDE DEF f
  <2>3. Len(ring') = Len(ring) + 1
    BY <1>0, <2>1, <2>2, AppendProperties
  <2>4. InFlight' = InFlight /\ InFlight \in Nat
    BY <1>0, <2>2 DEF InFlight
  <2> QED BY <1>0, <2>2, <2>3, <2>4 DEF AllSlots
<1> QED BY <1>1, <1>2, <1>3, <1>4, <1>5, <1>6, <1>7, <1>8, <1>9, <1>10, <1>11, <1>12, <1>13,
           <1>14, <1>15
        DEF Next, Beastie, Callback, Poll, Main, Environment, Terminated

\* As long as libmemif's receive and refill calls work, on_interrupt hands back
\* exactly the slots it took, for every size of ring and burst and also when the
\* limit cuts a burst short: no slot of a live connection is lost for good.
THEOREM SlotsComeBack ==
  ASSUME RingCallsWork
  PROVE  Spec => []SlotsReturned
<1>1. Init => AllSlots
  BY DEF Init, AllSlots
<1>2. TypeInv /\ AllSlots => SlotsReturned
  <2> SUFFICES ASSUME TypeInv, AllSlots, conn \in {"up", "closing"}, ~ferror, ~write_failed,
                      pc \notin {"packet", "after_burst"}
               PROVE  free + Len(ring) = RingSize
    BY DEF SlotsReturned
  <2>1. free \in Nat /\ Len(ring) \in Nat
    BY LenProperties DEF TypeInv, TypeOK, MemifTypeOK
  <2>2. InFlight = 0
    BY DEF InFlight
  <2> QED BY <2>1, <2>2 DEF AllSlots
<1> QED BY <1>1, <1>2, SlotsNext, TypeInvCorrect, PTL DEF Spec
-----------------------------------------------------------------------------
(* Gaps                                                                    *)
(* NoSkip speaks of records only.  It holds because the records, the burst *)
(* and the ring together have no gap, as long as beastie may still write a *)
(* packet: where on_interrupt drops the rest of a burst, it never will.    *)

\* Neighbouring frames of a connection were sent one after the other.
Seamless(s) ==
  \A i \in 1 .. Len(s) - 1 : s[i].conn = s[i + 1].conn => s[i + 1].id = s[i].id + 1

\* The frames from the beginning of the file to the end of the ring.
pipeline == (recorded \o burst) \o ring

\* beastie_run_capture may still call write_pcap_packet.
Going == \/ pc \in {"setup", "while", "enter", "poll", "rx_burst", "packet"}
         \/ keep_running /\ pc \in {"after_burst", "polled"}

\* VPP's next frame follows the last one of the connection.
EndsAtSent(s) ==
  s # << >> /\ s[Len(s)].conn = connects => s[Len(s)].id = sent

StreamInv ==
  /\ ~ferror => Seamless(recorded)
  /\ ~ferror /\ Going => /\ Seamless(pipeline)
                         /\ conn = "up" => EndsAtSent(pipeline)
  /\ burst # << >> => pc \in {"packet", "killed"}

\* Each of two sequences is without a gap if they are together.
LEMMA SeamlessParts ==
  ASSUME NEW s \in Seq(Frame), NEW t \in Seq(Frame), Seamless(s \o t)
  PROVE  Seamless(s)
<1>1. Len(s) \in Nat /\ Len(t) \in Nat
  BY LenProperties
<1>2. /\ Len(s \o t) = Len(s) + Len(t)
      /\ \A i \in 1 .. Len(s) + Len(t) :
           (s \o t)[i] = IF i <= Len(s) THEN s[i] ELSE t[i - Len(s)]
  BY ConcatProperties
<1> SUFFICES ASSUME NEW i \in 1 .. Len(s) - 1, s[i].conn = s[i + 1].conn
             PROVE  s[i + 1].id = s[i].id + 1
  BY DEF Seamless
<1>3. i \in 1 .. Len(s \o t) - 1 /\ (s \o t)[i] = s[i] /\ (s \o t)[i + 1] = s[i + 1]
  BY <1>1, <1>2
<1> QED BY <1>3 DEF Seamless

\* One more frame that follows the last one of its connection.
LEMMA SeamlessAppend ==
  ASSUME NEW s \in Seq(Frame), NEW f \in Frame, Seamless(s),
         s # << >> /\ s[Len(s)].conn = f.conn => f.id = s[Len(s)].id + 1
  PROVE  Seamless(Append(s, f))
<1>1. /\ Len(s) \in Nat /\ Len(Append(s, f)) = Len(s) + 1
      /\ \A i \in 1 .. Len(s) : Append(s, f)[i] = s[i]
      /\ Append(s, f)[Len(s) + 1] = f
      /\ s = << >> <=> Len(s) = 0
  BY LenProperties, AppendProperties, EmptySeq
<1> SUFFICES ASSUME NEW i \in 1 .. Len(s),
                    Append(s, f)[i].conn = Append(s, f)[i + 1].conn
             PROVE  Append(s, f)[i + 1].id = Append(s, f)[i].id + 1
  BY <1>1 DEF Seamless
<1>2. CASE i = Len(s)
  BY <1>1, <1>2
<1>3. CASE i < Len(s)
  <2>1. i \in 1 .. Len(s) - 1 /\ Append(s, f)[i] = s[i] /\ Append(s, f)[i + 1] = s[i + 1]
    BY <1>1, <1>3
  <2> QED BY <2>1 DEF Seamless
<1> QED BY <1>1, <1>2, <1>3

\* The frames under way, as one sequence.
LEMMA PipelineType ==
  ASSUME TypeOK
  PROVE  /\ recorded \o burst \in Seq(Frame) /\ pipeline \in Seq(Frame)
         /\ pipeline = recorded \o (burst \o ring) /\ burst \o ring \in Seq(Frame)
<1>1. recorded \in Seq(Frame) /\ burst \in Seq(Frame) /\ ring \in Seq(Frame)
  BY RecordedType
<1>2. recorded \o burst \in Seq(Frame) /\ burst \o ring \in Seq(Frame)
  BY <1>1, ConcatProperties
<1>3. (recorded \o burst) \o ring \in Seq(Frame)
  BY <1>1, <1>2, ConcatProperties
<1>4. (recorded \o burst) \o ring = recorded \o (burst \o ring)
  BY <1>1, Regroup, Zenon
<1> QED BY <1>2, <1>3, <1>4 DEF pipeline

\* Its last frame is one of them.
LEMMA PipelineFrames ==
  ASSUME TypeOK, pipeline # << >>
  PROVE  pipeline[Len(pipeline)] \in FramesOf(recorded) \cup FramesOf(burst) \cup FramesOf(ring)
<1>1. /\ recorded \in Seq(Frame) /\ burst \in Seq(Frame) /\ ring \in Seq(Frame)
      /\ recorded \o burst \in Seq(Frame) /\ pipeline \in Seq(Frame)
  BY RecordedType, PipelineType
<1>2. FramesOf(pipeline) = FramesOf(recorded) \cup FramesOf(burst) \cup FramesOf(ring)
  BY <1>1, FramesConcat DEF pipeline
<1>3. Len(pipeline) \in 1 .. Len(pipeline)
  BY <1>1, LenProperties, EmptySeq
<1> QED BY <1>2, <1>3 DEF FramesOf

\* What has stopped stays so.
LEMMA GoingStep == TypeOK /\ [Next]_vars /\ Going' => Going
<1> SUFFICES ASSUME TypeOK, [Next]_vars, Going' PROVE Going
  OBVIOUS
<1> USE DEF Going, command, counters, calls, file, device, link, events, memif
<1>1. CASE Callback
  BY <1>1 DEF Callback, RxBurst, RxBurstFails, StopOverLimit, WriteFails, CapturePacket,
     BurstDone, AfterBurst, AfterBurstFlushFails, Returns
<1>2. CASE Poll
  BY <1>2 DEF Poll, PollConnect, PollDisconnect, PollCancel, PollInterrupt
<1>3. CASE Main
  BY <1>3 DEF Main, Setup, SetupFails, LoopTest, EnterPoll, AfterPoll, Finish, Cleanup
<1>4. CASE Environment
  <2>1. CASE Signal \/ Kill \/ PollFails
    BY <2>1 DEF Signal, Kill, PollFails
  <2>2. CASE DeviceFails \/ PeerConnects \/ PeerCloses \/ \E len \in Lens : Deliver(len)
    BY <2>2 DEF DeviceFails, PeerConnects, PeerCloses, Deliver
  <2> QED BY <1>4, <2>1, <2>2 DEF Environment
<1>5. CASE UNCHANGED vars
  BY <1>5 DEF vars
<1> QED BY <1>1, <1>2, <1>3, <1>4, <1>5 DEF Next, Beastie, Terminated

\* The records have no gap if they were part of a pipeline without one.
LEMMA RecordsOfPipeline ==
  ASSUME TypeOK, Seamless(pipeline)
  PROVE  Seamless(recorded) /\ Seamless(recorded \o burst)
<1>1. pipeline = recorded \o (burst \o ring) /\ pipeline = (recorded \o burst) \o ring
  BY PipelineType DEF pipeline
<1>2. Seamless(recorded \o (burst \o ring)) /\ Seamless((recorded \o burst) \o ring)
  BY <1>1, Zenon
<1> QED BY <1>2, PipelineType, RecordedType, SeamlessParts

\* The next buffer of the burst may be counted with the records.
LEMMA NextJoinsRecords ==
  ASSUME TypeOK, burst # << >>
  PROVE  /\ (recorded \o <<NextBuf>>) \o Tail(burst) = recorded \o burst
         /\ recorded \o <<NextBuf>> \in Seq(Frame)
<1>1. /\ <<NextBuf>> \in Seq(Frame) /\ Tail(burst) \in Seq(Frame)
      /\ <<NextBuf>> \o Tail(burst) = burst
  BY RecordedType, BurstConcat
<1>2. /\ \A t \in Seq(Frame) : recorded \o t \in Seq(Frame)
      /\ \A t, u \in Seq(Frame) : (recorded \o t) \o u = recorded \o (t \o u)
  BY RecordedType, ConcatProperties, Regroup
<1> QED BY <1>1, <1>2, Zenon

\* A step that moves frames along without losing one keeps the stream, and so
\* does one after which nothing more is written.
LEMMA StreamKept ==
  /\ StreamInv /\ (ferror => ferror') /\ (Going' => Going)
  /\ ~ferror' => Seamless(recorded')
  /\ ~ferror' /\ Going' => pipeline' = pipeline
  /\ sent' = sent /\ (conn' = "up" => conn = "up" /\ connects' = connects)
  /\ burst' # << >> => pc' \in {"packet", "killed"}
  => StreamInv'
<1> SUFFICES
      ASSUME StreamInv, ferror => ferror', Going' => Going,
             ~ferror' => Seamless(recorded'),
             ~ferror' /\ Going' => pipeline' = pipeline,
             sent' = sent, conn' = "up" => conn = "up" /\ connects' = connects,
             burst' # << >> => pc' \in {"packet", "killed"}
      PROVE  StreamInv'
  OBVIOUS
<1>1. ASSUME ~ferror', Going'
      PROVE  Seamless(pipeline') /\ (conn' = "up" => EndsAtSent(pipeline)')
  <2>1. Seamless(pipeline) /\ (conn = "up" => EndsAtSent(pipeline))
    BY <1>1 DEF StreamInv
  <2> QED BY <1>1, <2>1 DEF EndsAtSent
<1> QED BY <1>1 DEF StreamInv

\* Nothing clears stdio's error flag.
LEMMA ErrorStays == ferror /\ [Next]_vars => ferror'
<1> SUFFICES ASSUME ferror, [Next]_vars PROVE ferror'
  OBVIOUS
<1> USE DEF command, counters, calls, file, device, link, events, memif
<1>1. CASE RxBurst \/ StopOverLimit \/ WriteFails \/ BurstDone
  BY <1>1 DEF RxBurst, StopOverLimit, WriteFails, BurstDone
<1>2. CASE CapturePacket
  BY <1>2 DEF CapturePacket, WritePacket
<1>3. CASE AfterBurst \/ AfterBurstFlushFails \/ Finish
  BY <1>3 DEF AfterBurst, AfterBurstFlushFails, Finish, FlushOk, FlushFails
<1>4. CASE Cleanup \/ Kill
  BY <1>4 DEF Cleanup, Kill
<1>5. CASE \/ RxBurstFails \/ Poll
           \/ Setup \/ SetupFails \/ LoopTest \/ EnterPoll \/ AfterPoll
           \/ Signal \/ DeviceFails \/ PollFails \/ PeerConnects \/ PeerCloses
           \/ \E len \in Lens : Deliver(len)
           \/ UNCHANGED vars
  BY <1>5, QuietSteps DEF Quiet
<1> QED BY <1>1, <1>2, <1>3, <1>4, <1>5
        DEF Next, Beastie, Callback, Main, Environment, Terminated

\* Buffers wait to be looked at only inside the loop of on_interrupt.
LEMMA BurstPlace == StreamInv /\ [Next]_vars /\ burst' # << >> => pc' \in {"packet", "killed"}
<1> SUFFICES ASSUME burst # << >> => pc \in {"packet", "killed"}, [Next]_vars, burst' # << >>
             PROVE  pc' \in {"packet", "killed"}
  BY DEF StreamInv
<1> USE DEF command, counters, calls, file, device, link, events, memif
<1>1. CASE Callback
  BY <1>1 DEF Callback, RxBurst, RxBurstFails, StopOverLimit, WriteFails, CapturePacket,
     BurstDone, AfterBurst, AfterBurstFlushFails, Returns
<1>2. CASE Poll
  BY <1>2 DEF Poll, PollConnect, PollDisconnect, PollCancel, PollInterrupt
<1>3. CASE Main
  BY <1>3 DEF Main, Setup, SetupFails, LoopTest, EnterPoll, AfterPoll, Finish, Cleanup
<1>4. CASE Environment
  <2>1. CASE Signal \/ Kill \/ PollFails
    BY <2>1 DEF Signal, Kill, PollFails
  <2>2. CASE DeviceFails \/ PeerConnects \/ PeerCloses \/ \E len \in Lens : Deliver(len)
    BY <2>2 DEF DeviceFails, PeerConnects, PeerCloses, Deliver
  <2> QED BY <1>4, <2>1, <2>2 DEF Environment
<1>5. CASE UNCHANGED vars
  BY <1>5 DEF vars
<1> QED BY <1>1, <1>2, <1>3, <1>4, <1>5 DEF Next, Beastie, Terminated

\* The records stay without a gap, whatever a step adds or loses.
LEMMA RecordsSeamless ==
  TypeOK /\ Account /\ StreamInv /\ [Next]_vars /\ ~ferror' => Seamless(recorded')
<1> SUFFICES ASSUME TypeOK, Account, StreamInv, [Next]_vars, ~ferror'
             PROVE  Seamless(recorded')
  OBVIOUS
<1>1. ~ferror /\ Seamless(recorded)
  BY ErrorStays DEF StreamInv
<1>2. CASE recorded' \in {recorded, disk.pkts}
  <2>1. Seamless(disk.pkts)
    BY <1>1, RecordedType, SeamlessParts DEF recorded
  <2> QED BY <1>1, <1>2, <2>1
<1>3. CASE CapturePacket /\ recorded' = recorded \o <<NextBuf>>
  <2>1. pc = "packet" /\ burst \in Seq(Frame) /\ burst # << >>
    BY <1>3, RecordedType DEF CapturePacket
  <2>2. /\ <<NextBuf>> \in Seq(Frame) /\ Tail(burst) \in Seq(Frame)
        /\ <<NextBuf>> \o Tail(burst) = burst
    BY <2>1, BurstConcat
  <2>3. Seamless(recorded \o burst)
    BY <1>1, <2>1, RecordsOfPipeline DEF StreamInv, Going
  <2>4. /\ (recorded \o <<NextBuf>>) \o Tail(burst) = recorded \o burst
        /\ recorded \o <<NextBuf>> \in Seq(Frame)
    BY <2>1, NextJoinsRecords
  <2>5. Seamless((recorded \o <<NextBuf>>) \o Tail(burst))
    BY <2>3, <2>4, Zenon
  <2> QED BY <1>3, <2>2, <2>4, <2>5, SeamlessParts
<1> QED BY <1>2, <1>3, OtherRecords, WriteRecords

\* Receiving a burst and writing a packet only move frames along.
LEMMA PipelineMoves ==
  ASSUME TypeOK, Account, OrderInv, StreamInv, [Next]_vars, RxBurst \/ CapturePacket, ~ferror', Going'
  PROVE  pipeline' = pipeline
<1> USE DEF command, counters, calls, file, device, link, events, memif
<1>0. recorded \in Seq(Frame) /\ burst \in Seq(Frame) /\ ring \in Seq(Frame)
  BY RecordedType
<1>1. CASE RxBurst
  <2>1. /\ burst' = SubSeq(ring, 1, BurstLen) /\ ring' = SubSeq(ring, BurstLen + 1, Len(ring))
        /\ recorded' = recorded /\ pc = "rx_burst"
    BY <1>1 DEF RxBurst, recorded
  <2>2. BurstLen \in 0 .. Len(ring)
    BY <1>0, BurstLenLemma
  <2>3. burst' \in Seq(Frame) /\ ring' \in Seq(Frame) /\ burst' \o ring' = ring
    BY <1>0, <2>1, <2>2, CutLemma, CutConcat
  <2>4. (recorded \o burst') \o ring' = recorded \o ring
    BY <1>0, <2>3, Regroup, Zenon
  <2>5. burst = << >>
    BY <2>1 DEF StreamInv
  <2>6. recorded \o burst = recorded
    BY <1>0, <2>5, ConcatEmptySeq
  <2> QED BY <2>1, <2>4, <2>6 DEF pipeline
<1>2. CASE CapturePacket
  <2>1. burst # << >> /\ ring' = ring
    BY <1>2 DEF CapturePacket
  <2>2. burst' = Tail(burst)
    BY <1>2 DEF CapturePacket, Going
  <2>3. /\ <<NextBuf>> \in Seq(Frame) /\ Tail(burst) \in Seq(Frame)
        /\ <<NextBuf>> \o Tail(burst) = burst
    BY <1>0, <2>1, BurstConcat
  <2>4. recorded' = recorded \o <<NextBuf>>
    BY <1>2, WriteRecords
  <2>5. (recorded \o <<NextBuf>>) \o Tail(burst) = recorded \o burst
    BY <2>1, NextJoinsRecords
  <2> QED BY <2>1, <2>2, <2>4, <2>5 DEF pipeline
<1> QED BY <1>1, <1>2

\* Every step keeps the stream without a gap.
LEMMA StreamNext ==
  ASSUME "rx" \notin Faults
  PROVE  TypeOK /\ Account /\ OrderInv /\ StreamInv /\ [Next]_vars => StreamInv'
<1> SUFFICES ASSUME TypeOK, Account, OrderInv, StreamInv, [Next]_vars PROVE StreamInv'
  OBVIOUS
<1> USE DEF command, counters, calls, file, device, link, events, memif
<1>0. /\ recorded \in Seq(Frame) /\ burst \in Seq(Frame) /\ ring \in Seq(Frame)
      /\ sent \in Nat /\ connects \in Nat
  BY RecordedType DEF TypeOK, MemifTypeOK
<1>a. /\ ferror => ferror'
      /\ Going' => Going
      /\ ~ferror' => Seamless(recorded')
      /\ burst' # << >> => pc' \in {"packet", "killed"}
  BY ErrorStays, GoingStep, RecordsSeamless, BurstPlace
<1>1. CASE RxBurst \/ CapturePacket
  <2>1. UNCHANGED <<conn, connects, sent>>
    BY <1>1 DEF RxBurst, CapturePacket
  <2>2. ~ferror' /\ Going' => pipeline' = pipeline
    BY <1>1, PipelineMoves
  <2> QED BY <1>a, <2>1, <2>2, StreamKept
<1>2. CASE StopOverLimit \/ WriteFails \/ AfterBurstFlushFails \/ Finish \/ Cleanup \/ Kill \/ SetupFails
  <2>1. sent' = sent /\ (conn' = "up" => conn = "up" /\ connects' = connects)
    BY <1>2 DEF StopOverLimit, WriteFails, AfterBurstFlushFails, Finish, Cleanup, Kill, SetupFails
  <2>2. ferror' \/ ~Going'
    BY <1>2 DEF StopOverLimit, WriteFails, Returns, AfterBurstFlushFails, FlushFails, Finish,
       Cleanup, Kill, SetupFails, Going
  <2> QED BY <1>a, <2>1, <2>2, StreamKept
<1>3. CASE RxBurstFails
  BY <1>3 DEF RxBurstFails
<1>4. CASE \/ BurstDone \/ AfterBurst \/ PollCancel \/ PollInterrupt \/ PollFails
           \/ Setup \/ LoopTest \/ EnterPoll \/ AfterPoll
           \/ Signal \/ DeviceFails \/ PeerConnects \/ PeerCloses \/ UNCHANGED vars
  <2>1. /\ burst' = burst /\ ring' = ring /\ sent' = sent
        /\ conn' = "up" => conn = "up" /\ connects' = connects
        /\ ~CapturePacket
        /\ Ended' => Ended
    <3>1. CASE BurstDone \/ AfterBurst \/ PollCancel \/ PollInterrupt \/ PollFails
      BY <3>1 DEF BurstDone, AfterBurst, Returns, PollCancel, PollInterrupt, PollFails,
         CapturePacket, Ended
    <3>2. CASE Setup \/ LoopTest \/ EnterPoll \/ AfterPoll
      BY <3>2 DEF Setup, LoopTest, EnterPoll, AfterPoll, CapturePacket, Ended
    <3>3. CASE Signal \/ DeviceFails \/ PeerConnects \/ PeerCloses \/ UNCHANGED vars
      BY <3>3 DEF Signal, DeviceFails, PeerConnects, PeerCloses, vars, CapturePacket, Ended
    <3> QED BY <1>4, <3>1, <3>2, <3>3
  <2>2. ASSUME ~ferror', Going' PROVE pipeline' = pipeline
    <3>1. ~Ended'
      BY <1>a, <2>1, <2>2 DEF Going, Ended
    <3> QED BY <2>1, <2>2, <3>1, OtherRecords DEF pipeline
  <2> QED BY <1>a, <2>1, <2>2, StreamKept
<1>5. CASE PollConnect
  <2>1. /\ burst' = burst /\ ring' = ring /\ sent' = sent /\ connects' = connects
        /\ conn = "connecting" /\ pc = "poll" /\ pc' = "polled"
        /\ ~CapturePacket
    BY <1>5 DEF PollConnect, Returns, CapturePacket
  <2>2. pipeline' = pipeline
    BY <1>5 DEF pipeline, recorded, PollConnect
  <2>3. ASSUME ~ferror', Going' PROVE Seamless(pipeline') /\ EndsAtSent(pipeline)'
    <3>1. Seamless(pipeline)
      BY <1>a, <2>3 DEF StreamInv
    <3>2. ASSUME pipeline # << >> PROVE pipeline[Len(pipeline)].conn # connects
      <4>1. pipeline[Len(pipeline)] \in FramesOf(recorded) \cup FramesOf(burst) \cup FramesOf(ring)
        BY <3>2, PipelineFrames
      <4> QED BY <1>0, <2>1, <4>1 DEF OrderInv, Known, LastConn
    <3> QED BY <2>1, <2>2, <3>1, <3>2 DEF EndsAtSent
  <2> QED BY <1>a, <2>3, <2>1 DEF StreamInv
<1>6. CASE PollDisconnect
  <2>1. /\ burst' = burst /\ ring' = << >> /\ conn' = "down" /\ recorded' = recorded
    BY <1>6 DEF PollDisconnect, recorded
  <2>2. ASSUME ~ferror', Going' PROVE Seamless(pipeline')
    <3>1. recorded \o burst \in Seq(Frame) /\ pipeline' = (recorded \o burst) \o << >>
      BY <2>1, PipelineType DEF pipeline
    <3>2. Seamless(recorded \o burst) /\ pipeline' = recorded \o burst
      BY <1>a, <2>2, <3>1, RecordsOfPipeline, ConcatEmptySeq DEF StreamInv
    <3> QED BY <3>2, Zenon
  <2> QED BY <1>a, <2>1, <2>2 DEF StreamInv
<1>7. CASE \E len \in Lens : Deliver(len)
  <2> PICK len \in Lens : Deliver(len)
    BY <1>7
  <2> DEFINE f == [id |-> sent + 1, len |-> len, conn |-> connects]
  <2>1. /\ f \in Frame /\ burst' = burst /\ ring' = Append(ring, f) /\ recorded' = recorded
        /\ conn = "up" /\ conn' = "up" /\ connects' = connects /\ sent' = sent + 1
    BY <1>0, CaptureAssumption DEF Deliver, recorded, Frame
  <2>2. pipeline' = Append(pipeline, f)
    <3> HIDE DEF f
    <3>1. \A s, t \in Seq(Frame) : s \o Append(t, f) = Append(s \o t, f)
      <4> TAKE s \in Seq(Frame), t \in Seq(Frame)
      <4>1. /\ Append(t, f) = t \o <<f>> /\ <<f>> \in Seq(Frame)
        BY <2>1, AppendIsConcat
      <4>2. s \o t \in Seq(Frame)
        BY ConcatProperties
      <4>3. Append(s \o t, f) = (s \o t) \o <<f>>
        BY <2>1, <4>2, AppendIsConcat
      <4>4. (s \o t) \o <<f>> = s \o (t \o <<f>>)
        BY <4>1, Regroup
      <4>5. s \o Append(t, f) = s \o (t \o <<f>>)
        BY <4>1, Zenon
      <4> QED BY <4>3, <4>4, <4>5, Zenon
    <3>2. (recorded \o burst) \o Append(ring, f) = Append((recorded \o burst) \o ring, f)
      BY <1>0, <3>1, PipelineType
    <3> QED BY <2>1, <3>2, Zenon DEF pipeline
  <2>3. ASSUME ~ferror', Going' PROVE Seamless(pipeline') /\ EndsAtSent(pipeline)'
    <3>1. Seamless(pipeline) /\ EndsAtSent(pipeline)
      BY <1>a, <2>1, <2>3 DEF StreamInv
    <3>2. /\ pipeline # << >> /\ pipeline[Len(pipeline)].conn = f.conn
             => f.id = pipeline[Len(pipeline)].id + 1
          /\ f.conn = connects' /\ f.id = sent'
      BY <2>1, <3>1 DEF EndsAtSent
    <3> HIDE DEF f
    <3>3. Seamless(Append(pipeline, f))
      BY <2>1, <3>1, <3>2, PipelineType, SeamlessAppend
    <3>4. Append(pipeline, f)[Len(Append(pipeline, f))] = f
      BY <2>1, PipelineType, AppendProperties
    <3> QED BY <2>2, <3>2, <3>3, <3>4 DEF EndsAtSent
  <2> QED BY <1>a, <2>1, <2>3 DEF StreamInv
<1> QED BY <1>1, <1>2, <1>3, <1>4, <1>5, <1>6, <1>7
        DEF Next, Beastie, Callback, Poll, Main, Environment, Terminated

\* At the start nothing has been sent.
LEMMA StreamInit == Init => StreamInv
<1> SUFFICES ASSUME Init PROVE StreamInv
  OBVIOUS
<1>1. /\ << >> \in Seq(Frame) /\ << >> \o << >> = << >> /\ Len(<< >>) = 0
  BY EmptySeq, ConcatEmptySeq
<1>2. recorded = << >> /\ burst = << >> /\ ring = << >>
  BY <1>1, EmptyLemma DEF Init, recorded
<1>3. pipeline = << >>
  BY <1>1, <1>2 DEF pipeline
<1>4. Seamless(<< >>)
  BY <1>1 DEF Seamless
<1> QED BY <1>2, <1>3, <1>4 DEF Init, StreamInv

\* While writes succeed no frame is passed over: what the file holds of one
\* connection is a run of neighbouring frames, for every size of ring, burst
\* and buffer, every limit, and all failures but one: a receive call that
\* fails after it took buffers from the ring loses them, in the code as here.
THEOREM NothingSkipped ==
  ASSUME "rx" \notin Faults
  PROVE  Spec => []NoSkip
<1>1. TypeOK /\ Account /\ OrderInv /\ StreamInv /\ [Next]_vars => StreamInv'
  BY StreamNext
<1>2. StreamInv => NoSkip
  BY DEF StreamInv, Seamless, NoSkip
<1> QED BY <1>1, <1>2, OrderCorrect, StreamInit, PTL DEF Spec
=============================================================================
