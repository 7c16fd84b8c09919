------------------------------ MODULE Capture ------------------------------
(***************************************************************************)
(* One run of beastie_run_capture (beastie/commands/capture_cmd.c) with    *)
(* the PCAP writer it drives (beastie/pcap_writer.c), the libmemif         *)
(* connection to VPP it polls, the frames VPP puts in the receive ring,    *)
(* the SIGINT/SIGTERM handler, and the file behind stdio.                  *)
(*                                                                         *)
(* beastie is one thread.  What interleaves with it: the signal handler,   *)
(* VPP filling the ring through shared memory, the peer going away and     *)
(* coming back, the device of the file failing, and the process being      *)
(* killed.  on_interrupt is split at memif_rx_burst and at every packet,   *)
(* so that each of those may fall between two packets.                     *)
(***************************************************************************)
EXTENDS Integers, Sequences

CONSTANTS
  MaxLen,          \* longest buffer memif_rx_burst can hand over
  Lens,            \* the buffer lengths VPP produces
  MaxBytesChoices, \* values of --max-bytes; 0 means no limit
  FlushInterval,   \* PCAP_FLUSH_INTERVAL_BYTES
  MaxBufs,         \* MAX_MEMIF_BUFS
  RingSize,        \* slots of the receive ring
  MaxFrames,       \* bound: frames VPP sends in a behaviour
  MaxConnects,     \* bound: connections the peer makes in a behaviour
  Faults           \* the failures the environment may produce

FaultKinds == {"setup", "poll", "rx", "refill", "open", "device"}

ASSUME CaptureAssumption ==
  /\ MaxLen \in Nat
  /\ Lens \subseteq 0 .. MaxLen
  /\ MaxBytesChoices \subseteq Nat
  /\ FlushInterval \in Nat \ {0}
  /\ MaxBufs \in Nat \ {0}
  /\ RingSize \in Nat \ {0}
  /\ MaxFrames \in Nat
  /\ MaxConnects \in Nat
  /\ Faults \subseteq FaultKinds

VARIABLES
  pc,                     \* where beastie_run_capture stands
  keep_running,           \* state.keep_running
  max_bytes,              \* state.max_bytes_to_capture
  packets_captured,       \* state.packets_captured
  bytes_captured,         \* state.bytes_captured
  bytes_since_last_flush, \* state.bytes_since_last_flush
  err,                    \* what memif_poll_event returned
  rc,                     \* exit status
  rx, burst,              \* on_interrupt: rx, and the bufs not yet looked at
  initialized,            \* pcap_writer.c: the dumper is open
  buf,                    \* records in the stdio buffer of the dumper
  disk,                   \* records of this run that are in the file
  ferror,                 \* stdio's error flag: a write to the file has failed
  device_ok,              \* writes to the file's device succeed
  write_failed,           \* history: write_pcap_packet returned -1
  conn,                   \* the memif connection, as beastie's end sees it
  connects,               \* connections made so far
  sent,                   \* frames VPP has put in the ring so far
  ring,                   \* frames in the ring, not yet received
  free,                   \* slots VPP may still fill
  intr,                   \* the ring's interrupt event is signalled
  cancel                  \* the poll-cancel event is signalled

command  == <<max_bytes, rc>>
calls    == <<err, rx, burst>>
counters == <<packets_captured, bytes_captured, bytes_since_last_flush>>
file     == <<initialized, buf, disk, ferror>>
device   == <<device_ok, write_failed>>
link     == <<conn, connects, sent>>
events   == <<intr, cancel>>
memif    == <<link, ring, free, events>>
vars     == <<pc, keep_running, command, counters, calls, file, device, memif>>

\* A received buffer: its number in sending order, length, and connection.
Frame == [id : Nat, len : 0 .. MaxLen, conn : Nat]

\* A stretch of the PCAP file: its records and the packet bytes in them.
Records == [pkts : Seq(Frame), bytes : Nat]
Empty   == [pkts |-> << >>, bytes |-> 0]
Join(f, g) == [pkts |-> f.pkts \o g.pkts, bytes |-> f.bytes + g.bytes]
AddRecord(f, p) == [pkts |-> Append(f.pkts, p), bytes |-> f.bytes + p.len]

PCs == {"setup", "while", "enter", "poll", "rx_burst", "packet", "after_burst",
        "polled", "finish", "cleanup", "exited", "killed"}

Ended == pc \in {"exited", "killed"}

-----------------------------------------------------------------------------
(* beastie_capture_state_init; the file on disk is not touched.            *)
Init ==
  /\ pc = "setup"
  /\ keep_running = TRUE
  /\ max_bytes \in MaxBytesChoices
  /\ packets_captured = 0 /\ bytes_captured = 0 /\ bytes_since_last_flush = 0
  /\ err = "success" /\ rc = 1
  /\ rx = 0 /\ burst = << >>
  /\ initialized = FALSE /\ buf = Empty /\ disk = Empty /\ ferror = FALSE
  /\ device_ok = TRUE /\ write_failed = FALSE
  /\ conn = "down" /\ connects = 0 /\ sent = 0
  /\ ring = << >> /\ free = 0 /\ intr = FALSE /\ cancel = FALSE

-----------------------------------------------------------------------------
(* Leaving memif_poll_event with r.  Whether libmemif hands a callback's   *)
(* error on to its caller is not visible from this code: both can happen.  *)
Returns(r) ==
  /\ pc' = "polled"
  /\ err' \in {r, "success"}

-----------------------------------------------------------------------------
(* pcap_writer.c                                                           *)

\* flush_pcap_writer succeeds: nothing is buffered, or the device takes it.
FlushSucceeds == buf = Empty \/ device_ok

\* The effect of pcap_dump_flush.  stdio empties its buffer also when the
\* write fails; only the return value and the error flag tell.
FlushOk    == FlushSucceeds /\ disk' = Join(disk, buf) /\ buf' = Empty /\ ferror' = ferror
FlushFails == ~FlushSucceeds /\ disk' = disk /\ buf' = Empty /\ ferror' = TRUE

\* Seeded fault: initialized is never set, so that every packet reopens.
OpenedDiskAlways == Empty

\* write_pcap_packet up to the dump: the first packet opens the dumper, and
\* pcap_dump_open truncates the file it names.
OpenedDisk == IF initialized THEN disk ELSE Empty

\* write_pcap_packet returns 0: pcap_dump has no result.  The record joins
\* stdio's buffer; a full buffer is written out first, and lost with the
\* record if that fails.  Some libpcap versions stop writing after an error.
WritePacket(p) ==
  /\ initialized' = TRUE
  /\ \/ disk' = OpenedDisk /\ buf' = AddRecord(buf, p) /\ ferror' = ferror
     \/ device_ok /\ disk' = Join(OpenedDisk, buf) /\ buf' = AddRecord(Empty, p) /\ ferror' = ferror
     \/ ~FlushSucceeds /\ disk' = disk /\ buf' = Empty /\ ferror' = TRUE
     \/ ferror /\ UNCHANGED <<disk, buf, ferror>>

-----------------------------------------------------------------------------
(* on_interrupt, from memif_rx_burst on                                    *)

\* Seeded fault: a full burst asks for one buffer too few.
BurstLenShort == IF Len(ring) < MaxBufs THEN Len(ring) ELSE MaxBufs - 1

\* What one memif_rx_burst can take from the ring.
BurstLen == IF Len(ring) < MaxBufs THEN Len(ring) ELSE MaxBufs

RxBurst ==
  /\ pc = "rx_burst"
  /\ rx' = BurstLen
  /\ burst' = SubSeq(ring, 1, BurstLen)
  /\ ring' = SubSeq(ring, BurstLen + 1, Len(ring))
  /\ pc' = "packet"
  /\ UNCHANGED <<keep_running, command, counters, err, file, device, link, free, events>>

\* memif_rx_burst reports an error.  Buffers it had taken by then are neither
\* written nor refilled.
RxBurstFails ==
  /\ pc = "rx_burst" /\ "rx" \in Faults
  /\ \E n \in 0 .. BurstLen : ring' = SubSeq(ring, n + 1, Len(ring))
  /\ Returns("error")
  /\ UNCHANGED <<keep_running, command, counters, rx, burst, file, device, link, free, events>>

\* Seeded fault: bufs[rx - 1] instead of bufs[i].
NextBufLast == burst[Len(burst)]

\* bufs[i], the next buffer of the burst.
NextBuf == Head(burst)

\* Seeded fault: the packet's own length is left out.
OverLimitTotal(p) == max_bytes > 0 /\ bytes_captured > max_bytes

\* The packet would carry the capture past the limit.
OverLimit(p) == max_bytes > 0 /\ bytes_captured + p.len > max_bytes

\* Seeded fault: > for >=.
LimitPassed(n) == max_bytes > 0 /\ n > max_bytes

\* The capture, now n bytes long, has reached the limit.
LimitReached(n) == max_bytes > 0 /\ n >= max_bytes

\* Seeded fault: break without keep_running = 0.
StopOverLimitKeepsRunning ==
  /\ pc = "packet" /\ burst # << >>
  /\ OverLimit(NextBuf)
  /\ burst' = << >>
  /\ pc' = "after_burst"
  /\ UNCHANGED <<keep_running, command, counters, err, rx, file, device, memif>>

\* break on a packet that does not fit: it and the rest of the burst are dropped.
StopOverLimit ==
  /\ pc = "packet" /\ burst # << >>
  /\ OverLimit(NextBuf)
  /\ keep_running' = FALSE
  /\ burst' = << >>
  /\ pc' = "after_burst"
  /\ UNCHANGED <<command, counters, err, rx, file, device, memif>>

\* write_pcap_packet returns -1: the dumper cannot be opened.
WriteFails ==
  /\ pc = "packet" /\ burst # << >>
  /\ ~OverLimit(NextBuf)
  /\ ~initialized /\ "open" \in Faults
  /\ keep_running' = FALSE
  /\ burst' = << >>
  /\ write_failed' = TRUE
  /\ Returns("error")
  /\ UNCHANGED <<command, counters, rx, file, device_ok, memif>>

CapturePacket ==
  /\ pc = "packet" /\ burst # << >>
  /\ LET p == NextBuf
         stop == LimitReached(bytes_captured + p.len)
     IN /\ ~OverLimit(p)
        /\ WritePacket(p)
        /\ packets_captured' = packets_captured + 1
        /\ bytes_captured' = bytes_captured + p.len
        /\ bytes_since_last_flush' = bytes_since_last_flush + p.len
        /\ keep_running' = (keep_running /\ ~stop)
        /\ burst' = IF stop THEN << >> ELSE Tail(burst)
        /\ pc' = IF stop THEN "after_burst" ELSE "packet"
  /\ UNCHANGED <<command, err, rx, device, memif>>

BurstDone ==
  /\ pc = "packet" /\ burst = << >>
  /\ pc' = "after_burst"
  /\ UNCHANGED <<keep_running, command, counters, calls, file, device, memif>>

\* Seeded fault: > for >=.
FlushOverdue == bytes_since_last_flush > FlushInterval

\* The periodic flush is due.
FlushDue == bytes_since_last_flush >= FlushInterval

\* Seeded faults: the whole array is refilled; nothing is.
RefilledAll == free + MaxBufs
RefilledNone == free

\* memif_refill_queue hands the rx slots of this burst back to VPP.
Refilled == free + rx

\* After the loop: flush if due, then hand the rx buffers back to VPP.
AfterBurst ==
  /\ pc = "after_burst"
  /\ IF FlushDue
       THEN FlushOk /\ bytes_since_last_flush' = 0
       ELSE UNCHANGED <<buf, disk, ferror, bytes_since_last_flush>>
  /\ \/ /\ free' = Refilled
        /\ pc' = "polled" /\ err' = "success"
     \/ /\ rx > 0 /\ "refill" \in Faults
        /\ free' = free
        /\ Returns("error")
  /\ UNCHANGED <<keep_running, command, packets_captured, bytes_captured, rx, burst,
                  initialized, device, link, ring, events>>

AfterBurstFlushFails ==
  /\ pc = "after_burst"
  /\ FlushDue /\ FlushFails
  /\ keep_running' = FALSE
  /\ Returns("error")
  /\ UNCHANGED <<command, counters, rx, burst, initialized, device, memif>>

-----------------------------------------------------------------------------
(* beastie_run_capture                                                     *)

Setup ==
  /\ pc = "setup"
  /\ pc' = "while"
  /\ UNCHANGED <<keep_running, command, counters, calls, file, device, memif>>

\* memif_create_socket or memif_create fails: goto cleanup with rc = 1.
SetupFails ==
  /\ pc = "setup" /\ "setup" \in Faults
  /\ pc' = "cleanup"
  /\ UNCHANGED <<keep_running, command, counters, calls, file, device, memif>>

LoopTest ==
  /\ pc = "while"
  /\ pc' = IF keep_running THEN "enter" ELSE "finish"
  /\ UNCHANGED <<keep_running, command, counters, calls, file, device, memif>>

\* The call memif_poll_event(socket, -1) reaches epoll: from here on a signal
\* interrupts it, before it does not.
EnterPoll ==
  /\ pc = "enter"
  /\ pc' = "poll"
  /\ UNCHANGED <<keep_running, command, counters, calls, file, device, memif>>

\* The handshake completes: on_connect gives every slot to VPP.
PollConnect ==
  /\ pc = "poll" /\ conn = "connecting"
  /\ conn' = "up"
  /\ \/ free' = RingSize /\ pc' = "polled" /\ err' = "success"
     \/ "refill" \in Faults /\ free' = 0 /\ Returns("error")
  /\ UNCHANGED <<keep_running, command, counters, rx, burst, file, device, connects, sent,
                  ring, events>>

\* The peer is gone: libmemif drops the ring and calls on_disconnect, which
\* cancels the next poll.
PollDisconnect ==
  /\ pc = "poll" /\ conn = "closing"
  /\ conn' = "down" /\ ring' = << >> /\ free' = 0 /\ intr' = FALSE
  /\ cancel' = TRUE
  /\ pc' = "polled" /\ err' = "success"
  /\ UNCHANGED <<keep_running, command, counters, rx, burst, file, device, connects, sent>>

PollCancel ==
  /\ pc = "poll" /\ cancel
  /\ cancel' = FALSE
  /\ pc' = "polled" /\ err' = "cancel"
  /\ UNCHANGED <<keep_running, command, counters, rx, burst, file, device, link, ring,
                  free, intr>>

\* The interrupt event is read and on_interrupt entered.
PollInterrupt ==
  /\ pc = "poll" /\ intr
  /\ intr' = FALSE
  /\ pc' = "rx_burst"
  /\ UNCHANGED <<keep_running, command, counters, calls, file, device, link, ring, free,
                  cancel>>

\* epoll returns an error though beastie was not told to stop, for example
\* EINTR after the process was suspended and continued.
PollFails ==
  /\ pc = "poll" /\ "poll" \in Faults
  /\ pc' = "polled" /\ err' = "error"
  /\ UNCHANGED <<keep_running, command, counters, rx, burst, file, device, memif>>

\* Seeded fault: an interrupted poll is retried before keep_running is read.
AfterPollRetries ==
  /\ pc = "polled"
  /\ pc' = IF err = "error" THEN "enter" ELSE "while"
  /\ UNCHANGED <<keep_running, command, counters, calls, file, device, memif>>

AfterPoll ==
  /\ pc = "polled"
  /\ pc' = IF ~keep_running THEN "finish"
           ELSE IF err = "error" THEN "cleanup" ELSE "while"
  /\ UNCHANGED <<keep_running, command, counters, calls, file, device, memif>>

\* Seeded fault: the last flush is left to close_pcap_writer.
FinishWithoutFlush ==
  /\ pc = "finish"
  /\ rc' = 0
  /\ pc' = "cleanup"
  /\ UNCHANGED <<keep_running, max_bytes, counters, calls, file, device, memif>>

\* rc = 0 unless the last flush fails.
Finish ==
  /\ pc = "finish"
  /\ \/ FlushOk /\ rc' = 0
     \/ FlushFails /\ rc' = 1
  /\ pc' = "cleanup"
  /\ UNCHANGED <<keep_running, max_bytes, counters, calls, initialized, device, memif>>

\* close_pcap_writer, memif_delete, memif_delete_socket.  Nobody looks at the
\* result of this flush, and the stream with its error flag is gone after it.
Cleanup ==
  /\ pc = "cleanup"
  /\ disk' = IF FlushSucceeds THEN Join(disk, buf) ELSE disk
  /\ buf' = Empty
  /\ initialized' = FALSE
  /\ conn' = "down" /\ ring' = << >> /\ free' = 0 /\ intr' = FALSE /\ cancel' = FALSE
  /\ pc' = "exited"
  /\ UNCHANGED <<keep_running, command, counters, calls, ferror, device, connects, sent>>

-----------------------------------------------------------------------------
(* The environment                                                         *)

\* handle_signal, between signal() and active_capture_state = NULL.  epoll is
\* interrupted only if it is being waited in.
Signal ==
  /\ pc \notin {"exited", "killed"}
  /\ keep_running' = FALSE
  /\ IF pc = "poll" THEN pc' = "polled" /\ err' = "error" ELSE UNCHANGED <<pc, err>>
  /\ UNCHANGED <<command, counters, rx, burst, file, device, memif>>

\* SIGKILL: what stdio holds is lost, what it has given to the kernel is not.
Kill ==
  /\ ~Ended
  /\ pc' = "killed"
  /\ buf' = Empty /\ initialized' = FALSE
  /\ conn' = "down" /\ ring' = << >> /\ free' = 0 /\ intr' = FALSE /\ cancel' = FALSE
  /\ UNCHANGED <<keep_running, command, counters, calls, disk, ferror, device, connects, sent>>

\* The device fills up or fails, and stays so.
DeviceFails ==
  /\ "device" \in Faults /\ device_ok /\ ~Ended
  /\ device_ok' = FALSE
  /\ UNCHANGED <<pc, keep_running, command, counters, calls, file, write_failed, memif>>

\* VPP accepts the connection (again).
PeerConnects ==
  /\ conn = "down" /\ connects < MaxConnects
  /\ pc \notin {"setup", "cleanup", "exited", "killed"}
  /\ conn' = "connecting"
  /\ connects' = connects + 1
  /\ UNCHANGED <<pc, keep_running, command, counters, calls, file, device, sent, ring,
                  free, events>>

\* VPP restarts, or the memif is deleted.
PeerCloses ==
  /\ conn = "up"
  /\ conn' = "closing"
  /\ UNCHANGED <<pc, keep_running, command, counters, calls, file, device, connects, sent,
                  ring, free, events>>

\* VPP mirrors a frame into a free slot and signals the interrupt.
Deliver(len) ==
  /\ conn = "up" /\ free > 0 /\ sent < MaxFrames
  /\ sent' = sent + 1
  /\ ring' = Append(ring, [id |-> sent + 1, len |-> len, conn |-> connects])
  /\ free' = free - 1
  /\ intr' = TRUE
  /\ UNCHANGED <<pc, keep_running, command, counters, calls, file, device, conn, connects,
                  cancel>>

-----------------------------------------------------------------------------
Callback == \/ RxBurst \/ RxBurstFails \/ StopOverLimit \/ WriteFails
            \/ CapturePacket \/ BurstDone \/ AfterBurst \/ AfterBurstFlushFails

Poll == PollConnect \/ PollDisconnect \/ PollCancel \/ PollInterrupt

Main == Setup \/ SetupFails \/ LoopTest \/ EnterPoll \/ AfterPoll \/ Finish \/ Cleanup

Beastie == Callback \/ Poll \/ Main

Environment == \/ Signal \/ Kill \/ DeviceFails \/ PollFails
               \/ PeerConnects \/ PeerCloses
               \/ \E len \in Lens : Deliver(len)

\* The process is gone; nothing is left to happen.
Terminated == Ended /\ UNCHANGED vars

Next == Beastie \/ Environment \/ Terminated

Spec == Init /\ [][Next]_vars

(* The kernel schedules beastie and epoll reports events that are ready.   *)
(* Nobody has to send a signal, a frame or a connection.                   *)
FairSpec == Spec /\ WF_vars(Beastie)

(* An operator who presses Ctrl+C again while beastie keeps waiting.       *)
RepeatsSignal == WF_vars(pc = "poll" /\ Signal)

-----------------------------------------------------------------------------
(* Properties                                                              *)

CommandTypeOK ==
  /\ pc \in PCs /\ keep_running \in BOOLEAN
  /\ max_bytes \in Nat
  /\ packets_captured \in Nat /\ bytes_captured \in Nat
  /\ bytes_since_last_flush \in Nat
  /\ err \in {"success", "cancel", "error"} /\ rc \in {0, 1}
  /\ rx \in 0 .. MaxBufs /\ burst \in Seq(Frame)

FileTypeOK ==
  /\ initialized \in BOOLEAN /\ buf \in Records /\ disk \in Records
  /\ ferror \in BOOLEAN /\ device_ok \in BOOLEAN /\ write_failed \in BOOLEAN

MemifTypeOK ==
  /\ conn \in {"down", "connecting", "up", "closing"}
  /\ connects \in 0 .. MaxConnects /\ sent \in 0 .. MaxFrames
  /\ ring \in Seq(Frame) /\ free \in 0 .. RingSize
  /\ intr \in BOOLEAN /\ cancel \in BOOLEAN

\* Every variable has its type; in particular the slots VPP may fill stay in
\* 0..RingSize, whatever on_connect and on_interrupt hand back.
TypeOK == CommandTypeOK /\ FileTypeOK /\ MemifTypeOK

\* All records of this run, written to the device or not, in file order.
recorded == disk.pkts \o buf.pkts

\* --max-bytes bounds the packet bytes of the file, buffered ones included,
\* in every state of on_interrupt's loop.
FileWithinLimit == max_bytes > 0 => disk.bytes + buf.bytes <= max_bytes

\* The file keeps arrival order and no frame is in it twice, across bursts,
\* reconnections and failed callbacks.
FileInOrder ==
  \A i, j \in 1 .. Len(recorded) : i < j => recorded[i].id < recorded[j].id

\* While one connection lasts and writes succeed no frame is passed over: two
\* neighbouring records of a connection are neighbouring frames.  A limit that
\* drops the rest of a burst must therefore also end the capture.
NoSkip ==
  ~ferror => \A i \in 1 .. Len(recorded) - 1 :
    recorded[i].conn = recorded[i + 1].conn => recorded[i + 1].id = recorded[i].id + 1

\* Between callbacks of a live connection every slot is either VPP's to fill
\* or holds a frame: on_interrupt refills as many slots as it received, also
\* when the limit cut the burst short.
SlotsReturned ==
  (/\ conn \in {"up", "closing"} /\ ~ferror /\ ~write_failed
   /\ pc \notin {"packet", "after_burst"})
    => free + Len(ring) = RingSize

\* Every packet and byte the summary counts is in the file.
AllWritten == Len(disk.pkts) = packets_captured /\ disk.bytes = bytes_captured

\* Exit status 0 vouches for the summary unless a write had failed before the
\* last flush: stdio may still hold records when the loop ends, and the last
\* flush either puts them in the file or changes the exit status.
ExitZeroComplete == pc = "exited" /\ rc = 0 /\ ~ferror => AllWritten

\* What a kill can lose at any instant while writes succeed: less than one
\* flush interval plus one full burst.  Flushing is no fsync: a power loss can
\* take more.
CrashLossBounded ==
  ~ferror => bytes_captured - disk.bytes <= FlushInterval - 1 + MaxBufs * MaxLen

\* What reached the device in this run is never overwritten or dropped.
DurableGrows ==
  [][/\ Len(disk.pkts) <= Len(disk'.pkts)
     /\ SubSeq(disk'.pkts, 1, Len(disk.pkts)) = disk.pkts]_disk

\* A capture that reaches --max-bytes ends, also if no further frame arrives.
LimitStops == (max_bytes > 0 /\ bytes_captured >= max_bytes) ~> Ended

\* No frame is left behind in the ring of a live connection: one interrupt is
\* enough to empty it.
RingDrained == (conn = "up" /\ ring # << >>) ~> (ring = << >> \/ conn # "up" \/ Ended)

\* A stop request ends beastie (README: Ctrl+C starts the shutdown process).
\* One signal may be lost between the test of keep_running and the wait in
\* memif_poll_event.
SignalStops == ~keep_running ~> Ended

\* It ends beastie from every state, with frames left and calls failing, if the
\* operator repeats the signal while beastie waits.
RepeatedSignalStops == RepeatsSignal => SignalStops

\* Usage text of -w: captured packets are written to the file.  An exit with
\* status 0 says that no packet write failed.
ExitZeroMeansWritten == pc = "exited" /\ rc = 0 => ~write_failed

\* README: the PCAP file is closed cleanly and the summary shows the captured
\* bytes and packets.  With exit status 0 the file holds what the summary says.
SummaryMatchesFile == pc = "exited" /\ rc = 0 => AllWritten
=============================================================================
