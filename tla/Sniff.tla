---------------------------------- MODULE Sniff ----------------------------------
(***************************************************************************)
(* sniff.c: packets are taken from a CaptureSocket, printed, appended to a *)
(* PCAP file through stdio and counted, until the limit is reached or a    *)
(* signal comes.  A record of the file is a record header and the packet,  *)
(* written by two fwrite calls and pushed out by fflush; the disk may be   *)
(* full, and no result of a write is looked at.                            *)
(***************************************************************************)
EXTENDS CaptureSocket, Sequences

CONSTANTS
  Limits,       \* values of -c
  DiskFills     \* whether the disk may be full at times

ASSUME SniffAssumption == Limits \subseteq Nat /\ DiskFills \in BOOLEAN

VARIABLES
  pc, keep_running,
  max_packets,       \* -c; never changed
  packets_captured,
  buf,               \* the packet in hand
  fp,                \* the PCAP file: "none" or "open"
  stdio, disk,       \* what the stream's buffer holds, and the file
  disk_full,
  captured,          \* history: the packets counted
  safe,              \* history: those counted before bytes were refused
  write_failed       \* history: bytes of the file were refused

file    == <<stdio, disk, write_failed>>
vars    == <<sockvars, pc, keep_running, max_packets, packets_captured, buf, fp, file,
             disk_full, captured, safe>>

FileHeader      == <<"file header", 0>>
RecordHeader(p) == <<"record header", p>>
PacketBytes(p)  == <<"packet", p>>

Init ==
  /\ SocketInit
  /\ pc = "setup" /\ keep_running = TRUE
  /\ max_packets \in Limits
  /\ packets_captured = 0 /\ buf = 0
  /\ fp = "none" /\ stdio = <<>> /\ disk = <<>> /\ disk_full = FALSE
  /\ captured = <<>> /\ safe = <<>> /\ write_failed = FALSE

-------------------------------------------------------------------------------
(* stdio writes the first k pieces of what is to be written.  A write that *)
(* fails may have stored a part; the C libraries differ in whether they    *)
(* keep the rest to try again.                                             *)
WriteOut(pieces, k) ==
  /\ disk' = disk \o SubSeq(pieces, 1, k)
  /\ LET rest == SubSeq(pieces, k + 1, Len(pieces))
     IN  IF disk_full
         THEN write_failed' = TRUE /\ stdio' \in {rest, <<>>}
         ELSE stdio' = rest /\ UNCHANGED write_failed

(* fwrite: into the stream's buffer; if that runs over, some are written. *)
Fwrite(piece) ==
  LET pieces == Append(stdio, piece)
  IN  \/ stdio' = pieces /\ UNCHANGED <<disk, write_failed>>
      \/ \E k \in 1 .. Len(pieces) : ~disk_full /\ WriteOut(pieces, k)
      \/ \E k \in 0 .. Len(pieces) - 1 : disk_full /\ WriteOut(pieces, k)

BugFflush == UNCHANGED file
Fflush ==
  \/ stdio = <<>> /\ UNCHANGED file
  \/ ~disk_full /\ WriteOut(stdio, Len(stdio))
  \/ disk_full /\ \E k \in 0 .. Len(stdio) - 1 : WriteOut(stdio, k)

(* sniff_run up to its loop. *)
OpenSocket ==
  /\ pc = "setup" /\ OpenRawSocket
  /\ UNCHANGED <<pc, keep_running, max_packets, packets_captured, buf, fp, file,
                 disk_full, captured, safe>>

(* With -w or without; fopen may fail, which sniff_run only warns of. *)
OpenFile ==
  /\ pc = "setup"
  /\ \/ stage = "failed" /\ pc' = "die" /\ UNCHANGED <<fp, stdio>>
     \/ stage = "open" /\ pc' = "head" /\ UNCHANGED <<fp, stdio>>
     \/ stage = "open" /\ pc' = "head" /\ fp' = "open" /\ stdio' = <<FileHeader>>
  /\ UNCHANGED <<sockvars, keep_running, max_packets, packets_captured, buf, disk,
                 write_failed, disk_full, captured, safe>>

BugLimitReached == max_packets > 0 /\ packets_captured > max_packets
LimitReached    == max_packets > 0 /\ packets_captured >= max_packets

HeadLeaves ==
  /\ pc = "head" /\ (~keep_running \/ LimitReached)
  /\ pc' = "done"
  /\ IF fp = "open" THEN Fflush ELSE UNCHANGED file
  /\ CloseRawSocket
  /\ UNCHANGED <<keep_running, max_packets, packets_captured, buf, fp,
                 disk_full, captured, safe>>

Goto(from, to) ==
  /\ pc = from /\ pc' = to
  /\ UNCHANGED <<keep_running, max_packets, packets_captured, fp, disk_full, captured, safe>>

HeadPolls ==
  /\ keep_running /\ ~LimitReached
  /\ Goto("head", "poll") /\ UNCHANGED <<sockvars, buf, file>>

BugPollReturns == Readable /\ Goto("poll", "head") /\ UNCHANGED <<sockvars, buf, file>>
PollReturns    == Readable /\ Goto("poll", "recv") /\ UNCHANGED <<sockvars, buf, file>>

(* After 100 ms. *)
BugPollTimesOut == FALSE
PollTimesOut == ~Readable /\ Goto("poll", "head") /\ UNCHANGED <<sockvars, buf, file>>

Recv ==
  \/ \E p \in 1 .. received :
       /\ RecvPacket(p)
       /\ buf' = p
       /\ Goto("recv", IF fp = "open" THEN "record header" ELSE "count")
       /\ UNCHANGED file
  \/ RecvNothing /\ Goto("recv", "head") /\ UNCHANGED <<buf, file>>

(* write_pcap_packet. *)
WriteRecordHeader ==
  Goto("record header", "packet") /\ Fwrite(RecordHeader(buf)) /\ UNCHANGED <<sockvars, buf>>
WritePacket ==
  Goto("packet", "flush") /\ Fwrite(PacketBytes(buf)) /\ UNCHANGED <<sockvars, buf>>
Flush ==
  Goto("flush", "count") /\ Fflush /\ UNCHANGED <<sockvars, buf>>

CountPacket ==
  /\ pc = "count" /\ pc' = "head"
  /\ packets_captured' = packets_captured + 1
  /\ captured' = Append(captured, buf)
  /\ safe' = IF write_failed THEN safe ELSE Append(safe, buf)
  /\ UNCHANGED <<sockvars, keep_running, max_packets, buf, fp, file, disk_full>>

Process == OpenSocket \/ OpenFile \/ HeadLeaves \/ HeadPolls \/ PollReturns \/ PollTimesOut \/ Recv
           \/ WriteRecordHeader \/ WritePacket \/ Flush \/ CountPacket

-------------------------------------------------------------------------------
Ended == pc \in {"done", "die"}

(* A signal that comes when poll() is running wakes it, one that comes     *)
(* just before does not.                                                   *)
HandleSigint ==
  /\ ~Ended /\ keep_running
  /\ keep_running' = FALSE
  /\ pc' \in {pc} \cup IF pc = "poll" THEN {"head"} ELSE {}
  /\ UNCHANGED <<sockvars, max_packets, packets_captured, buf, fp, file, disk_full,
                 captured, safe>>

Network ==
  /\ Arrive \/ InterfaceDown
  /\ UNCHANGED <<pc, keep_running, max_packets, packets_captured, buf, fp, file, disk_full,
                 captured, safe>>

DiskFillsOrEmpties ==
  /\ DiskFills /\ ~Ended
  /\ disk_full' = ~disk_full
  /\ UNCHANGED <<sockvars, pc, keep_running, max_packets, packets_captured, buf, fp, file,
                 captured, safe>>

Terminated == Ended /\ UNCHANGED vars

Next == Process \/ HandleSigint \/ Network \/ DiskFillsOrEmpties \/ Terminated

Spec     == Init /\ [][Next]_vars
FairSpec == Spec /\ WF_vars(Process)

-------------------------------------------------------------------------------
Piece == {FileHeader} \cup {RecordHeader(p) : p \in 0 .. MaxPackets}
                      \cup {PacketBytes(p) : p \in 0 .. MaxPackets}

(* Every variable has its type. *)
TypeOK ==
  /\ SocketTypeOK
  /\ pc \in {"setup", "head", "poll", "recv", "record header", "packet", "flush", "count",
             "done", "die"}
  /\ keep_running \in BOOLEAN /\ max_packets \in Limits
  /\ packets_captured \in Nat /\ buf \in 0 .. received
  /\ fp \in {"none", "open"} /\ disk_full \in BOOLEAN /\ write_failed \in BOOLEAN
  /\ stdio \in Seq(Piece) /\ disk \in Seq(Piece)
  /\ captured \in Seq(1 .. received) /\ safe \in Seq(1 .. received)

InHand == IF pc \in {"record header", "packet", "flush", "count"} THEN 1 ELSE 0

(* Between the kernel's queue and the count no packet is lost, doubled or  *)
(* overtaken: those captured are the first ones received, the next is in   *)
(* hand or in the BPF buffer.                                              *)
NothingLostInside ==
  /\ packets_captured = Len(captured)
  /\ \A i \in 1 .. Len(captured) : captured[i] = i
  /\ Len(captured) + InHand + InBuffer = fetched
  /\ InHand = 1 => buf = Len(captured) + 1

(* A socket that cannot be opened leaves nothing acquired, whichever step  *)
(* failed; the loop has all it needs; and after it all is released.        *)
SocketReleased ==
  /\ Ended => held = {}
  /\ pc \notin {"setup", "done", "die"} =>
       held = {"fd", "sock"} \cup IF platform = "bsd" THEN {"bpf_buf"} ELSE {}

(* Packets of other interfaces, received between socket() and bind(), are  *)
(* captured at the very beginning only and are no more than the kernel     *)
(* queues; on BSD there are none.                                          *)
OtherInterfacesBounded ==
  \A i \in 1 .. Len(captured) :
    captured[i] <= unbound => platform = "linux" /\ i <= KernelLen

(* What a reader of the file takes for its records.  It goes by lengths    *)
(* alone: where a write was refused, it takes the next record for the      *)
(* packet that is missing, and does not see that.                          *)
RecordCount(f) == IF Len(f) = 0 THEN 0 ELSE (Len(f) - 1) \div 2
RecordsIn(f)   == [i \in 1 .. RecordCount(f) |-> <<f[2 * i], f[2 * i + 1]>>]

Record(p) == <<RecordHeader(p), PacketBytes(p)>>

(* Each packet is flushed before it is counted: killed at any moment,      *)
(* sniff leaves a file from which all packets can be read that were        *)
(* counted before the disk refused a write, also if it refuses one later;  *)
(* as long as it took every write, the file holds nothing else but the     *)
(* packet in hand, and a capture that ends leaves all it counted.  Of what *)
(* is read behind a write that was refused nothing is said.                *)
FileReadable ==
  fp = "open" =>
    LET records == RecordsIn(disk)
    IN  /\ Len(safe) <= Len(records)
        /\ \A i \in 1 .. Len(safe) : records[i] = Record(safe[i])
        /\ ~write_failed =>
             /\ safe = captured
             /\ \A i \in 1 .. Len(records) : records[i] = Record(i)
             /\ pc = "done" => Len(records) = Len(captured) /\ disk # <<>>

(* A signal ends the capture, also one that comes just before poll(). *)
SignalStops == ~keep_running ~> Ended

(* sniff keeps up: it takes from the kernel what is queued there until the *)
(* capture comes to its end, and on Linux, -c is that end once as many     *)
(* packets were received.                                                  *)
ReceivedAsMany == max_packets > 0 /\ received >= max_packets
KeepsUp ==
  /\ InKernel > 0 ~> (InKernel = 0 \/ Ended)
  /\ (platform = "linux" /\ ReceivedAsMany) ~> Ended

(* A capture is a capture log: the refinement. *)
CaptureStatus == IF ~Ended THEN "running" ELSE IF LimitReached THEN "complete" ELSE "stopped"
Log == INSTANCE CaptureLog WITH limit <- max_packets, log <- captured, status <- CaptureStatus
RefinesCaptureLog == Log!Spec

(* sniff.8:23 says of -c "Stop after receiving count packets." *)
CountStops == ReceivedAsMany ~> Ended

===============================================================================
