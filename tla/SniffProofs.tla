------------------------------- MODULE SniffProofs -------------------------------
(****************************************************************************)
(* Proofs about Sniff, for every limit, every size of the kernel's queue    *)
(* and of the BPF buffer, both builds and every failing disk, socket and    *)
(* interface: types; no packet is lost or doubled on the way; what          *)
(* open_raw_socket acquires is released; what is on the disk can be read;   *)
(* sniff implements CaptureLog; and a signal is heeded.                     *)
(****************************************************************************)
EXTENDS Sniff, SequenceTheorems, NaturalsInduction, WellFoundedInduction, TLAPS

USE SocketAssumption, SniffAssumption

-------------------------------------------------------------------------------
(* Types.                                                                  *)

LEMMA PieceFacts ==
  /\ FileHeader \in Piece
  /\ \A p \in 0 .. MaxPackets : RecordHeader(p) \in Piece /\ PacketBytes(p) \in Piece
BY DEF Piece

LEMMA WriteOutType ==
  ASSUME NEW pieces \in Seq(Piece), NEW k \in 0 .. Len(pieces), WriteOut(pieces, k),
         disk \in Seq(Piece), write_failed \in BOOLEAN
  PROVE  stdio' \in Seq(Piece) /\ disk' \in Seq(Piece) /\ write_failed' \in BOOLEAN
<1>1. Len(pieces) \in Nat /\ \A i \in 1 .. Len(pieces) : pieces[i] \in Piece
  BY LenProperties, ElementOfSeq
<1>2. SubSeq(pieces, 1, k) \in Seq(Piece)
  <2>1. \A i \in 1 .. k : pieces[i] \in Piece
    BY <1>1
  <2> QED BY <2>1, <1>1, SubSeqProperties
<1>3. SubSeq(pieces, k + 1, Len(pieces)) \in Seq(Piece)
  <2>1. \A i \in k + 1 .. Len(pieces) : pieces[i] \in Piece
    BY <1>1
  <2> QED BY <2>1, <1>1, SubSeqProperties
<1>4. disk' \in Seq(Piece)
  BY <1>2, ConcatProperties DEF WriteOut
<1>5. <<>> \in Seq(Piece)
  BY EmptySeq
<1> QED BY <1>3, <1>4, <1>5 DEF WriteOut

LEMMA FwriteType ==
  ASSUME TypeOK, NEW piece \in Piece, Fwrite(piece)
  PROVE  stdio' \in Seq(Piece) /\ disk' \in Seq(Piece) /\ write_failed' \in BOOLEAN
<1>1. Append(stdio, piece) \in Seq(Piece) /\ Len(Append(stdio, piece)) \in Nat
  BY AppendProperties, LenProperties DEF TypeOK
<1>2. CASE stdio' = Append(stdio, piece) /\ UNCHANGED <<disk, write_failed>>
  BY <1>1, <1>2 DEF TypeOK
<1>3. CASE \E k \in 0 .. Len(Append(stdio, piece)) : WriteOut(Append(stdio, piece), k)
  BY <1>1, <1>3, WriteOutType DEF TypeOK
<1> QED BY <1>1, <1>2, <1>3 DEF Fwrite

LEMMA FflushType ==
  ASSUME TypeOK, Fflush
  PROVE  stdio' \in Seq(Piece) /\ disk' \in Seq(Piece) /\ write_failed' \in BOOLEAN
<1>1. stdio \in Seq(Piece) /\ Len(stdio) \in Nat
  BY LenProperties DEF TypeOK
<1>2. CASE UNCHANGED file
  BY <1>2 DEF TypeOK, file
<1>3. CASE \E k \in 0 .. Len(stdio) : WriteOut(stdio, k)
  BY <1>1, <1>3, WriteOutType DEF TypeOK
<1> QED BY <1>1, <1>2, <1>3 DEF Fflush

(* The socket: what each of its steps leaves alone, and its types.         *)
counters == <<received, fetched, bpf_filled, bpf_pos>>

LEMMA SocketTypeInit == SocketInit => SocketTypeOK
<1> SUFFICES ASSUME SocketInit PROVE SocketTypeOK
  OBVIOUS
<1>1. platform \in Platforms /\ received = 0 /\ fetched = 0 /\ bpf_filled = 0 /\ bpf_pos = 0
      /\ unbound = 0
  BY DEF SocketInit
<1>2. received \in 0 .. MaxPackets /\ fetched \in 0 .. received /\ unbound \in 0 .. received
  BY <1>1
<1>3. bpf_filled \in 0 .. BpfLen /\ bpf_pos \in 0 .. bpf_filled
  BY <1>1
<1> QED BY <1>1, <1>2, <1>3 DEF SocketInit, SocketTypeOK

LEMMA OpenRawSocketFacts ==
  ASSUME OpenRawSocket
  PROVE  UNCHANGED <<platform, counters, sock_err, unbound>>
BY DEF OpenRawSocket, OpenDescriptor, AttachInterface, AllocateSock, AllocateBuffer,
       OpeningStep, counters

LEMMA OpenRawSocketType ==
  ASSUME SocketTypeOK, OpenRawSocket
  PROVE  SocketTypeOK'
<1>1. UNCHANGED <<platform, counters, sock_err, unbound>>
  BY OpenRawSocketFacts
<1>2. stage' \in {"interface", "sock", "bpf_buf", "open", "failed"}
  BY DEF OpenRawSocket, OpenDescriptor, AttachInterface, AllocateSock, AllocateBuffer,
         OpeningStep
<1>3. held' \subseteq {"fd", "sock", "bpf_buf"}
  BY DEF OpenRawSocket, OpenDescriptor, AttachInterface, AllocateSock, AllocateBuffer,
         OpeningStep, SocketTypeOK
<1> QED BY <1>1, <1>2, <1>3 DEF SocketTypeOK, counters

LEMMA CloseRawSocketType ==
  ASSUME SocketTypeOK, CloseRawSocket
  PROVE  SocketTypeOK' /\ UNCHANGED counters
<1>1. held' \subseteq {"fd", "sock", "bpf_buf"}
  BY DEF CloseRawSocket, SocketTypeOK
<1> QED BY <1>1 DEF CloseRawSocket, SocketTypeOK, counters

LEMMA RecvPacketType ==
  ASSUME SocketTypeOK, NEW p \in Nat, RecvPacket(p)
  PROVE  /\ SocketTypeOK'
         /\ UNCHANGED <<platform, received, sock_err, handle>>
<1>1. CASE RecvLinux(p)
  BY <1>1 DEF SocketTypeOK, RecvLinux, InKernel, handle
<1>2. CASE RecvFilling(p)
  BY <1>2 DEF SocketTypeOK, RecvFilling, InKernel, handle
<1>3. CASE RecvBuffered(p)
  BY <1>3 DEF SocketTypeOK, RecvBuffered, BufferUsedUp, InBuffer, handle
<1> QED BY <1>1, <1>2, <1>3 DEF RecvPacket

LEMMA RecvNothingType ==
  ASSUME SocketTypeOK, RecvNothing
  PROVE  SocketTypeOK' /\ UNCHANGED <<platform, counters, handle>>
BY DEF RecvNothing, SocketTypeOK, counters, handle

LEMMA ArriveType ==
  ASSUME SocketTypeOK, Arrive
  PROVE  /\ SocketTypeOK'
         /\ received \in Nat /\ received' = received + 1
         /\ UNCHANGED <<platform, fetched, bpf_filled, bpf_pos, stage, held>>
<1>1. /\ received \in 0 .. MaxPackets /\ received < MaxPackets /\ received' = received + 1
      /\ fetched \in 0 .. received /\ unbound \in 0 .. received /\ fetched' = fetched
      /\ unbound' \in {unbound, received + 1}
  BY DEF Arrive, SocketTypeOK
<1>2. received' \in 0 .. MaxPackets /\ fetched' \in 0 .. received' /\ unbound' \in 0 .. received'
  BY <1>1
<1> QED BY <1>1, <1>2 DEF Arrive, SocketTypeOK

LEMMA InterfaceDownType ==
  ASSUME SocketTypeOK, InterfaceDown
  PROVE  SocketTypeOK' /\ UNCHANGED <<platform, counters, handle>>
BY DEF InterfaceDown, SocketTypeOK, counters, handle

LEMMA SocketKept ==
  ASSUME SocketTypeOK, UNCHANGED sockvars
  PROVE  SocketTypeOK'
BY DEF SocketTypeOK, sockvars, handle

-------------------------------------------------------------------------------
(* The whole program.                                                      *)
LEMMA NumbersGrow ==
  ASSUME NEW s \in Seq(1 .. received), received \in Nat, received' \in Nat, received <= received'
  PROVE  s \in Seq(1 .. received')
BY SeqMonotonic

(* A packet in hand is one that was received. *)
Holding == pc \in {"record header", "packet", "flush", "count"}
TypeInv == TypeOK /\ (Holding => buf # 0)

LEMMA TypeInit == Init => TypeInv
<1> SUFFICES ASSUME Init PROVE TypeInv
  OBVIOUS
<1>1. <<>> \in Seq(Piece) /\ <<>> \in Seq(1 .. received)
  BY EmptySeq
<1>2. SocketTypeOK
  BY SocketTypeInit DEF Init
<1>3. packets_captured \in Nat /\ buf \in 0 .. received
  BY DEF Init, SocketInit
<1>4. TypeOK
  BY <1>1, <1>2, <1>3 DEF Init, TypeOK
<1> QED BY <1>4 DEF Init, TypeInv, Holding

LEMMA TypeStep == TypeInv /\ [Next]_vars => TypeInv'
<1> SUFFICES ASSUME TypeOK, Holding => buf # 0, [Next]_vars PROVE TypeInv'
  BY DEF TypeInv
<1>a. SocketTypeOK /\ packets_captured \in Nat
      /\ captured \in Seq(1 .. received) /\ safe \in Seq(1 .. received)
      /\ buf \in 0 .. received
  BY DEF TypeOK
<1>b. received \in Nat /\ received <= MaxPackets
  BY <1>a DEF SocketTypeOK
<1>1. ASSUME OpenSocket PROVE TypeOK'
  BY <1>1, <1>a, <1>b, OpenRawSocketType, OpenRawSocketFacts DEF OpenSocket, TypeOK, file, counters
<1>2. ASSUME OpenFile PROVE TypeOK'
  <2>1. <<FileHeader>> \in Seq(Piece)
    BY PieceFacts
  <2>2. SocketTypeOK' /\ received' = received
    BY <1>2, <1>a, <1>b, SocketKept DEF OpenFile, sockvars
  <2> QED BY <1>2, <2>1, <2>2 DEF OpenFile, TypeOK
<1>3. ASSUME HeadLeaves PROVE TypeOK'
  <2>1. SocketTypeOK' /\ received' = received
    BY <1>3, <1>a, <1>b, CloseRawSocketType DEF HeadLeaves, counters
  <2>2. stdio' \in Seq(Piece) /\ disk' \in Seq(Piece) /\ write_failed' \in BOOLEAN
    BY <1>3, FflushType DEF HeadLeaves, file, TypeOK
  <2> QED BY <1>3, <2>1, <2>2 DEF HeadLeaves, TypeOK
<1>4. ASSUME HeadPolls \/ PollReturns \/ PollTimesOut PROVE TypeOK'
  <2>1. SocketTypeOK' /\ received' = received
    BY <1>4, <1>a, <1>b, SocketKept DEF HeadPolls, PollReturns, PollTimesOut, sockvars
  <2> QED BY <1>4, <2>1 DEF HeadPolls, PollReturns, PollTimesOut, Goto, file, TypeOK
<1>5. ASSUME Recv PROVE TypeOK'
  <2> DEFINE Received == /\ SocketTypeOK' /\ received' = received /\ buf' \in 0 .. received
                         /\ pc' \in {"head", "record header", "count"}
  <2>1. Received
    <3>1. ASSUME NEW p \in 1 .. received, RecvPacket(p), buf' = p,
                 Goto("recv", IF fp = "open" THEN "record header" ELSE "count")
          PROVE  Received
      <4>1. SocketTypeOK' /\ received' = received
        <5>1. p \in Nat
          BY <1>b
        <5>2. SocketTypeOK' /\ UNCHANGED <<platform, received, sock_err, handle>>
          BY <5>1, <3>1, <1>a, RecvPacketType
        <5> QED BY <5>2
      <4>2. buf' \in 0 .. received
        <5>1. p \in 0 .. received
          BY <1>b
        <5> QED BY <5>1, <3>1
      <4>3. pc' = IF fp = "open" THEN "record header" ELSE "count"
        BY <3>1 DEF Goto
      <4> QED BY <4>1, <4>2, <4>3
    <3>2. ASSUME RecvNothing, Goto("recv", "head"), UNCHANGED <<buf, file>> PROVE Received
      <4>1. SocketTypeOK' /\ received' = received
        BY <3>2, <1>a, RecvNothingType DEF counters
      <4> QED BY <3>2, <4>1, <1>a DEF Goto
    <3> QED BY <1>5, <3>1, <3>2 DEF Recv
  <2>2. UNCHANGED <<keep_running, max_packets, packets_captured, fp, file, disk_full, captured, safe>>
    BY <1>5 DEF Recv, Goto
  <2> QED BY <2>1, <2>2 DEF TypeOK, file
<1>6. ASSUME WriteRecordHeader \/ WritePacket PROVE TypeOK'
  <2>1. SocketTypeOK' /\ received' = received
    BY <1>6, <1>a, <1>b, SocketKept DEF WriteRecordHeader, WritePacket, sockvars
  <2>2. RecordHeader(buf) \in Piece /\ PacketBytes(buf) \in Piece
    BY <1>a, <1>b, PieceFacts
  <2>3. stdio' \in Seq(Piece) /\ disk' \in Seq(Piece) /\ write_failed' \in BOOLEAN
    BY <1>6, <2>2, FwriteType DEF WriteRecordHeader, WritePacket
  <2> QED BY <1>6, <2>1, <2>3 DEF WriteRecordHeader, WritePacket, Goto, TypeOK
<1>7. ASSUME Flush PROVE TypeOK'
  <2>1. SocketTypeOK' /\ received' = received
    BY <1>7, <1>a, <1>b, SocketKept DEF Flush, sockvars
  <2>2. stdio' \in Seq(Piece) /\ disk' \in Seq(Piece) /\ write_failed' \in BOOLEAN
    BY <1>7, FflushType DEF Flush
  <2> QED BY <1>7, <2>1, <2>2 DEF Flush, Goto, TypeOK
<1>8. ASSUME CountPacket PROVE TypeOK'
  <2>1. SocketTypeOK' /\ received' = received
    BY <1>8, <1>a, <1>b, SocketKept DEF CountPacket, sockvars
  <2>2. buf \in 1 .. received
    BY <1>8, <1>a, <1>b DEF CountPacket, Holding
  <2>3. captured' \in Seq(1 .. received) /\ safe' \in Seq(1 .. received)
    BY <1>8, <1>a, <2>2, AppendProperties DEF CountPacket
  <2> QED BY <1>8, <1>a, <2>1, <2>3 DEF CountPacket, file, TypeOK
<1>9. ASSUME HandleSigint \/ DiskFillsOrEmpties \/ UNCHANGED vars PROVE TypeOK'
  <2>1. SocketTypeOK' /\ received' = received
    BY <1>9, <1>a, <1>b, SocketKept DEF HandleSigint, DiskFillsOrEmpties, sockvars, vars
  <2>2. pc' \in {pc, "head"} /\ keep_running' \in BOOLEAN /\ disk_full' \in BOOLEAN
    BY <1>9 DEF HandleSigint, DiskFillsOrEmpties, vars, TypeOK
  <2>3. UNCHANGED <<max_packets, packets_captured, buf, fp, file, captured, safe>>
    BY <1>9 DEF HandleSigint, DiskFillsOrEmpties, vars
  <2> QED BY <2>1, <2>2, <2>3 DEF TypeOK, file
<1>10. ASSUME Network PROVE TypeOK'
  <2>1. SocketTypeOK' /\ received' \in {received, received + 1}
    BY <1>10, <1>a, <1>b, ArriveType, InterfaceDownType DEF Network, counters
  <2>2. captured \in Seq(1 .. received') /\ safe \in Seq(1 .. received') /\ buf \in 0 .. received'
    BY <2>1, <1>a, <1>b, NumbersGrow
  <2> QED BY <1>10, <2>1, <2>2 DEF Network, file, TypeOK
<1>11. TypeOK'
  <2>1. CASE Process
    BY <2>1, <1>1, <1>2, <1>3, <1>4, <1>5, <1>6, <1>7, <1>8 DEF Process
  <2>2. CASE HandleSigint \/ Network \/ DiskFillsOrEmpties \/ UNCHANGED vars
    BY <2>2, <1>9, <1>10
  <2> QED BY <2>1, <2>2 DEF Next, Terminated
<1>12. (Holding => buf # 0)'
  <2>1. CASE pc' = pc /\ buf' = buf
    BY <2>1 DEF Holding
  <2>2. CASE pc' \in {"setup", "head", "poll", "recv", "done", "die"}
    BY <2>2 DEF Holding
  <2>3. CASE Recv
    <3>1. \/ \E p \in 1 .. received : buf' = p
          \/ pc' = "head"
      BY <2>3 DEF Recv, Goto
    <3>2. buf' # 0 \/ pc' = "head"
      BY <3>1, <1>b
    <3> QED BY <3>2 DEF Holding
  <2>4. CASE WriteRecordHeader \/ WritePacket \/ Flush
    <3>1. Holding /\ buf' = buf
      BY <2>4 DEF WriteRecordHeader, WritePacket, Flush, Goto, Holding
    <3> QED BY <3>1
  <2>5. OpenSocket \/ HandleSigint \/ Network \/ DiskFillsOrEmpties \/ UNCHANGED vars
        => (pc' = pc /\ buf' = buf) \/ pc' = "head"
    BY DEF OpenSocket, HandleSigint, Network, DiskFillsOrEmpties, vars
  <2>6. OpenFile \/ HeadLeaves \/ HeadPolls \/ PollReturns \/ PollTimesOut \/ CountPacket
        => pc' \in {"setup", "head", "poll", "recv", "done", "die"}
    BY DEF OpenFile, HeadLeaves, HeadPolls, PollReturns, PollTimesOut, CountPacket, Goto
  <2> QED BY <2>1, <2>2, <2>3, <2>4, <2>5, <2>6 DEF Next, Process, Terminated
<1> QED BY <1>11, <1>12 DEF TypeInv

LEMMA TypeInvariant == Spec => []TypeInv
BY TypeInit, TypeStep, PTL DEF Spec

(* Every variable of sniff and of its socket keeps its type.               *)
THEOREM TypeCorrect == Spec => []TypeOK
<1>1. TypeInv => TypeOK
  BY DEF TypeInv
<1> QED BY <1>1, TypeInvariant, PTL

-------------------------------------------------------------------------------
(* The inductive invariant: what is held at each stage of the socket, how  *)
(* the stage goes with the program's place, and where the packets taken    *)
(* from the kernel are.                                                    *)
HeldFits ==
  /\ stage \in {"descriptor", "failed", "closed"} => held = {}
  /\ stage \in {"interface", "sock"} => held = {"fd"}
  /\ stage = "bpf_buf" => platform = "bsd" /\ held = {"fd", "sock"}
  /\ stage = "open" => held = {"fd", "sock"} \cup IF platform = "bsd" THEN {"bpf_buf"} ELSE {}

StageFits ==
  /\ pc = "setup" => stage # "closed" /\ fetched = 0 /\ packets_captured = 0
  /\ pc = "die" => stage = "failed"
  /\ pc = "done" => stage = "closed"
  /\ pc \notin {"setup", "die", "done"} => stage = "open"

NoBpfOnLinux == platform = "linux" => bpf_filled = 0 /\ bpf_pos = 0

LimitKept ==
  /\ max_packets > 0 => packets_captured <= max_packets
  /\ pc \notin {"setup", "head", "die", "done"} => ~LimitReached

UnboundFew ==
  /\ unbound <= KernelLen
  /\ platform = "bsd" => unbound = 0

IInv == /\ TypeInv
        /\ HeldFits /\ StageFits
        /\ NoBpfOnLinux /\ NothingLostInside
        /\ LimitKept /\ UnboundFew

(* Only the opening and the closing of the socket change what is held. *)
LEMMA HandleFrame ==
  ASSUME TypeOK, [Next]_vars
  PROVE  /\ platform' = platform
         /\ \/ UNCHANGED <<stage, held>>
            \/ pc = "setup" /\ pc' = "setup" /\ OpenRawSocket
            \/ pc = "head" /\ pc' = "done" /\ CloseRawSocket
<1>1. ASSUME Recv PROVE UNCHANGED <<platform, stage, held>>
  <2>1. ASSUME NEW p, RecvPacket(p) PROVE UNCHANGED <<platform, stage, held>>
    BY <2>1 DEF RecvPacket, RecvLinux, RecvFilling, RecvBuffered, handle
  <2>2. RecvNothing => UNCHANGED <<platform, stage, held>>
    BY DEF RecvNothing, handle
  <2> QED BY <1>1, <2>1, <2>2 DEF Recv
<1>2. OpenSocket => platform' = platform /\ pc = "setup" /\ pc' = "setup" /\ OpenRawSocket
  BY OpenRawSocketFacts DEF OpenSocket
<1>3. HeadLeaves => platform' = platform /\ pc = "head" /\ pc' = "done" /\ CloseRawSocket
  BY DEF HeadLeaves, CloseRawSocket
<1>4. ASSUME UNCHANGED sockvars PROVE UNCHANGED <<platform, stage, held>>
  BY <1>4 DEF sockvars, handle
<1>5. OpenFile \/ HeadPolls \/ PollReturns \/ PollTimesOut \/ WriteRecordHeader \/ WritePacket
      \/ Flush \/ CountPacket \/ HandleSigint \/ DiskFillsOrEmpties \/ UNCHANGED vars
      => UNCHANGED sockvars
  BY DEF OpenFile, HeadPolls, PollReturns, PollTimesOut, WriteRecordHeader, WritePacket,
         Flush, CountPacket, HandleSigint, DiskFillsOrEmpties, vars
<1>6. Network => UNCHANGED <<platform, stage, held>>
  BY DEF Network, Arrive, InterfaceDown, handle
<1> QED BY <1>1, <1>2, <1>3, <1>4, <1>5, <1>6 DEF Next, Process, Terminated

LEMMA HeldStep ==
  ASSUME TypeOK, HeldFits, StageFits, [Next]_vars
  PROVE  HeldFits'
<1>1. platform' = platform /\ platform \in {"linux", "bsd"}
  BY HandleFrame DEF TypeOK, SocketTypeOK
<1>2. CASE UNCHANGED <<stage, held>>
  BY <1>1, <1>2 DEF HeldFits
<1>3. CASE OpenRawSocket
  <2>1. CASE OpenDescriptor
    BY <2>1 DEF OpenDescriptor, OpeningStep, HeldFits
  <2>2. CASE AttachInterface
    BY <2>2 DEF AttachInterface, OpeningStep, HeldFits
  <2>3. CASE AllocateSock
    BY <1>1, <2>3 DEF AllocateSock, OpeningStep, HeldFits
  <2>4. CASE AllocateBuffer
    BY <1>1, <2>4 DEF AllocateBuffer, OpeningStep, HeldFits
  <2> QED BY <1>3, <2>1, <2>2, <2>3, <2>4 DEF OpenRawSocket
<1>4. CASE pc = "head" /\ CloseRawSocket
  <2>1. held' = {} /\ stage' = "closed"
    BY <1>4 DEF CloseRawSocket, StageFits, HeldFits
  <2> QED BY <2>1 DEF HeldFits
<1> QED BY <1>2, <1>3, <1>4, HandleFrame

(* Only a receive and a count move packets. *)
Packets == <<fetched, bpf_filled, bpf_pos, packets_captured, captured>>

LEMMA PacketFrame ==
  ASSUME [Next]_vars
  PROVE  \/ UNCHANGED Packets /\ (Holding' <=> Holding) /\ (Holding => buf' = buf)
         \/ \E p \in 1 .. received : RecvPacket(p) /\ buf' = p
                                     /\ pc = "recv" /\ pc' \in {"record header", "count"}
                                     /\ UNCHANGED <<packets_captured, captured>>
         \/ CountPacket
<1> DEFINE Quiet == UNCHANGED Packets /\ (Holding' <=> Holding) /\ (Holding => buf' = buf)
<1>1. ASSUME OpenSocket PROVE Quiet
  <2>1. UNCHANGED Packets /\ pc' = pc /\ buf' = buf
    BY <1>1, OpenRawSocketFacts DEF OpenSocket, counters, Packets
  <2> QED BY <2>1 DEF Holding
<1>2. ASSUME UNCHANGED <<fetched, bpf_filled, bpf_pos, packets_captured, captured>>,
             pc \notin {"record header", "packet", "flush", "count"},
             pc' \notin {"record header", "packet", "flush", "count"}
      PROVE  Quiet
  BY <1>2 DEF Packets, Holding
<1>3. ASSUME OpenFile \/ HeadLeaves \/ HeadPolls \/ PollReturns \/ PollTimesOut PROVE Quiet
  <2>1. UNCHANGED <<fetched, bpf_filled, bpf_pos, packets_captured, captured>>
    BY <1>3 DEF OpenFile, HeadLeaves, HeadPolls, PollReturns, PollTimesOut, Goto, sockvars,
                CloseRawSocket
  <2>2. pc \in {"setup", "head", "poll"} /\ pc' \in {"head", "poll", "recv", "done", "die"}
    BY <1>3 DEF OpenFile, HeadLeaves, HeadPolls, PollReturns, PollTimesOut, Goto
  <2> QED BY <2>1, <2>2, <1>2
<1>4. ASSUME RecvNothing, Goto("recv", "head") PROVE Quiet
  BY <1>4, <1>2 DEF RecvNothing, Goto
<1>5. ASSUME NEW p \in 1 .. received, RecvPacket(p), buf' = p,
             Goto("recv", IF fp = "open" THEN "record header" ELSE "count")
      PROVE  RecvPacket(p) /\ buf' = p /\ pc = "recv" /\ pc' \in {"record header", "count"}
             /\ UNCHANGED <<packets_captured, captured>>
  <2>1. pc' = (IF fp = "open" THEN "record header" ELSE "count")
    BY <1>5 DEF Goto
  <2>2. pc = "recv" /\ UNCHANGED <<packets_captured, captured>>
    BY <1>5 DEF Goto
  <2> QED BY <1>5, <2>1, <2>2
<1>6. ASSUME WriteRecordHeader \/ WritePacket \/ Flush PROVE Quiet
  <2>1. UNCHANGED Packets /\ buf' = buf
    BY <1>6 DEF WriteRecordHeader, WritePacket, Flush, Goto, sockvars, Packets
  <2>2. Holding /\ Holding'
    BY <1>6 DEF WriteRecordHeader, WritePacket, Flush, Goto, Holding
  <2> QED BY <2>1, <2>2
<1>7. ASSUME HandleSigint PROVE Quiet
  <2>1. UNCHANGED Packets /\ buf' = buf
    BY <1>7 DEF HandleSigint, sockvars, Packets
  <2>2. pc' = pc \/ (pc = "poll" /\ pc' = "head")
    BY <1>7 DEF HandleSigint
  <2> QED BY <2>1, <2>2 DEF Holding
<1>8. ASSUME Network \/ DiskFillsOrEmpties \/ UNCHANGED vars PROVE Quiet
  <2>1. UNCHANGED Packets /\ buf' = buf /\ pc' = pc
    BY <1>8 DEF Network, Arrive, InterfaceDown, DiskFillsOrEmpties, vars, sockvars, Packets
  <2> QED BY <2>1 DEF Holding
<1>9. Recv => Quiet \/ \E p \in 1 .. received :
                         RecvPacket(p) /\ buf' = p
                         /\ pc = "recv" /\ pc' \in {"record header", "count"}
                         /\ UNCHANGED <<packets_captured, captured>>
  BY <1>4, <1>5 DEF Recv
<1> QED BY <1>1, <1>3, <1>6, <1>7, <1>8, <1>9 DEF Next, Process, Terminated

LEMMA InHandFacts == /\ Holding => InHand = 1
                     /\ ~Holding => InHand = 0
BY DEF Holding, InHand

(* What a receive does, in the terms of the accounting. *)
LEMMA RecvMovesOne ==
  ASSUME SocketTypeOK, NoBpfOnLinux, NEW p \in Nat, RecvPacket(p)
  PROVE  /\ NoBpfOnLinux'
         /\ p = fetched - InBuffer + 1
         /\ fetched' - InBuffer' = fetched - InBuffer + 1
<1>1. /\ received \in Nat /\ fetched \in Nat /\ bpf_filled \in Nat /\ bpf_pos \in Nat
      /\ bpf_pos <= bpf_filled
  BY DEF SocketTypeOK
<1>2. CASE RecvLinux(p)
  BY <1>1, <1>2 DEF RecvLinux, NoBpfOnLinux, InBuffer
<1>3. CASE RecvFilling(p)
  BY <1>1, <1>3 DEF RecvFilling, BufferUsedUp, NoBpfOnLinux, InBuffer
<1>4. CASE RecvBuffered(p)
  BY <1>1, <1>4 DEF RecvBuffered, BufferUsedUp, NoBpfOnLinux, InBuffer
<1> QED BY <1>2, <1>3, <1>4 DEF RecvPacket

LEMMA StageStep ==
  ASSUME TypeOK, StageFits, NothingLostInside, [Next]_vars
  PROVE  StageFits'
<1>1. CASE OpenSocket
  <2>1. UNCHANGED <<fetched, packets_captured, pc>> /\ stage' # "closed"
    BY <1>1, OpenRawSocketFacts
       DEF OpenSocket, OpenRawSocket, OpenDescriptor, AttachInterface, AllocateSock,
           AllocateBuffer, OpeningStep, counters
  <2> QED BY <1>1, <2>1 DEF OpenSocket, StageFits
<1>2. CASE OpenFile
  BY <1>2 DEF OpenFile, sockvars, handle, StageFits
<1>3. CASE HeadLeaves
  BY <1>3 DEF HeadLeaves, CloseRawSocket, StageFits
<1>4. ASSUME stage' = stage, pc \notin {"setup", "done", "die"},
             pc' \notin {"setup", "done", "die"}
      PROVE  StageFits'
  BY <1>4 DEF StageFits
<1>5. ASSUME UNCHANGED <<stage, pc, fetched, packets_captured>> PROVE StageFits'
  BY <1>5 DEF StageFits
<1>6. CASE HeadPolls \/ PollReturns \/ PollTimesOut \/ Recv \/ WriteRecordHeader \/ WritePacket
           \/ Flush \/ CountPacket
  <2>1. pc \notin {"setup", "done", "die"} /\ pc' \notin {"setup", "done", "die"}
    <3>1. CASE Recv
      <4>1. pc = "recv"
        BY <3>1 DEF Recv, Goto
      <4>2. pc' \in {"head", "count", "record header"}
        <5>1. ASSUME Goto("recv", IF fp = "open" THEN "record header" ELSE "count")
              PROVE  pc' \in {"count", "record header"}
          <6>1. pc' = (IF fp = "open" THEN "record header" ELSE "count")
            BY <5>1 DEF Goto
          <6> QED BY <6>1
        <5>2. Goto("recv", "head") => pc' = "head"
          BY DEF Goto
        <5> QED BY <3>1, <5>1, <5>2 DEF Recv
      <4> QED BY <4>1, <4>2
    <3>2. CASE HeadPolls \/ PollReturns \/ PollTimesOut \/ WriteRecordHeader \/ WritePacket
               \/ Flush \/ CountPacket
      BY <3>2 DEF HeadPolls, PollReturns, PollTimesOut, WriteRecordHeader, WritePacket, Flush,
                  CountPacket, Goto
    <3> QED BY <1>6, <3>1, <3>2
  <2>2. stage' = stage
    BY <2>1, HandleFrame
  <2> QED BY <2>1, <2>2, <1>4
<1>7. CASE HandleSigint
  <2>1. UNCHANGED <<stage, fetched, packets_captured>>
    BY <1>7 DEF HandleSigint, sockvars, handle
  <2>2. pc' = pc \/ (pc = "poll" /\ pc' = "head")
    BY <1>7 DEF HandleSigint
  <2> QED BY <2>1, <2>2, <1>4, <1>5
<1>8. CASE Network \/ DiskFillsOrEmpties \/ UNCHANGED vars
  BY <1>8, <1>5 DEF Network, Arrive, InterfaceDown, DiskFillsOrEmpties, vars, sockvars, handle
<1> QED BY <1>1, <1>2, <1>3, <1>6, <1>7, <1>8 DEF Next, Process, Terminated

LEMMA OrderStep ==
  ASSUME TypeInv, NoBpfOnLinux, NothingLostInside, [Next]_vars
  PROVE  NoBpfOnLinux' /\ NothingLostInside'
<1>1. /\ SocketTypeOK /\ packets_captured \in Nat /\ received \in Nat /\ Len(captured) \in Nat
      /\ captured \in Seq(1 .. received) /\ fetched \in Int /\ InBuffer \in Int
  <2>1. SocketTypeOK /\ packets_captured \in Nat /\ captured \in Seq(1 .. received)
    BY DEF TypeInv, TypeOK
  <2>2. received \in Nat /\ fetched \in Int /\ InBuffer \in Int
    BY <2>1 DEF SocketTypeOK, InBuffer
  <2> QED BY <2>1, <2>2, LenProperties
<1>2. platform' = platform
  BY HandleFrame DEF TypeInv
<1>3. CASE UNCHANGED Packets /\ (Holding' <=> Holding) /\ (Holding => buf' = buf)
  <2>1. NoBpfOnLinux'
    BY <1>2, <1>3 DEF Packets, NoBpfOnLinux
  <2>2. InHand' = InHand /\ InBuffer' = InBuffer
    BY <1>3 DEF Packets, Holding, InHand, InBuffer
  <2>3. InHand = 1 => buf' = buf
    BY <1>3, InHandFacts
  <2> QED BY <1>3, <2>1, <2>2, <2>3 DEF Packets, NothingLostInside
<1>4. ASSUME NEW p \in 1 .. received, RecvPacket(p), buf' = p, pc = "recv",
             pc' \in {"record header", "count"}, UNCHANGED <<packets_captured, captured>>
      PROVE  NoBpfOnLinux' /\ NothingLostInside'
  <2>0. p \in Nat
    BY <1>1
  <2>1. /\ NoBpfOnLinux' /\ p = fetched - InBuffer + 1
        /\ fetched' - InBuffer' = fetched - InBuffer + 1
        /\ SocketTypeOK'
    BY <1>1, <1>4, <2>0, RecvMovesOne, RecvPacketType
  <2>2. InHand = 0 /\ InHand' = 1
    BY <1>4 DEF InHand
  <2>3. fetched' \in Int /\ InBuffer' \in Int
    BY <2>1 DEF SocketTypeOK, InBuffer
  <2>4. Len(captured) + 1 + InBuffer' = fetched' /\ buf' = Len(captured) + 1
    <3>1. Len(captured) + InBuffer = fetched
      BY <2>2, <1>1 DEF NothingLostInside
    <3>2. p = Len(captured) + 1 /\ fetched' - InBuffer' = Len(captured) + 1
      BY <3>1, <2>1, <1>1
    <3>3. buf' = Len(captured) + 1
      BY <3>2, <1>4
    <3> QED BY <3>2, <3>3, <2>3, <1>1
  <2>5. captured' = captured /\ packets_captured' = packets_captured
    BY <1>4
  <2> QED BY <2>1, <2>2, <2>4, <2>5 DEF NothingLostInside
<1>5. CASE CountPacket
  <2>1. InHand = 1 /\ InHand' = 0
    BY <1>5 DEF CountPacket, InHand
  <2>2. buf = Len(captured) + 1 /\ buf \in 1 .. received
    <3>1. buf = Len(captured) + 1 /\ buf \in 0 .. received
      BY <2>1 DEF NothingLostInside, TypeInv, TypeOK
    <3> QED BY <3>1, <1>1
  <2>3. captured' = Append(captured, buf) /\ packets_captured' = packets_captured + 1
    BY <1>5 DEF CountPacket
  <2>4. /\ Len(captured') = Len(captured) + 1
        /\ \A i \in 1 .. Len(captured) : captured'[i] = captured[i]
        /\ captured'[Len(captured) + 1] = buf
    BY <1>1, <2>2, <2>3, AppendProperties
  <2>5. \A i \in 1 .. Len(captured') : captured'[i] = i
    BY <1>1, <2>2, <2>4 DEF NothingLostInside
  <2>6. UNCHANGED <<platform, fetched, bpf_filled, bpf_pos>>
    BY <1>5 DEF CountPacket, sockvars
  <2>7. NoBpfOnLinux' /\ InBuffer' = InBuffer /\ fetched' = fetched
    BY <2>6 DEF NoBpfOnLinux, InBuffer
  <2>8. Len(captured') + InHand' + InBuffer' = fetched'
    BY <1>1, <2>1, <2>4, <2>7 DEF NothingLostInside
  <2>9. packets_captured' = Len(captured') /\ InHand' # 1
    BY <2>1, <2>3, <2>4 DEF NothingLostInside
  <2> QED BY <2>5, <2>7, <2>8, <2>9 DEF NothingLostInside
<1> QED BY <1>3, <1>4, <1>5, PacketFrame

LEMMA LimitStep ==
  ASSUME TypeInv, StageFits, LimitKept, [Next]_vars
  PROVE  LimitKept'
<1>1. max_packets' = max_packets /\ max_packets \in Nat /\ packets_captured \in Nat
  <2>1. max_packets \in Nat /\ packets_captured \in Nat
    BY DEF TypeInv, TypeOK
  <2>2. Recv => max_packets' = max_packets
    BY DEF Recv, Goto
  <2>3. max_packets' = max_packets
    BY <2>2 DEF Next, Process, OpenSocket, OpenFile, HeadLeaves, HeadPolls, PollReturns,
                PollTimesOut, WriteRecordHeader, WritePacket, Flush, CountPacket, Goto,
                HandleSigint, Network, DiskFillsOrEmpties, Terminated, vars
  <2> QED BY <2>1, <2>3
<1>2. CASE packets_captured' = packets_captured /\ pc' \in {"setup", "head", "die", "done"}
  BY <1>1, <1>2 DEF LimitKept
<1>3. CASE packets_captured' = packets_captured /\ pc \notin {"setup", "head", "die", "done"}
  BY <1>1, <1>3 DEF LimitKept, LimitReached
<1>4. CASE HeadPolls
  BY <1>1, <1>4 DEF HeadPolls, Goto, LimitKept, LimitReached
<1>5. CASE CountPacket
  <2>1. packets_captured' = packets_captured + 1 /\ pc = "count" /\ pc' = "head"
    BY <1>5 DEF CountPacket
  <2>2. max_packets > 0 => packets_captured < max_packets
    BY <1>1, <2>1 DEF LimitKept, LimitReached
  <2> QED BY <1>1, <2>1, <2>2 DEF LimitKept
<1>6. CASE packets_captured' = packets_captured /\ pc' = pc
  BY <1>1, <1>6 DEF LimitKept, LimitReached
<1>7. OpenSocket \/ Network \/ DiskFillsOrEmpties \/ UNCHANGED vars
      => packets_captured' = packets_captured /\ pc' = pc
  BY DEF OpenSocket, Network, DiskFillsOrEmpties, vars
<1>8. OpenFile \/ HeadLeaves
      => packets_captured' = packets_captured /\ pc' \in {"setup", "head", "die", "done"}
  BY DEF OpenFile, HeadLeaves
<1>9. Recv => packets_captured' = packets_captured /\ pc = "recv"
  BY DEF Recv, Goto
<1>10. PollReturns \/ PollTimesOut \/ WriteRecordHeader \/ WritePacket \/ Flush
       => packets_captured' = packets_captured /\ pc \notin {"setup", "head", "die", "done"}
  BY DEF PollReturns, PollTimesOut, WriteRecordHeader, WritePacket, Flush, Goto
<1>11. HandleSigint => packets_captured' = packets_captured
                       /\ (pc' = pc \/ pc' \in {"setup", "head", "die", "done"})
  <2>1. HandleSigint => pc' = pc \/ pc' = "head"
    BY DEF HandleSigint
  <2>2. HandleSigint => packets_captured' = packets_captured
    BY DEF HandleSigint
  <2> QED BY <2>1, <2>2
<1> QED BY <1>2, <1>3, <1>4, <1>5, <1>6, <1>7, <1>8, <1>9, <1>10, <1>11
        DEF Next, Process, Terminated

LEMMA UnboundStep ==
  ASSUME TypeInv, StageFits, UnboundFew, [Next]_vars
  PROVE  UnboundFew'
<1>1. platform' = platform
  BY HandleFrame DEF TypeInv
<1>2. CASE unbound' = unbound
  BY <1>1, <1>2 DEF UnboundFew
<1>3. CASE Arrive
  <2>1. CASE Bound
    BY <1>2, <1>3, <2>1 DEF Arrive
  <2>2. CASE ~Bound
    <3>1. stage = "interface" /\ platform = "linux" /\ unbound' = received + 1
          /\ received - fetched < KernelLen
      BY <1>3, <2>2 DEF Arrive, Listens, Bound, InKernel
    <3>2. fetched = 0
      BY <3>1 DEF StageFits
    <3>3. SocketTypeOK
      BY DEF TypeInv, TypeOK
    <3>4. received \in Nat
      BY <3>3 DEF SocketTypeOK
    <3> QED BY <1>1, <3>1, <3>2, <3>4 DEF UnboundFew
  <2> QED BY <2>1, <2>2
<1>4. Recv => unbound' = unbound
  <2>1. ASSUME NEW p, RecvPacket(p) PROVE unbound' = unbound
    BY <2>1 DEF RecvPacket, RecvLinux, RecvFilling, RecvBuffered, handle
  <2>2. RecvNothing => unbound' = unbound
    BY DEF RecvNothing, handle
  <2> QED BY <2>1, <2>2 DEF Recv
<1>5. OpenSocket => unbound' = unbound
  BY OpenRawSocketFacts DEF OpenSocket
<1>6. OpenFile \/ HeadLeaves \/ HeadPolls \/ PollReturns \/ PollTimesOut \/ WriteRecordHeader
      \/ WritePacket \/ Flush \/ CountPacket \/ HandleSigint \/ DiskFillsOrEmpties
      \/ UNCHANGED vars \/ (Network /\ InterfaceDown) => unbound' = unbound
  BY DEF OpenFile, HeadLeaves, CloseRawSocket, HeadPolls, PollReturns, PollTimesOut,
         WriteRecordHeader, WritePacket, Flush, CountPacket, HandleSigint, DiskFillsOrEmpties,
         InterfaceDown, vars, sockvars, handle
<1> QED BY <1>2, <1>3, <1>4, <1>5, <1>6 DEF Next, Process, Terminated, Network

LEMMA IInvInit == Init => IInv
<1> SUFFICES ASSUME Init PROVE IInv
  OBVIOUS
<1>1. TypeInv
  BY TypeInit
<1>2. HeldFits
  BY DEF Init, SocketInit, HeldFits
<1>3. StageFits /\ NoBpfOnLinux
  BY DEF Init, SocketInit, StageFits, NoBpfOnLinux
<1>4. NothingLostInside
  <2>1. Len(captured) = 0 /\ packets_captured = 0
    BY DEF Init
  <2>2. InHand = 0
    BY DEF Init, InHand
  <2>3. InBuffer = 0 /\ fetched = 0
    BY DEF Init, SocketInit, InBuffer
  <2> QED BY <2>1, <2>2, <2>3 DEF NothingLostInside
<1>5. LimitKept /\ UnboundFew
  BY <1>1 DEF Init, SocketInit, LimitKept, UnboundFew, TypeInv, TypeOK
<1> QED BY <1>1, <1>2, <1>3, <1>4, <1>5 DEF IInv

LEMMA IInvStep == IInv /\ [Next]_vars => IInv'
<1> SUFFICES ASSUME IInv, [Next]_vars PROVE IInv'
  OBVIOUS
<1>1. TypeInv /\ TypeOK
  BY DEF IInv, TypeInv
<1> QED BY <1>1, TypeStep, HeldStep, StageStep, OrderStep, LimitStep, UnboundStep DEF IInv

LEMMA IInvariant == Spec => []IInv
BY IInvInit, IInvStep, PTL DEF Spec

-------------------------------------------------------------------------------
(* Nothing that recv_packet took from the kernel is lost, doubled or       *)
(* overtaken before it is counted.                                         *)
THEOREM NothingIsLost == Spec => []NothingLostInside
<1>1. IInv => NothingLostInside
  BY DEF IInv
<1> QED BY <1>1, IInvariant, PTL

(* Whichever step of open_raw_socket fails, and at the end of a capture,   *)
(* no descriptor and no allocation is left; the loop holds all it uses.    *)
THEOREM SocketIsReleased == Spec => []SocketReleased
<1>1. IInv => SocketReleased
  BY DEF IInv, HeldFits, StageFits, SocketReleased, Ended
<1> QED BY <1>1, IInvariant, PTL

(* At most a kernel's queue of packets of other interfaces is captured,    *)
(* before all others.                                                      *)
THEOREM OtherInterfacesAreBounded == Spec => []OtherInterfacesBounded
<1>1. ASSUME IInv PROVE OtherInterfacesBounded
  <2>1. /\ captured \in Seq(1 .. received) /\ Len(captured) \in Nat
        /\ platform \in {"linux", "bsd"}
        /\ \A i \in 1 .. Len(captured) : captured[i] = i
    <3>1. captured \in Seq(1 .. received) /\ SocketTypeOK
      BY <1>1 DEF IInv, TypeInv, TypeOK
    <3>2. platform \in {"linux", "bsd"}
      BY <3>1 DEF SocketTypeOK
    <3>3. \A i \in 1 .. Len(captured) : captured[i] = i
      BY <1>1 DEF IInv, NothingLostInside
    <3> QED BY <3>1, <3>2, <3>3, LenProperties
  <2>2. unbound \in Int
    <3>1. SocketTypeOK
      BY <1>1 DEF IInv, TypeInv, TypeOK
    <3> QED BY <3>1 DEF SocketTypeOK
  <2>3. ASSUME NEW i \in 1 .. Len(captured), captured[i] <= unbound
        PROVE  platform = "linux" /\ i <= KernelLen
    <3>1. i <= unbound /\ i \in Int /\ i >= 1
      BY <2>1, <2>3
    <3> QED BY <1>1, <2>1, <2>2, <3>1 DEF IInv, UnboundFew
  <2> QED BY <2>3 DEF OtherInterfacesBounded
<1> QED BY <1>1, IInvariant, PTL

-------------------------------------------------------------------------------
(* The PCAP file.  What was written of it is the file followed by what the *)
(* stream still holds; Put is how many pieces were.                        *)
Whole == disk \o stdio

Put == 2 * Len(captured) + 1 + (IF pc = "packet" THEN 1
                                ELSE IF pc \in {"flush", "count"} THEN 2 ELSE 0)

(* A file of n pieces that nothing is missing from. *)
IsFile(f, n) ==
  /\ Len(f) = n
  /\ f[1] = FileHeader
  /\ \A p \in 1 .. MaxPackets : /\ 2 * p <= n => f[2 * p] = RecordHeader(p)
                                /\ 2 * p + 1 <= n => f[2 * p + 1] = PacketBytes(p)

(* As long as no write failed nothing is missing, and all records counted  *)
(* are out on the disk.                                                    *)
Everything ==
  fp = "open" /\ ~write_failed =>
    /\ IsFile(Whole, Put)
    /\ Len(captured) > 0 => 2 * Len(captured) + 1 <= Len(disk)
    /\ pc \in {"count", "done"} => Len(disk) = Put

FileFits ==
  /\ fp = "none" => Whole = <<>> /\ ~write_failed
  /\ pc \in {"setup", "die"} => fp = "none"
  /\ pc \in {"record header", "packet", "flush"} => fp = "open"

FileInv == Everything /\ FileFits

(* The initial part of the pieces put, of what a write may keep. *)
IsPart(f, g) == Len(f) <= Len(g) /\ \A i \in 1 .. Len(f) : f[i] = g[i]

(* What is on the disk stays there, and a failure is not forgotten.        *)
DiskGrows == IsPart(disk, disk') /\ (write_failed => write_failed')

LEMMA WriteOutPart ==
  ASSUME NEW pieces \in Seq(Piece), NEW k \in 0 .. Len(pieces), WriteOut(pieces, k),
         disk \in Seq(Piece), write_failed \in BOOLEAN
  PROVE  /\ IsPart(Whole', disk \o pieces)
         /\ Len(disk') = Len(disk) + k /\ IsPart(disk, disk')
         /\ ~write_failed' => /\ ~write_failed /\ Len(Whole') = Len(disk) + Len(pieces)
<1>1. /\ Len(pieces) \in Nat /\ Len(disk) \in Nat
      /\ \A i \in 1 .. Len(pieces) : pieces[i] \in Piece
  BY LenProperties, ElementOfSeq
<1> DEFINE out  == SubSeq(pieces, 1, k)
           rest == SubSeq(pieces, k + 1, Len(pieces))
<1>2. out \in Seq(Piece) /\ Len(out) = k /\ \A i \in 1 .. k : out[i] = pieces[i]
  <2>1. \A i \in 1 .. k : pieces[i] \in Piece
    BY <1>1
  <2> QED BY <2>1, <1>1, SubSeqProperties
<1>3. /\ rest \in Seq(Piece) /\ Len(rest) = Len(pieces) - k
      /\ \A i \in 1 .. Len(pieces) - k : rest[i] = pieces[k + i]
  <2>1. \A i \in k + 1 .. Len(pieces) : pieces[i] \in Piece
    BY <1>1
  <2>2. /\ rest \in Seq(Piece)
        /\ Len(rest) = IF k + 1 <= Len(pieces) THEN Len(pieces) - (k + 1) + 1 ELSE 0
        /\ \A i \in 1 .. Len(pieces) - (k + 1) + 1 : rest[i] = pieces[k + 1 + i - 1]
    BY <2>1, <1>1, SubSeqProperties
  <2> QED BY <2>2, <1>1
<1>4. disk' = disk \o out /\ stdio' \in {rest, <<>>}
  BY DEF WriteOut
<1>5. ~write_failed' => ~write_failed /\ stdio' = rest
  BY DEF WriteOut
<1> HIDE DEF out, rest
<1>6. /\ disk' \in Seq(Piece) /\ Len(disk') = Len(disk) + k
      /\ \A i \in 1 .. Len(disk) + k :
            disk'[i] = IF i <= Len(disk) THEN disk[i] ELSE pieces[i - Len(disk)]
  <2>1. /\ disk \o out \in Seq(Piece) /\ Len(disk \o out) = Len(disk) + Len(out)
        /\ \A i \in 1 .. Len(disk) + Len(out) :
              (disk \o out)[i] = IF i <= Len(disk) THEN disk[i] ELSE out[i - Len(disk)]
    BY <1>1, <1>2, ConcatProperties
  <2>2. \A i \in 1 .. Len(disk) + k : ~(i <= Len(disk)) => i - Len(disk) \in 1 .. k
    BY <1>1
  <2>3. disk' = disk \o out
    BY <1>4
  <2> QED BY <1>1, <1>2, <2>1, <2>2, <2>3
<1>7. /\ Len(disk \o pieces) = Len(disk) + Len(pieces)
      /\ \A i \in 1 .. Len(disk) + Len(pieces) :
            (disk \o pieces)[i] = IF i <= Len(disk) THEN disk[i] ELSE pieces[i - Len(disk)]
  BY ConcatProperties
<1>10. IsPart(disk, disk')
  BY <1>1, <1>6 DEF IsPart
<1>8. CASE stdio' = rest
  <2>1. /\ Len(Whole') = Len(disk) + Len(pieces)
        /\ \A i \in 1 .. Len(disk) + Len(pieces) :
              Whole'[i] = IF i <= Len(disk) + k THEN disk'[i] ELSE rest[i - (Len(disk) + k)]
    <3>1. /\ Len(disk' \o rest) = Len(disk') + Len(rest)
          /\ \A i \in 1 .. Len(disk') + Len(rest) :
                (disk' \o rest)[i] = IF i <= Len(disk') THEN disk'[i] ELSE rest[i - Len(disk')]
      BY <1>3, <1>6, ConcatProperties
    <3>2. Len(disk') + Len(rest) = Len(disk) + Len(pieces) /\ Len(disk') = Len(disk) + k
      BY <1>1, <1>3, <1>6
    <3>3. Whole' = disk' \o rest
      BY <1>8 DEF Whole
    <3> QED BY <3>1, <3>2, <3>3
  <2>2. \A i \in 1 .. Len(disk) + Len(pieces) : Whole'[i] = (disk \o pieces)[i]
    <3> TAKE i \in 1 .. Len(disk) + Len(pieces)
    <3>1. CASE i <= Len(disk) + k
      BY <1>1, <1>6, <1>7, <2>1, <3>1
    <3>2. CASE i > Len(disk) + k
      <4>1. i - (Len(disk) + k) \in 1 .. Len(pieces) - k
        BY <1>1, <3>2
      <4>2. rest[i - (Len(disk) + k)] = pieces[k + (i - (Len(disk) + k))]
        BY <1>3, <4>1
      <4>3. k + (i - (Len(disk) + k)) = i - Len(disk)
        BY <1>1
      <4> QED BY <1>1, <1>7, <2>1, <3>2, <4>2, <4>3
    <3> QED BY <1>1, <3>1, <3>2
  <2> QED BY <1>1, <1>5, <1>6, <1>7, <1>10, <2>1, <2>2 DEF IsPart
<1>9. CASE stdio' = <<>> /\ stdio' # rest
  <2>1. Whole' = disk'
    BY <1>6, <1>9, ConcatEmptySeq DEF Whole
  <2> QED BY <1>1, <1>5, <1>6, <1>7, <1>9, <1>10, <2>1 DEF IsPart
<1> QED BY <1>4, <1>8, <1>9

(* A write adds one piece, or loses some from the end. *)
LEMMA FwritePart ==
  ASSUME TypeOK, NEW piece \in Piece, Fwrite(piece)
  PROVE  /\ IsPart(Whole', Append(Whole, piece))
         /\ Len(disk) <= Len(disk') /\ DiskGrows
         /\ ~write_failed' => ~write_failed /\ Len(Whole') = Len(Whole) + 1
<1>1. /\ stdio \in Seq(Piece) /\ disk \in Seq(Piece) /\ write_failed \in BOOLEAN
      /\ Len(stdio) \in Nat /\ Len(disk) \in Nat
  BY LenProperties DEF TypeOK
<1> DEFINE pieces == Append(stdio, piece)
<1>2. /\ pieces \in Seq(Piece) /\ Len(pieces) = Len(stdio) + 1
      /\ \A i \in 1 .. Len(stdio) : pieces[i] = stdio[i]
      /\ pieces[Len(stdio) + 1] = piece
  BY <1>1, AppendProperties
<1>3. \/ stdio' = pieces /\ UNCHANGED <<disk, write_failed>>
      \/ \E k \in 0 .. Len(pieces) : WriteOut(pieces, k)
  <2>1. Len(pieces) \in Nat
    BY <1>1, <1>2
  <2> QED BY <2>1 DEF Fwrite
<1> HIDE DEF pieces
<1>4. disk \o pieces = Append(Whole, piece) /\ Len(Whole) = Len(disk) + Len(stdio)
  <2>1. /\ disk \o pieces \in Seq(Piece) /\ Len(disk \o pieces) = Len(disk) + Len(stdio) + 1
        /\ \A i \in 1 .. Len(disk) + Len(pieces) :
              (disk \o pieces)[i] = IF i <= Len(disk) THEN disk[i] ELSE pieces[i - Len(disk)]
    <3>1. /\ disk \o pieces \in Seq(Piece) /\ Len(disk \o pieces) = Len(disk) + Len(pieces)
          /\ \A i \in 1 .. Len(disk) + Len(pieces) :
                (disk \o pieces)[i] = IF i <= Len(disk) THEN disk[i] ELSE pieces[i - Len(disk)]
      BY <1>1, <1>2, ConcatProperties
    <3> QED BY <1>1, <1>2, <3>1
  <2>2. /\ Whole \in Seq(Piece) /\ Len(Whole) = Len(disk) + Len(stdio)
        /\ \A i \in 1 .. Len(disk) + Len(stdio) :
              Whole[i] = IF i <= Len(disk) THEN disk[i] ELSE stdio[i - Len(disk)]
    BY <1>1, ConcatProperties DEF Whole
  <2>3. /\ Append(Whole, piece) \in Seq(Piece) /\ Len(Append(Whole, piece)) = Len(Whole) + 1
        /\ \A i \in 1 .. Len(Whole) : Append(Whole, piece)[i] = Whole[i]
        /\ Append(Whole, piece)[Len(Whole) + 1] = piece
    BY <2>2, AppendProperties
  <2>4. ASSUME NEW i \in 1 .. Len(disk \o pieces)
        PROVE  (disk \o pieces)[i] = Append(Whole, piece)[i]
    <3>1. i \in 1 .. Len(disk) + Len(stdio) + 1
      BY <2>1
    <3>2. CASE i <= Len(disk)
      BY <1>1, <1>2, <2>1, <2>2, <2>3, <3>1, <3>2
    <3>3. CASE i > Len(disk) /\ i <= Len(disk) + Len(stdio)
      <4>1. i - Len(disk) \in 1 .. Len(stdio)
        BY <1>1, <3>1, <3>3
      <4>2. Append(Whole, piece)[i] = stdio[i - Len(disk)]
        BY <1>1, <2>2, <2>3, <3>1, <3>3
      <4>3. (disk \o pieces)[i] = pieces[i - Len(disk)]
        BY <1>1, <1>2, <2>1, <3>1, <3>3
      <4> QED BY <4>1, <4>2, <4>3, <1>2
    <3>4. CASE i = Len(disk) + Len(stdio) + 1
      <4>1. i - Len(disk) = Len(stdio) + 1 /\ ~(i <= Len(disk))
        BY <1>1, <3>4
      <4>2. (disk \o pieces)[i] = pieces[i - Len(disk)]
        BY <1>1, <1>2, <2>1, <3>1, <4>1
      <4> QED BY <4>1, <4>2, <1>2, <2>2, <2>3, <3>4
    <3>5. i <= Len(disk) \/ (i > Len(disk) /\ i <= Len(disk) + Len(stdio))
                        \/ i = Len(disk) + Len(stdio) + 1
      BY <1>1, <3>1
    <3> QED BY <3>2, <3>3, <3>4, <3>5
  <2> QED BY <2>1, <2>2, <2>3, <2>4, SeqEqual
<1>5. CASE stdio' = pieces /\ UNCHANGED <<disk, write_failed>>
  <2>1. Whole' = Append(Whole, piece) /\ disk' = disk
    BY <1>4, <1>5 DEF Whole
  <2>2. Len(Append(Whole, piece)) = Len(Whole) + 1 /\ Len(Whole) \in Nat
    BY <1>1, <1>4, ConcatProperties, AppendProperties DEF Whole
  <2> QED BY <1>1, <1>5, <2>1, <2>2 DEF IsPart, DiskGrows
<1>6. CASE \E k \in 0 .. Len(pieces) : WriteOut(pieces, k)
  <2>1. PICK k \in 0 .. Len(pieces) : WriteOut(pieces, k)
    BY <1>6
  <2>2. /\ IsPart(Whole', Append(Whole, piece)) /\ Len(disk') = Len(disk) + k
        /\ IsPart(disk, disk')
        /\ ~write_failed' => ~write_failed /\ Len(Whole') = Len(disk) + Len(pieces)
    BY <1>1, <1>2, <1>4, <2>1, WriteOutPart
  <2>3. k \in Nat
    BY <1>1, <1>2
  <2> QED BY <1>1, <1>2, <1>4, <2>2, <2>3 DEF DiskGrows
<1> QED BY <1>3, <1>5, <1>6

LEMMA FflushPart ==
  ASSUME TypeOK, Fflush
  PROVE  /\ IsPart(Whole', Whole)
         /\ Len(disk) <= Len(disk') /\ DiskGrows
         /\ ~write_failed' => ~write_failed /\ Len(Whole') = Len(Whole)
                                            /\ Len(disk') = Len(Whole)
<1>1. /\ stdio \in Seq(Piece) /\ disk \in Seq(Piece) /\ write_failed \in BOOLEAN
      /\ Len(stdio) \in Nat /\ Len(disk) \in Nat
      /\ Len(Whole) = Len(disk) + Len(stdio)
  BY LenProperties, ConcatProperties DEF TypeOK, Whole
<1>2. CASE stdio = <<>> /\ UNCHANGED file
  <2>1. Whole' = Whole /\ disk' = disk /\ write_failed' = write_failed /\ Len(stdio) = 0
    BY <1>2, EmptySeq DEF file, Whole
  <2> QED BY <1>1, <2>1 DEF IsPart, DiskGrows
<1>3. CASE ~disk_full /\ WriteOut(stdio, Len(stdio))
  <2>1. Len(stdio) \in 0 .. Len(stdio)
    BY <1>1
  <2> QED BY <1>1, <1>3, <2>1, WriteOutPart DEF Whole, DiskGrows
<1>4. CASE disk_full /\ \E k \in 0 .. Len(stdio) - 1 : WriteOut(stdio, k)
  <2>1. PICK k \in 0 .. Len(stdio) - 1 : WriteOut(stdio, k)
    BY <1>4
  <2>2. k \in 0 .. Len(stdio) /\ write_failed'
    BY <1>1, <1>4, <2>1 DEF WriteOut
  <2> QED BY <1>1, <2>1, <2>2, WriteOutPart DEF Whole, DiskGrows
<1> QED BY <1>2, <1>3, <1>4 DEF Fflush

LEMMA FileTypes ==
  ASSUME TypeOK
  PROVE  /\ Whole \in Seq(Piece) /\ Len(Whole) \in Nat /\ Len(disk) \in Nat
         /\ Len(Whole) = Len(disk) + Len(stdio)
         /\ Len(captured) \in Nat /\ Put \in Nat /\ 1 <= Put
<1>1. /\ stdio \in Seq(Piece) /\ disk \in Seq(Piece)
      /\ Len(stdio) \in Nat /\ Len(disk) \in Nat /\ Len(captured) \in Nat
  BY LenProperties DEF TypeOK
<1>2. Whole \in Seq(Piece) /\ Len(Whole) = Len(disk) + Len(stdio)
  BY <1>1, ConcatProperties DEF Whole
<1> QED BY <1>1, <1>2 DEF Put

(* A step that leaves the file alone and is in no haste. *)
LEMMA FileKept ==
  ASSUME FileInv, UNCHANGED <<file, fp>>, Put' = Put,
         \/ UNCHANGED <<pc, captured>>
         \/ UNCHANGED captured /\ pc' \notin {"setup", "die", "count", "done"}
                               /\ (pc' \in {"record header", "packet", "flush"} => fp = "open")
  PROVE  FileInv'
<1>1. Whole' = Whole /\ disk' = disk /\ write_failed' = write_failed /\ fp' = fp
  BY DEF file, Whole
<1>2. Everything'
  BY <1>1 DEF FileInv, Everything, IsFile
<1>3. FileFits'
  BY <1>1 DEF FileInv, FileFits
<1> QED BY <1>2, <1>3 DEF FileInv

LEMMA FilePut ==
  ASSUME FileInv, TypeOK, TypeOK', UNCHANGED <<fp, captured>>, Put' = Put + 1, fp = "open",
         pc' \in {"packet", "flush"},
         NEW piece \in Piece, Fwrite(piece),
         \A p \in 1 .. MaxPackets : /\ 2 * p = Put + 1 => piece = RecordHeader(p)
                                    /\ 2 * p + 1 = Put + 1 => piece = PacketBytes(p)
  PROVE  FileInv'
<1>1. /\ IsPart(Whole', Append(Whole, piece))
      /\ Len(disk) <= Len(disk')
      /\ ~write_failed' => ~write_failed /\ Len(Whole') = Len(Whole) + 1
  BY FwritePart
<1>2. /\ Whole \in Seq(Piece) /\ Len(Whole) \in Nat /\ Len(disk) \in Nat
      /\ Len(captured) \in Nat /\ Put \in Nat /\ 1 <= Put
  BY FileTypes
<1>3. Len(Whole') \in Nat /\ Len(disk') \in Nat
  BY FileTypes
<1> DEFINE g == Append(Whole, piece)
<1>4. /\ Len(g) = Len(Whole) + 1 /\ g[Len(Whole) + 1] = piece
      /\ \A i \in 1 .. Len(Whole) : g[i] = Whole[i]
  BY <1>2, AppendProperties
<1> HIDE DEF g
<1>6. Everything'
  <2> SUFFICES ASSUME ~write_failed'
               PROVE  /\ IsFile(Whole, Put)'
                      /\ Len(captured') > 0 => 2 * Len(captured') + 1 <= Len(disk')
    BY DEF Everything
  <2>1. ~write_failed /\ Len(Whole') = Len(g)
    BY <1>1, <1>4
  <2>2. \A i \in 1 .. Len(g) : Whole'[i] = g[i]
    BY <1>1, <2>1 DEF IsPart, g
  <2>3. IsFile(Whole, Put) /\ (Len(captured) > 0 => 2 * Len(captured) + 1 <= Len(disk))
    BY <2>1 DEF FileInv, Everything
  <2>4. Len(Whole) = Put /\ Len(g) = Put + 1 /\ g[Put + 1] = piece
        /\ \A i \in 1 .. Put : g[i] = Whole[i]
    BY <1>2, <1>4, <2>3 DEF IsFile
  <2>5. Whole'[1] = FileHeader
    <3>1. 1 \in 1 .. Put /\ 1 \in 1 .. Put + 1
      BY <1>2
    <3> QED BY <2>2, <2>3, <2>4, <3>1 DEF IsFile
  <2>6. ASSUME NEW p \in 1 .. MaxPackets
        PROVE  /\ 2 * p <= Put + 1 => Whole'[2 * p] = RecordHeader(p)
               /\ 2 * p + 1 <= Put + 1 => Whole'[2 * p + 1] = PacketBytes(p)
    <3>1. 2 * p \in Nat /\ 1 <= 2 * p /\ 2 * p + 1 \in Nat /\ 1 <= 2 * p + 1
      OBVIOUS
    <3>2. /\ 2 * p <= Put => Whole[2 * p] = RecordHeader(p)
          /\ 2 * p + 1 <= Put => Whole[2 * p + 1] = PacketBytes(p)
      BY <2>3 DEF IsFile
    <3>5. \A j \in Nat : 1 <= j /\ j <= Put + 1 =>
            /\ j = Put + 1 => Whole'[j] = piece
            /\ j # Put + 1 => j <= Put /\ Whole'[j] = Whole[j]
      BY <1>2, <2>2, <2>4
    <3>3. ASSUME 2 * p <= Put + 1 PROVE Whole'[2 * p] = RecordHeader(p)
      <4>1. CASE 2 * p = Put + 1
        BY <3>1, <3>5, <4>1
      <4>2. CASE 2 * p # Put + 1
        BY <3>1, <3>2, <3>3, <3>5, <4>2
      <4> QED BY <4>1, <4>2
    <3>4. ASSUME 2 * p + 1 <= Put + 1 PROVE Whole'[2 * p + 1] = PacketBytes(p)
      <4>1. CASE 2 * p + 1 = Put + 1
        BY <3>1, <3>5, <4>1
      <4>2. CASE 2 * p + 1 # Put + 1
        BY <3>1, <3>2, <3>4, <3>5, <4>2
      <4> QED BY <4>1, <4>2
    <3> QED BY <3>3, <3>4
  <2>7. IsFile(Whole, Put)'
    BY <1>2, <2>1, <2>4, <2>5, <2>6 DEF IsFile
  <2>8. Len(captured') > 0 => 2 * Len(captured') + 1 <= Len(disk')
    BY <1>1, <1>2, <1>3, <2>3
  <2> QED BY <2>7, <2>8
<1>7. FileFits'
  BY DEF FileFits
<1> QED BY <1>6, <1>7 DEF FileInv

LEMMA FileFlushed ==
  ASSUME FileInv, TypeOK, TypeOK', UNCHANGED <<fp, captured>>, Put' = Put, fp = "open",
         pc' \in {"count", "done"}, Fflush
  PROVE  FileInv'
<1>1. /\ IsPart(Whole', Whole)
      /\ Len(disk) <= Len(disk')
      /\ ~write_failed' => /\ ~write_failed /\ Len(Whole') = Len(Whole)
                           /\ Len(disk') = Len(Whole)
  BY FflushPart
<1>2. Len(Whole) \in Nat /\ Len(disk) \in Nat /\ Len(captured) \in Nat /\ Put \in Nat /\ 1 <= Put
  BY FileTypes
<1>3. Len(Whole') \in Nat /\ Len(disk') \in Nat
  BY FileTypes
<1>5. Everything'
  <2> SUFFICES ASSUME ~write_failed'
               PROVE  /\ IsFile(Whole, Put)'
                      /\ Len(captured') > 0 => 2 * Len(captured') + 1 <= Len(disk')
                      /\ Len(disk') = Put'
    BY DEF Everything
  <2>1. IsFile(Whole, Put) /\ (Len(captured) > 0 => 2 * Len(captured) + 1 <= Len(disk))
    BY <1>1 DEF FileInv, Everything
  <2>2. Len(Whole) = Put /\ Len(Whole') = Put /\ Len(disk') = Put
    BY <1>1, <2>1 DEF IsFile
  <2>3. \A i \in 1 .. Put : Whole'[i] = Whole[i]
    BY <1>1, <2>2 DEF IsPart
  <2>4. Whole'[1] = FileHeader
    BY <1>2, <2>1, <2>3 DEF IsFile
  <2>5. \A p \in 1 .. MaxPackets : /\ 2 * p <= Put => Whole'[2 * p] = RecordHeader(p)
                                   /\ 2 * p + 1 <= Put => Whole'[2 * p + 1] = PacketBytes(p)
    BY <1>2, <2>1, <2>3 DEF IsFile
  <2>6. IsFile(Whole, Put)'
    BY <2>2, <2>4, <2>5 DEF IsFile
  <2> QED BY <1>1, <1>2, <1>3, <2>1, <2>2, <2>6
<1>6. FileFits'
  BY DEF FileFits
<1> QED BY <1>5, <1>6 DEF FileInv

LEMMA NoFile ==
  ASSUME Whole' = <<>>, fp' = "none", ~write_failed',
         pc' \notin {"record header", "packet", "flush"}
  PROVE  FileInv'
BY DEF FileInv, Everything, FileFits

LEMMA FileInit == Init => FileInv
<1> SUFFICES ASSUME Init PROVE FileInv
  OBVIOUS
<1>1. Whole = <<>> /\ Len(Whole) = 0 /\ fp = "none" /\ pc = "setup"
  BY DEF Init, Whole
<1> QED BY <1>1 DEF Init, FileInv, Everything, FileFits

LEMMA FileStep ==
  ASSUME IInv, IInv', FileInv, [Next]_vars
  PROVE  FileInv'
<1>a. /\ TypeOK /\ TypeOK' /\ fp \in {"none", "open"}
      /\ buf \in 0 .. received /\ received \in 0 .. MaxPackets
      /\ captured \in Seq(1 .. received) /\ write_failed \in BOOLEAN
  <2>1. TypeOK /\ TypeOK' /\ SocketTypeOK
    BY DEF IInv, TypeInv, TypeOK
  <2> QED BY <2>1 DEF TypeOK, SocketTypeOK
<1>b. Len(captured) \in Nat /\ Put \in Nat /\ 1 <= Put
  BY <1>a, FileTypes
<1>1. CASE OpenSocket \/ Network \/ DiskFillsOrEmpties \/ UNCHANGED vars
  <2>1. UNCHANGED <<pc, captured, file, fp>>
    BY <1>1 DEF OpenSocket, Network, DiskFillsOrEmpties, vars
  <2> QED BY <2>1, FileKept DEF Put
<1>2. CASE HeadPolls \/ PollReturns \/ PollTimesOut \/ HandleSigint
  <2>1. CASE HandleSigint /\ pc' = pc
    <3>1. UNCHANGED <<pc, captured, file, fp>>
      BY <2>1 DEF HandleSigint
    <3> QED BY <3>1, FileKept DEF Put
  <2>2. CASE ~(HandleSigint /\ pc' = pc)
    <3>1. UNCHANGED <<captured, file, fp>> /\ pc \in {"head", "poll"}
          /\ pc' \in {"head", "poll", "recv"}
      BY <1>2, <2>2 DEF HeadPolls, PollReturns, PollTimesOut, HandleSigint, Goto
    <3> QED BY <3>1, FileKept DEF Put
  <2> QED BY <2>1, <2>2
<1>3. CASE OpenFile
  <2>1. /\ UNCHANGED <<captured, disk, write_failed>> /\ pc = "setup" /\ pc' \in {"head", "die"}
        /\ \/ UNCHANGED <<fp, stdio>>
           \/ pc' = "head" /\ fp' = "open" /\ stdio' = <<FileHeader>>
    BY <1>3 DEF OpenFile
  <2>2. fp = "none" /\ Whole = <<>> /\ ~write_failed /\ captured = <<>>
    <3>1. fp = "none" /\ Whole = <<>> /\ ~write_failed
      BY <2>1 DEF FileInv, FileFits
    <3>2. Len(captured) = 0
      BY <2>1 DEF IInv, StageFits, NothingLostInside
    <3> QED BY <1>a, <3>1, <3>2, EmptySeq
  <2>3. CASE UNCHANGED <<fp, stdio>>
    <3>1. Whole' = <<>> /\ fp' = "none" /\ ~write_failed' /\ pc' \in {"head", "die"}
      BY <2>1, <2>2, <2>3 DEF Whole
    <3> QED BY <3>1, NoFile
  <2>4. CASE pc' = "head" /\ fp' = "open" /\ stdio' = <<FileHeader>>
    <3>1. disk = <<>>
      <4>1. Len(Whole) = 0 /\ Len(Whole) = Len(disk) + Len(stdio) /\ disk \in Seq(Piece)
            /\ Len(disk) \in Nat /\ Len(stdio) \in Nat
        BY <1>a, <2>2, FileTypes, LenProperties, EmptySeq DEF TypeOK
      <4> DEFINE d == Len(disk)
                 b == Len(stdio)
      <4>2. d \in Nat /\ b \in Nat /\ d + b = 0
        BY <4>1
      <4> HIDE DEF d, b
      <4>3. d = 0
        BY <4>2
      <4> QED BY <4>1, <4>3, EmptySeq DEF d
    <3>2. Whole' = <<FileHeader>>
      <4>1. <<FileHeader>> \in Seq(Piece)
        BY PieceFacts
      <4> QED BY <2>1, <2>4, <3>1, <4>1, ConcatEmptySeq DEF Whole
    <3>3. Len(Whole') = 1 /\ Whole'[1] = FileHeader /\ Put' = 1 /\ Len(captured') = 0
      BY <2>1, <2>2, <2>4, <3>2 DEF Put
    <3>5. Everything'
      BY <2>4, <3>3 DEF Everything, IsFile
    <3>6. FileFits'
      BY <2>4 DEF FileFits
    <3> QED BY <3>5, <3>6 DEF FileInv
  <2> QED BY <2>1, <2>3, <2>4
<1>4. CASE HeadLeaves
  <2>1. UNCHANGED <<captured, fp>> /\ pc = "head" /\ pc' = "done"
        /\ IF fp = "open" THEN Fflush ELSE UNCHANGED file
    BY <1>4 DEF HeadLeaves
  <2>2. Put' = Put
    BY <2>1 DEF Put
  <2>3. CASE fp = "open"
    BY <1>a, <2>1, <2>2, <2>3, FileFlushed
  <2>4. CASE fp = "none"
    <3>1. Whole' = Whole /\ Whole = <<>> /\ fp' = "none" /\ pc' = "done" /\ ~write_failed'
      BY <2>1, <2>4 DEF FileInv, FileFits, Whole, file
    <3> QED BY <3>1, NoFile
  <2> QED BY <1>a, <2>3, <2>4
<1>5. CASE Recv
  <2>1. /\ UNCHANGED <<captured, fp, file>> /\ pc = "recv"
        /\ pc' = "head" \/ pc' = IF fp = "open" THEN "record header" ELSE "count"
    BY <1>5 DEF Recv, Goto
  <2>2. CASE pc' = "head" \/ fp = "open"
    <3>1. pc' \in {"head", "record header"} /\ (pc' = "record header" => fp = "open")
      BY <2>1, <2>2
    <3>2. Put' = Put
      BY <2>1, <3>1 DEF Put
    <3> QED BY <2>1, <3>1, <3>2, FileKept
  <2>3. CASE pc' # "head" /\ fp # "open"
    <3>1. Whole' = Whole /\ Whole = <<>> /\ fp' = "none" /\ pc' = "count" /\ ~write_failed'
      BY <1>a, <2>1, <2>3 DEF FileInv, FileFits, Whole, file
    <3> QED BY <3>1, NoFile
  <2> QED BY <2>2, <2>3
<1>6. CASE WriteRecordHeader \/ WritePacket
  <2>1. /\ UNCHANGED <<captured, fp>> /\ fp = "open"
        /\ \/ pc = "record header" /\ pc' = "packet" /\ Fwrite(RecordHeader(buf))
           \/ pc = "packet" /\ pc' = "flush" /\ Fwrite(PacketBytes(buf))
    BY <1>6 DEF WriteRecordHeader, WritePacket, Goto, FileInv, FileFits
  <2>2. buf = Len(captured) + 1 /\ buf \in 0 .. MaxPackets
    <3>1. InHand = 1
      BY <2>1 DEF InHand
    <3>2. buf = Len(captured) + 1
      BY <3>1 DEF IInv, NothingLostInside
    <3> QED BY <1>a, <3>2
  <2>3. CASE pc = "record header"
    <3>1. Put = 2 * Len(captured) + 1 /\ Put' = Put + 1
      <4>1. pc' = "packet" /\ captured' = captured
        BY <2>1, <2>3
      <4>2. Put = 2 * Len(captured) + 1 + 0
        BY <2>3 DEF Put
      <4>3. Put' = 2 * Len(captured) + 1 + 1
        BY <4>1 DEF Put
      <4> QED BY <1>b, <4>2, <4>3
    <3>2. RecordHeader(buf) \in Piece
      BY <2>2, PieceFacts
    <3>3. \A p \in 1 .. MaxPackets : /\ 2 * p = Put + 1 => p = buf
                                     /\ 2 * p + 1 # Put + 1
      BY <1>b, <2>2, <3>1
    <3> QED BY <1>a, <2>1, <2>3, <3>1, <3>2, <3>3, FilePut
  <2>4. CASE pc = "packet"
    <3>1. Put = 2 * Len(captured) + 2 /\ Put' = Put + 1
      BY <1>b, <2>1, <2>4 DEF Put
    <3>2. PacketBytes(buf) \in Piece
      BY <2>2, PieceFacts
    <3>3. \A p \in 1 .. MaxPackets : /\ 2 * p # Put + 1
                                     /\ 2 * p + 1 = Put + 1 => p = buf
      BY <1>b, <2>2, <3>1
    <3> QED BY <1>a, <2>1, <2>4, <3>1, <3>2, <3>3, FilePut
  <2> QED BY <2>1, <2>3, <2>4
<1>7. CASE Flush
  <2>1. UNCHANGED <<captured, fp>> /\ fp = "open" /\ pc = "flush" /\ pc' = "count" /\ Fflush
    BY <1>7 DEF Flush, Goto, FileInv, FileFits
  <2>2. Put' = Put
    BY <2>1 DEF Put
  <2> QED BY <1>a, <2>1, <2>2, FileFlushed
<1>8. CASE CountPacket
  <2>1. /\ UNCHANGED <<file, fp>> /\ pc = "count" /\ pc' = "head"
        /\ captured' = Append(captured, buf)
    BY <1>8 DEF CountPacket
  <2>2. Len(captured') = Len(captured) + 1
    <3>1. captured' \in Seq(1 .. received') /\ Len(captured') = packets_captured'
          /\ packets_captured' = packets_captured + 1 /\ packets_captured = Len(captured)
      BY <1>a, <1>8 DEF CountPacket, IInv, NothingLostInside, TypeOK
    <3> QED BY <3>1
  <2>3. Put' = Put /\ Put = 2 * Len(captured') + 1
    BY <1>b, <2>1, <2>2 DEF Put
  <2>4. Whole' = Whole /\ disk' = disk /\ write_failed' = write_failed /\ fp' = fp
    BY <2>1 DEF file, Whole
  <2>5. Everything'
    BY <1>b, <2>1, <2>3, <2>4 DEF FileInv, Everything, IsFile
  <2>6. FileFits'
    BY <2>1, <2>4 DEF FileInv, FileFits
  <2> QED BY <2>5, <2>6 DEF FileInv
<1> QED BY <1>1, <1>2, <1>3, <1>4, <1>5, <1>6, <1>7, <1>8 DEF Next, Process, Terminated

LEMMA FileInvariant == Spec => [](IInv /\ FileInv)
<1>1. Init => IInv /\ FileInv
  BY IInvInit, FileInit
<1>2. IInv /\ FileInv /\ [Next]_vars => IInv' /\ FileInv'
  BY IInvStep, FileStep
<1> QED BY <1>1, <1>2, PTL DEF Spec

(* The file is the initial part of what was written. *)
LEMMA DiskIsPart ==
  ASSUME TypeOK
  PROVE  /\ Len(disk) \in Nat /\ Len(disk) <= Len(Whole) /\ Len(Whole) \in Nat
         /\ \A i \in 1 .. Len(disk) : i \in 1 .. Len(Whole) /\ disk[i] = Whole[i]
<1>1. /\ disk \in Seq(Piece) /\ stdio \in Seq(Piece)
      /\ Len(disk) \in Nat /\ Len(stdio) \in Nat
  BY LenProperties DEF TypeOK
<1>2. /\ Len(Whole) = Len(disk) + Len(stdio)
      /\ \A i \in 1 .. Len(disk) + Len(stdio) :
            Whole[i] = IF i <= Len(disk) THEN disk[i] ELSE stdio[i - Len(disk)]
  BY <1>1, ConcatProperties DEF Whole
<1> QED BY <1>1, <1>2

(* As long as no write failed, the packets counted are on the disk.        *)
LEMMA CountedOnDisk ==
  ASSUME IInv, FileInv, fp = "open", ~write_failed
  PROVE  /\ Len(captured) \in Nat /\ Len(disk) \in Nat
         /\ Len(captured) > 0 => 2 * Len(captured) + 1 <= Len(disk)
         /\ \A i \in 1 .. MaxPackets :
              2 * i + 1 <= Len(disk) => /\ disk[2 * i] = RecordHeader(i)
                                        /\ disk[2 * i + 1] = PacketBytes(i)
         /\ Len(disk) <= 2 * MaxPackets + 1
         /\ pc = "done" => Len(disk) = 2 * Len(captured) + 1
<1>1. /\ TypeOK /\ received \in 0 .. MaxPackets /\ MaxPackets \in Nat
      /\ Len(captured) \in Nat /\ Len(captured) + InHand <= received
  <2>1. TypeOK /\ SocketTypeOK /\ NothingLostInside
    BY DEF IInv, TypeInv, TypeOK
  <2>2. captured \in Seq(1 .. received) /\ received \in 0 .. MaxPackets
    BY <2>1 DEF TypeOK, SocketTypeOK
  <2>3. InBuffer \in Nat /\ fetched \in Nat /\ fetched <= received /\ InHand \in {0, 1}
        /\ received \in Nat
    BY <2>1 DEF SocketTypeOK, InBuffer, InHand
  <2>4. Len(captured) + InHand + InBuffer = fetched /\ Len(captured) \in Nat
    BY <2>1, <2>2, LenProperties DEF NothingLostInside
  <2> QED BY <2>1, <2>2, <2>3, <2>4, SocketAssumption
<1> DEFINE L == Len(captured)
<1>2. /\ IsFile(Whole, Put) /\ (L > 0 => 2 * L + 1 <= Len(disk))
      /\ pc = "done" => Len(disk) = Put /\ Put = 2 * L + 1
  <2>1. pc = "done" => Put = 2 * L + 1 + 0
    BY DEF Put
  <2> QED BY <1>1, <2>1 DEF FileInv, Everything
<1>3. /\ Len(disk) \in Nat /\ Len(disk) <= Put /\ Put \in Nat
      /\ \A i \in 1 .. Len(disk) : disk[i] = Whole[i]
  BY <1>1, <1>2, DiskIsPart, FileTypes DEF IsFile
<1>4. Put <= 2 * MaxPackets + 1
  <2>1. CASE InHand = 1
    <3>1. Put = 2 * L + 1 + 0 \/ Put = 2 * L + 1 + 1 \/ Put = 2 * L + 1 + 2
      BY DEF Put
    <3> QED BY <1>1, <2>1, <3>1
  <2>2. CASE InHand = 0
    <3>1. Put = 2 * L + 1 + 0
      BY <2>2 DEF Put, InHand
    <3> QED BY <1>1, <2>2, <3>1
  <2> QED BY <2>1, <2>2 DEF InHand
<1>5. ASSUME NEW i \in 1 .. MaxPackets, 2 * i + 1 <= Len(disk)
      PROVE  disk[2 * i] = RecordHeader(i) /\ disk[2 * i + 1] = PacketBytes(i)
  <2>1. 2 * i \in 1 .. Len(disk) /\ 2 * i + 1 \in 1 .. Len(disk)
    BY <1>1, <1>3, <1>5
  <2>2. 2 * i <= Put /\ 2 * i + 1 <= Put
    BY <1>1, <1>3, <1>5
  <2>3. Whole[2 * i] = RecordHeader(i) /\ Whole[2 * i + 1] = PacketBytes(i)
    BY <1>2, <2>2 DEF IsFile
  <2>4. disk[2 * i] = Whole[2 * i] /\ disk[2 * i + 1] = Whole[2 * i + 1]
    BY <1>3, <2>1
  <2> QED BY <2>3, <2>4
<1>6. L \in Nat /\ Len(disk) \in Nat /\ Len(disk) <= 2 * MaxPackets + 1
  BY <1>1, <1>3, <1>4
<1>7. (L > 0 => 2 * L + 1 <= Len(disk)) /\ (pc = "done" => Len(disk) = 2 * L + 1)
  BY <1>2
<1> QED BY <1>5, <1>6, <1>7

(* What was counted before a write failed is on the disk for good.         *)
OnDisk(p) == /\ 2 * p + 1 <= Len(disk)
             /\ disk[2 * p] = RecordHeader(p) /\ disk[2 * p + 1] = PacketBytes(p)

SafeIsCounted == ~write_failed => safe = captured
SafeOnDisk    == fp = "open" => \A i \in 1 .. Len(safe) : safe[i] = i /\ OnDisk(i)

LEMMA CountedIsSafe ==
  IInv /\ FileInv /\ ~write_failed /\ SafeIsCounted => SafeOnDisk
<1> SUFFICES ASSUME IInv, FileInv, ~write_failed, safe = captured PROVE SafeOnDisk
  BY DEF SafeIsCounted
<1>1. ASSUME fp = "open", NEW i \in 1 .. Len(captured) PROVE captured[i] = i /\ OnDisk(i)
  <2>1. captured[i] = i /\ Len(captured) <= received /\ received \in 0 .. MaxPackets
        /\ Len(captured) \in Nat
    <3>1. TypeOK /\ SocketTypeOK /\ NothingLostInside
      BY DEF IInv, TypeInv, TypeOK
    <3>2. captured \in Seq(1 .. received) /\ received \in 0 .. MaxPackets
      BY <3>1 DEF TypeOK, SocketTypeOK
    <3>3. InBuffer \in Nat /\ fetched \in Nat /\ fetched <= received /\ InHand \in {0, 1}
          /\ received \in Nat
      BY <3>1 DEF SocketTypeOK, InBuffer, InHand
    <3>4. Len(captured) + InHand + InBuffer = fetched /\ Len(captured) \in Nat
      BY <3>1, <3>2, LenProperties DEF NothingLostInside
    <3> QED BY <1>1, <3>1, <3>2, <3>3, <3>4 DEF NothingLostInside
  <2>2. i \in 1 .. MaxPackets
    BY <2>1
  <2>3. 2 * i + 1 <= Len(disk)
    BY <1>1, <2>1, CountedOnDisk
  <2> QED BY <1>1, <2>1, <2>2, <2>3, CountedOnDisk DEF OnDisk
<1> QED BY <1>1 DEF SafeOnDisk

(* Every step keeps what is on the disk.                                   *)
LEMMA DiskStep == TypeInv /\ [Next]_vars => DiskGrows
<1> SUFFICES ASSUME TypeInv, [Next]_vars PROVE DiskGrows
  OBVIOUS
<1>1. TypeOK /\ buf \in 0 .. MaxPackets /\ Len(disk) \in Nat
  <2>1. TypeOK /\ buf \in 0 .. received /\ received \in 0 .. MaxPackets /\ disk \in Seq(Piece)
    BY DEF TypeInv, TypeOK, SocketTypeOK
  <2>2. MaxPackets \in Nat
    BY SocketAssumption
  <2>3. buf \in 0 .. MaxPackets
    BY <2>1, <2>2
  <2>4. Len(disk) \in Nat
    BY <2>1, LenProperties
  <2> QED BY <2>1, <2>3, <2>4
<1>2. CASE UNCHANGED <<disk, write_failed>>
  BY <1>1, <1>2 DEF DiskGrows, IsPart
<1>3. Fflush => DiskGrows
  BY <1>1, FflushPart
<1>4. Fwrite(RecordHeader(buf)) \/ Fwrite(PacketBytes(buf)) => DiskGrows
  BY <1>1, FwritePart, PieceFacts
<1>5. OpenSocket \/ OpenFile \/ HeadPolls \/ PollReturns \/ PollTimesOut \/ Recv \/ CountPacket
      \/ HandleSigint \/ Network \/ DiskFillsOrEmpties \/ UNCHANGED vars
        => UNCHANGED <<disk, write_failed>>
  BY DEF OpenSocket, OpenFile, HeadPolls, PollReturns, PollTimesOut, Recv, CountPacket,
         HandleSigint, Network, DiskFillsOrEmpties, vars, file
<1>6. HeadLeaves => Fflush \/ UNCHANGED <<disk, write_failed>>
  BY DEF HeadLeaves, file
<1> QED BY <1>2, <1>3, <1>4, <1>5, <1>6
        DEF Next, Process, Terminated, WriteRecordHeader, WritePacket, Flush

LEMMA SafeFrame ==
  ASSUME [Next]_vars
  PROVE  \/ UNCHANGED <<captured, safe>> /\ (fp' = fp \/ (pc = "setup" /\ UNCHANGED write_failed))
         \/ /\ fp' = fp /\ UNCHANGED <<disk, write_failed>>
            /\ captured' = Append(captured, buf)
            /\ safe' = IF write_failed THEN safe ELSE Append(safe, buf)
<1> DEFINE Still   == UNCHANGED <<captured, safe, fp>>
           Opens   == UNCHANGED <<captured, safe>> /\ pc = "setup" /\ UNCHANGED write_failed
           Counted == /\ fp' = fp /\ UNCHANGED <<disk, write_failed>>
                      /\ captured' = Append(captured, buf)
                      /\ safe' = IF write_failed THEN safe ELSE Append(safe, buf)
<1>1. OpenSocket \/ HeadLeaves \/ HeadPolls \/ PollReturns \/ PollTimesOut => Still
  BY DEF OpenSocket, HeadLeaves, HeadPolls, PollReturns, PollTimesOut, Goto
<1>2. Recv \/ WriteRecordHeader \/ WritePacket \/ Flush => Still
  BY DEF Recv, WriteRecordHeader, WritePacket, Flush, Goto
<1>3. HandleSigint \/ Network \/ DiskFillsOrEmpties \/ UNCHANGED vars => Still
  BY DEF HandleSigint, Network, DiskFillsOrEmpties, vars
<1>4. OpenFile => Opens
  BY DEF OpenFile
<1>5. CountPacket => Counted
  BY DEF CountPacket, file
<1> HIDE DEF Still, Opens, Counted
<1>6. CASE OpenFile
  BY <1>4, <1>6 DEF Opens
<1>7. CASE CountPacket
  BY <1>5, <1>7 DEF Counted
<1>8. CASE ~OpenFile /\ ~CountPacket
  <2>1. Still
    BY <1>1, <1>2, <1>3, <1>8 DEF Next, Process, Terminated
  <2> QED BY <2>1 DEF Still
<1> QED BY <1>6, <1>7, <1>8

LEMMA SafeStep ==
  ASSUME IInv, FileInv, SafeIsCounted, [Next]_vars
  PROVE  /\ SafeIsCounted'
         /\ SafeOnDisk /\ write_failed' => SafeOnDisk'
<1>1. DiskGrows /\ TypeOK
  BY DiskStep DEF IInv, TypeInv
<1>2. TypeOK'
  BY TypeStep DEF IInv, TypeInv
<1>3. SafeIsCounted'
  BY <1>1, SafeFrame DEF SafeIsCounted, DiskGrows
<1>4. ASSUME SafeOnDisk, write_failed' PROVE SafeOnDisk'
  <2>1. safe' = safe /\ fp' = fp
    <3>1. pc = "setup" => ~write_failed
      BY DEF FileInv, FileFits
    <3> QED BY <1>4, <3>1, SafeFrame
  <2>2. Len(safe) \in Nat /\ Len(disk) \in Nat /\ Len(disk') \in Nat
    BY <1>1, <1>2, LenProperties DEF TypeOK
  <2>3. ASSUME fp = "open", NEW i \in 1 .. Len(safe) PROVE safe[i] = i /\ OnDisk(i)'
    <3>1. safe[i] = i /\ OnDisk(i)
      BY <1>4, <2>3 DEF SafeOnDisk
    <3>2. 2 * i \in 1 .. Len(disk) /\ 2 * i + 1 \in 1 .. Len(disk) /\ Len(disk) <= Len(disk')
          /\ i \in Nat
      BY <1>1, <2>2, <3>1 DEF OnDisk, DiskGrows, IsPart
    <3>3. disk'[2 * i] = disk[2 * i] /\ disk'[2 * i + 1] = disk[2 * i + 1]
      BY <1>1, <3>2 DEF DiskGrows, IsPart
    <3>4. 2 * i + 1 <= Len(disk')
      BY <2>2, <3>2
    <3> QED BY <3>1, <3>3, <3>4 DEF OnDisk
  <2> QED BY <2>1, <2>3 DEF SafeOnDisk
<1> QED BY <1>3, <1>4

LEMMA SafeInvariant == Spec => [](IInv /\ FileInv /\ SafeIsCounted /\ SafeOnDisk)
<1>1. Init => SafeIsCounted /\ ~write_failed
  BY DEF Init, SafeIsCounted
<1>2. IInv /\ FileInv /\ SafeIsCounted /\ [Next]_vars
        => SafeIsCounted' /\ (SafeOnDisk /\ write_failed' => SafeOnDisk')
  BY SafeStep
<1>3. IInv /\ FileInv /\ ~write_failed /\ SafeIsCounted => SafeOnDisk
  BY CountedIsSafe
<1> QED BY <1>1, <1>2, <1>3, FileInvariant, PTL DEF Spec

(* The reader's view: pairs of pieces, by their place alone.               *)
LEMMA ReadByPlace ==
  ASSUME NEW f, Len(f) \in Nat
  PROVE  /\ Len(RecordsIn(f)) \in Nat
         /\ 2 * Len(RecordsIn(f)) + 1 <= Len(f) \/ Len(RecordsIn(f)) = 0
         /\ Len(f) <= 2 * Len(RecordsIn(f)) + 2
         /\ \A i \in 1 .. Len(RecordsIn(f)) : RecordsIn(f)[i] = <<f[2 * i], f[2 * i + 1]>>
<1> DEFINE n == RecordCount(f)
<1>1. n \in Nat /\ (2 * n + 1 <= Len(f) \/ n = 0) /\ Len(f) <= 2 * n + 2
  BY DEF RecordCount
<1>2. RecordsIn(f) = [i \in 1 .. n |-> <<f[2 * i], f[2 * i + 1]>>]
  BY DEF RecordsIn
<1> HIDE DEF n
<1>3. Len(RecordsIn(f)) = n
  BY <1>1, <1>2
<1>4. \A i \in 1 .. n : RecordsIn(f)[i] = <<f[2 * i], f[2 * i + 1]>>
  BY <1>2
<1> QED BY <1>1, <1>3, <1>4

(* Killed at any moment, sniff leaves a file from which every packet       *)
(* counted before the disk refused a write can be read, also if it refused *)
(* one since; if it took every write, the file holds nothing else but the  *)
(* packet in hand, and what a capture that ends has counted.               *)
THEOREM FileIsReadable == Spec => []FileReadable
<1>1. ASSUME IInv, FileInv, SafeIsCounted, SafeOnDisk PROVE FileReadable
  <2> SUFFICES ASSUME fp = "open"
               PROVE  LET records == RecordsIn(disk)
                      IN  /\ Len(safe) <= Len(records)
                          /\ \A i \in 1 .. Len(safe) : records[i] = Record(safe[i])
                          /\ ~write_failed =>
                               /\ safe = captured
                               /\ \A i \in 1 .. Len(records) : records[i] = Record(i)
                               /\ pc = "done" => Len(records) = Len(captured) /\ disk # <<>>
    BY DEF FileReadable
  <2> DEFINE records == RecordsIn(disk)
             n == Len(records)
             L == Len(safe)
             d == Len(disk)
  <2>1. L \in Nat /\ d \in Nat /\ MaxPackets \in Nat
    BY <1>1, LenProperties, SocketAssumption DEF IInv, TypeInv, TypeOK
  <2>2. /\ n \in Nat /\ (2 * n + 1 <= d \/ n = 0) /\ d <= 2 * n + 2
        /\ \A i \in 1 .. n : records[i] = <<disk[2 * i], disk[2 * i + 1]>>
    BY <2>1, ReadByPlace
  <2>3. \A i \in 1 .. L : safe[i] = i /\ OnDisk(i)
    BY <1>1 DEF SafeOnDisk
  <2> HIDE DEF records, n, L, d
  <2>4. L > 0 => 2 * L + 1 <= d
    <3>1. L > 0 => L \in 1 .. L
      BY <2>1
    <3> QED BY <2>3, <3>1 DEF OnDisk, d
  <2>5. L <= n
    BY <2>1, <2>2, <2>4
  <2>6. ASSUME NEW i \in 1 .. L PROVE records[i] = Record(safe[i])
    <3>1. i \in 1 .. n
      BY <2>1, <2>2, <2>5
    <3> QED BY <2>2, <2>3, <3>1 DEF Record, OnDisk
  <2>7. ASSUME ~write_failed
        PROVE  /\ safe = captured
               /\ \A i \in 1 .. n : records[i] = Record(i)
               /\ pc = "done" => n = Len(captured) /\ disk # <<>>
    <3>1. /\ d <= 2 * MaxPackets + 1
          /\ \A i \in 1 .. MaxPackets :
               2 * i + 1 <= d => disk[2 * i] = RecordHeader(i) /\ disk[2 * i + 1] = PacketBytes(i)
          /\ pc = "done" => d = 2 * Len(captured) + 1 /\ Len(captured) \in Nat
      BY <1>1, <2>7, CountedOnDisk DEF d
    <3>2. ASSUME NEW i \in 1 .. n PROVE records[i] = Record(i)
      <4>1. i \in 1 .. MaxPackets /\ 2 * i + 1 <= d
        BY <2>1, <2>2, <3>1
      <4> QED BY <2>2, <3>1, <4>1 DEF Record
    <3>3. ASSUME pc = "done" PROVE n = Len(captured) /\ disk # <<>>
      <4>1. d = 2 * Len(captured) + 1 /\ Len(captured) \in Nat
        BY <3>1, <3>3
      <4>2. n = Len(captured) /\ d # 0
        BY <2>1, <2>2, <4>1
      <4> QED BY <4>2, EmptySeq DEF d
    <3>4. safe = captured
      BY <1>1, <2>7 DEF SafeIsCounted
    <3> QED BY <3>2, <3>3, <3>4
  <2> QED BY <2>5, <2>6, <2>7 DEF records, n, L
<1> QED BY <1>1, SafeInvariant, PTL

-------------------------------------------------------------------------------
(* The refinement: a count is a Record of the log, the arrival of a packet *)
(* a Receive, the two ends a Finish, and every other step a stutter.       *)
LEMMA LogInit == Init => Log!Init
<1> SUFFICES ASSUME Init PROVE Log!Init
  OBVIOUS
<1>1. max_packets \in Nat /\ received = 0 /\ captured = <<>>
  BY DEF Init, SocketInit
<1>2. CaptureStatus = "running"
  BY DEF Init, CaptureStatus, Ended
<1> QED BY <1>1, <1>2 DEF Log!Init

LEMMA StatusKept ==
  ASSUME UNCHANGED <<max_packets, packets_captured>>, Ended' <=> Ended
  PROVE  CaptureStatus' = CaptureStatus
BY DEF CaptureStatus, LimitReached

LEMMA LogStep == IInv /\ [Next]_vars => [Log!Next]_(Log!vars)
<1> SUFFICES ASSUME IInv, [Next]_vars PROVE [Log!Next]_(Log!vars)
  OBVIOUS
<1>a. /\ TypeOK /\ SocketTypeOK /\ captured \in Seq(1 .. received) /\ max_packets \in Nat
      /\ NothingLostInside /\ packets_captured = Len(captured)
  BY DEF IInv, TypeInv, TypeOK, NothingLostInside
<1>b. /\ received \in Nat /\ fetched \in Nat /\ fetched <= received /\ InBuffer \in Nat
      /\ Len(captured) \in Nat
  BY <1>a, LenProperties DEF SocketTypeOK, InBuffer
<1> DEFINE Still == UNCHANGED <<max_packets, packets_captured, captured>>
<1>1. ASSUME Still, received' = received, Ended' <=> Ended PROVE UNCHANGED Log!vars
  BY <1>1, StatusKept DEF Log!vars
<1>2. CASE OpenSocket
  BY <1>1, <1>2, OpenRawSocketFacts DEF OpenSocket, counters, Ended
<1>3. CASE HeadPolls \/ PollReturns \/ PollTimesOut \/ WriteRecordHeader \/ WritePacket \/ Flush
  BY <1>1, <1>3 DEF HeadPolls, PollReturns, PollTimesOut, WriteRecordHeader, WritePacket, Flush,
                    Goto, sockvars, Ended
<1>4. CASE DiskFillsOrEmpties \/ UNCHANGED vars
  BY <1>1, <1>4 DEF DiskFillsOrEmpties, vars, sockvars, Ended
<1>5. CASE OpenFile
  <2>1. Still /\ received' = received
    BY <1>5 DEF OpenFile, sockvars
  <2>2. CASE pc' = "head"
    BY <1>1, <1>5, <2>1, <2>2 DEF OpenFile, Ended
  <2>3. CASE pc' = "die"
    <3>1. CaptureStatus = "running" /\ Ended'
      BY <1>5, <2>3 DEF OpenFile, CaptureStatus, Ended
    <3>2. packets_captured = 0
      BY <1>5 DEF OpenFile, IInv, StageFits
    <3>3. ~LimitReached'
      BY <2>1, <3>2, <1>a DEF LimitReached
    <3>4. CaptureStatus' = "stopped"
      BY <3>1, <3>3 DEF CaptureStatus
    <3> QED BY <2>1, <3>1, <3>4 DEF Log!Next, Log!Finish
  <2> QED BY <1>5, <2>2, <2>3 DEF OpenFile
<1>6. CASE HeadLeaves
  <2>1. Still /\ received' = received
    BY <1>6 DEF HeadLeaves, CloseRawSocket
  <2>2. CaptureStatus = "running" /\ Ended'
    BY <1>6 DEF HeadLeaves, CaptureStatus, Ended
  <2>3. LimitReached' <=> LimitReached
    BY <2>1 DEF LimitReached
  <2>4. CASE LimitReached
    <3>1. max_packets > 0 /\ Len(captured) = max_packets
      BY <1>a, <1>b, <2>4 DEF LimitReached, IInv, LimitKept
    <3>2. CaptureStatus' = "complete"
      BY <2>2, <2>3, <2>4 DEF CaptureStatus
    <3> QED BY <2>1, <2>2, <3>1, <3>2 DEF Log!Next, Log!Finish
  <2>5. CASE ~LimitReached
    <3>1. CaptureStatus' = "stopped"
      BY <2>2, <2>3, <2>5 DEF CaptureStatus
    <3> QED BY <2>1, <2>2, <3>1 DEF Log!Next, Log!Finish
  <2> QED BY <2>4, <2>5
<1>7. CASE Recv
  <2>1. Still /\ pc = "recv"
    BY <1>7 DEF Recv, Goto
  <2>2. pc' \notin {"done", "die"}
    <3>1. StageFits' /\ stage' = stage /\ stage = "open"
      BY <1>a, <2>1, IInvStep, HandleFrame DEF IInv, StageFits
    <3> QED BY <3>1 DEF StageFits
  <2>3. received' = received
    <3>1. ASSUME NEW p, RecvPacket(p) PROVE received' = received
      BY <3>1 DEF RecvPacket, RecvLinux, RecvFilling, RecvBuffered
    <3>2. RecvNothing => received' = received
      BY DEF RecvNothing
    <3> QED BY <1>7, <3>1, <3>2 DEF Recv
  <2> QED BY <1>1, <2>1, <2>2, <2>3 DEF Ended
<1>8. CASE HandleSigint
  <2>1. Still /\ received' = received
    BY <1>8 DEF HandleSigint, sockvars
  <2>2. pc \notin {"done", "die"} /\ pc' \in {pc, "head"}
    BY <1>8 DEF HandleSigint, Ended
  <2> QED BY <1>1, <2>1, <2>2 DEF Ended
<1>9. CASE Network
  <2>1. Still /\ pc' = pc
    BY <1>9 DEF Network
  <2>2. CASE Arrive
    <3>1. received' = received + 1
      BY <2>2 DEF Arrive
    <3>2. CaptureStatus' = CaptureStatus
      BY <2>1, StatusKept DEF Ended
    <3> QED BY <2>1, <3>1, <3>2 DEF Log!Next, Log!Receive
  <2>3. CASE InterfaceDown
    BY <1>1, <2>1, <2>3 DEF InterfaceDown, Ended
  <2> QED BY <1>9, <2>2, <2>3 DEF Network
<1>10. CASE CountPacket
  <2>1. /\ captured' = Append(captured, buf) /\ UNCHANGED <<max_packets, received>>
        /\ pc = "count" /\ pc' = "head"
    BY <1>10 DEF CountPacket, sockvars
  <2>2. CaptureStatus = "running" /\ CaptureStatus' = "running"
    BY <2>1 DEF CaptureStatus, Ended
  <2>3. buf = Len(captured) + 1 /\ Len(captured) < received
    <3>1. InHand = 1
      BY <2>1 DEF InHand
    <3> QED BY <3>1, <1>a, <1>b DEF NothingLostInside
  <2>4. max_packets = 0 \/ Len(captured) < max_packets
    <3>1. ~LimitReached
      BY <2>1 DEF IInv, LimitKept
    <3> QED BY <3>1, <1>a, <1>b DEF LimitReached
  <2>5. Log!Record
    BY <2>1, <2>2, <2>3, <2>4 DEF Log!Record
  <2> QED BY <2>5 DEF Log!Next
<1> QED BY <1>2, <1>3, <1>4, <1>5, <1>6, <1>7, <1>8, <1>9, <1>10 DEF Next, Process, Terminated

(* A capture is a CaptureLog: it records what the socket receives, from    *)
(* the first packet on, each once and in order, and a capture is complete  *)
(* only with exactly as many as -c asks for.                               *)
THEOREM CaptureIsALog == Spec => RefinesCaptureLog
<1>1. Init => Log!Init
  BY LogInit
<1>2. IInv /\ [Next]_vars => [Log!Next]_(Log!vars)
  BY LogStep
<1> QED BY <1>1, <1>2, IInvariant, PTL DEF Spec, RefinesCaptureLog, Log!Spec

-------------------------------------------------------------------------------
(* What is left to do after a signal.                                      *)

(* Steps of the process before the run is over, once keep_running is       *)
(* cleared: the socket that is being opened is opened, the packet in hand  *)
(* is written.                                                             *)
OpeningLeft ==
  CASE stage = "descriptor" -> 6 [] stage = "interface" -> 5 [] stage = "sock" -> 4
    [] stage = "bpf_buf" -> 3 [] OTHER -> 2

StepsFrom(p) ==
  CASE p = "head" -> 1 [] p = "count" -> 2 [] p = "flush" -> 3 [] p = "packet" -> 4
    [] p = "recv" -> 6 [] p = "poll" -> 7 [] p \in {"done", "die"} -> 0 [] OTHER -> 5

StepsLeft == IF pc = "setup" THEN OpeningLeft ELSE StepsFrom(pc)

(* Packets that may still be captured: one, if the loop was entered.       *)
ComingFrom(p) == IF p \in {"head", "setup", "done", "die"} THEN 0 ELSE 1
StillComing   == ComingFrom(pc)

(* Once a signal has come it is not forgotten, each step of the process    *)
(* brings it nearer to the end, which is at most seven steps away, and one *)
(* packet at most is captured meanwhile, however many are queued.          *)
WindsDown ==
  ~keep_running =>
    /\ ~keep_running' /\ StepsLeft' <= StepsLeft
    /\ Len(captured') + StillComing' <= Len(captured) + StillComing
    /\ Process => StepsLeft' < StepsLeft

LEMMA StepsFacts ==
  /\ StepsFrom("done") = 0 /\ StepsFrom("die") = 0 /\ StepsFrom("head") = 1
  /\ StepsFrom("count") = 2 /\ StepsFrom("flush") = 3 /\ StepsFrom("packet") = 4
  /\ StepsFrom("recv") = 6 /\ StepsFrom("poll") = 7
  /\ \A p \in {"done", "die", "head", "setup"} : ComingFrom(p) = 0
  /\ \A p \in {"count", "flush", "packet", "recv", "poll"} : ComingFrom(p) = 1
BY DEF StepsFrom, ComingFrom

LEMMA RecordStep ==
  StepsFrom("record header") = 5 /\ ComingFrom("record header") = 1 /\ "record header" # "setup"
BY Zenon DEF StepsFrom, ComingFrom

LEMMA LastSteps ==
  ASSUME TypeInv, Process, ~keep_running
  PROVE  /\ ~keep_running' /\ StepsLeft' < StepsLeft
         /\ Len(captured') + StillComing' <= Len(captured) + StillComing
<1> USE StepsFacts DEF StepsLeft, StillComing
<1>n. Len(captured) \in Nat
  BY LenProperties DEF TypeInv, TypeOK
<1>1. CASE OpenSocket
  <2>1. /\ UNCHANGED <<pc, keep_running, captured>> /\ pc = "setup"
        /\ \/ stage = "descriptor" /\ stage' \in {"interface", "failed"}
           \/ stage = "interface" /\ stage' \in {"sock", "failed"}
           \/ stage = "sock" /\ stage' \in {"bpf_buf", "open", "failed"}
           \/ stage = "bpf_buf" /\ stage' \in {"open", "failed"}
    BY <1>1 DEF OpenSocket, OpenRawSocket, OpenDescriptor, AttachInterface, AllocateSock,
                AllocateBuffer, OpeningStep
  <2>2. OpeningLeft' < OpeningLeft
    BY <2>1 DEF OpeningLeft
  <2> QED BY <2>1, <2>2, <1>n
<1>2. CASE OpenFile
  <2>1. /\ pc = "setup" /\ stage \in {"failed", "open"} /\ pc' \in {"die", "head"}
        /\ UNCHANGED <<keep_running, captured>>
    BY <1>2 DEF OpenFile
  <2>2. OpeningLeft = 2
    BY <2>1 DEF OpeningLeft
  <2> QED BY <2>1, <2>2, <1>n
<1>3. CASE HeadLeaves
  <2>1. pc = "head" /\ pc' = "done" /\ UNCHANGED <<keep_running, captured>>
    BY <1>3 DEF HeadLeaves
  <2> QED BY <2>1, <1>n
<1>4. CASE PollReturns \/ PollTimesOut
  <2>1. pc = "poll" /\ pc' \in {"recv", "head"} /\ UNCHANGED <<keep_running, captured>>
    BY <1>4 DEF PollReturns, PollTimesOut, Goto
  <2> QED BY <2>1, <1>n
<1>5. CASE Recv
  <2>1. /\ pc = "recv" /\ pc' \in {"record header", "count", "head"}
        /\ UNCHANGED <<keep_running, captured>>
    BY <1>5 DEF Recv, Goto
  <2>2. pc' # "setup" /\ StepsFrom(pc') \in {5, 2, 1} /\ ComingFrom(pc') \in {0, 1}
    BY <2>1, RecordStep, Zenon
  <2>3. pc = "recv" /\ ~keep_running' /\ captured' = captured
    BY <2>1
  <2> QED BY <2>2, <2>3, <1>n
<1>6. CASE WriteRecordHeader \/ WritePacket \/ Flush
  <2>1. /\ \/ pc = "record header" /\ pc' = "packet"
           \/ pc = "packet" /\ pc' = "flush"
           \/ pc = "flush" /\ pc' = "count"
        /\ UNCHANGED <<keep_running, captured>>
    BY <1>6 DEF WriteRecordHeader, WritePacket, Flush, Goto
  <2>2. \/ StepsLeft = 5 /\ StepsLeft' = 4
        \/ StepsLeft = 4 /\ StepsLeft' = 3
        \/ StepsLeft = 3 /\ StepsLeft' = 2
    BY <2>1, RecordStep, Zenon
  <2>3. StillComing = 1 /\ StillComing' = 1
    BY <2>1, RecordStep, Zenon
  <2>4. ~keep_running' /\ captured' = captured
    BY <2>1
  <2> HIDE DEF StepsLeft, StillComing
  <2> QED BY <2>2, <2>3, <2>4, <1>n
<1>7. CASE CountPacket
  <2>1. pc = "count" /\ pc' = "head" /\ UNCHANGED keep_running /\ captured' = Append(captured, buf)
    BY <1>7 DEF CountPacket
  <2>2. Len(captured') = Len(captured) + 1
    BY <2>1 DEF TypeInv, TypeOK
  <2> QED BY <2>1, <2>2, <1>n
<1>8. ~HeadPolls
  BY DEF HeadPolls
<1> QED BY <1>1, <1>2, <1>3, <1>4, <1>5, <1>6, <1>7, <1>8 DEF Process

(* Whenever the signal comes - while the socket is opened, with a packet   *)
(* in hand, just before poll() - sniff acts on it within seven steps, one  *)
(* of which may be waiting in poll(), and captures one packet more at most. *)
THEOREM SignalIsHeeded == Spec => [][WindsDown]_vars
<1>1. TypeInv /\ [Next]_vars => [WindsDown]_vars
  <2> SUFFICES ASSUME TypeInv, Next, ~keep_running
               PROVE  WindsDown
    BY DEF WindsDown
  <2>n. StepsLeft \in Nat
    BY DEF StepsLeft, OpeningLeft, StepsFrom
  <2>1. CASE Process
    <3>1. StepsLeft' \in Nat
      BY DEF StepsLeft, OpeningLeft, StepsFrom
    <3> QED BY <2>1, <2>n, <3>1, LastSteps DEF WindsDown
  <2>2. CASE ~Process /\ ~HandleSigint
    <3>1. UNCHANGED <<pc, keep_running, stage, captured>>
      BY <2>2 DEF Next, Network, Arrive, InterfaceDown, DiskFillsOrEmpties, Terminated, vars,
                  sockvars, handle
    <3>2. StepsLeft' = StepsLeft /\ StillComing' = StillComing /\ Len(captured') = Len(captured)
      BY <3>1 DEF StepsLeft, OpeningLeft, StillComing
    <3>3. Len(captured) \in Nat /\ StillComing \in Nat
      BY LenProperties DEF TypeInv, TypeOK, StillComing, ComingFrom
    <3> QED BY <2>2, <2>n, <3>1, <3>2, <3>3 DEF WindsDown
  <2> QED BY <2>1, <2>2 DEF HandleSigint
<1> QED BY <1>1, TypeInit, TypeStep, PTL DEF Spec

===============================================================================
