------------------------------ MODULE CaptureSocket ------------------------------
(***************************************************************************)
(* The socket of net.c that link-layer packets come from: how              *)
(* open_raw_socket makes it and unwinds when a step fails, what poll()     *)
(* sees of it and what recv_packet takes from it.  On Linux a call receives one *)
(* packet.  On BSD a call that finds its buffer used up reads as many as   *)
(* the BPF device has ready, and hands out the first; poll() does not see  *)
(* those still in the buffer.  Packets are numbered as the kernel queues   *)
(* them: those of fetched+1 .. received are in the kernel.                 *)
(***************************************************************************)
EXTENDS Integers

CONSTANTS
  Platforms,    \* of {"linux", "bsd"}
  KernelLen,    \* how many packets the kernel queues; it drops the others
  BpfLen,       \* how many packets bpf_buf_len bytes hold
  MaxPackets    \* bound: packets the kernel ever queues

ASSUME SocketAssumption ==
  /\ Platforms \subseteq {"linux", "bsd"}
  /\ KernelLen \in Nat /\ BpfLen \in Nat \ {0} /\ MaxPackets \in Nat

VARIABLES
  platform,               \* never changed
  received, fetched,      \* packets queued by the kernel so far, and taken from there
  bpf_filled, bpf_pos,    \* packets of the last read, and how many of them were handed out
  sock_err,               \* the interface went down: "pending" is yet to be told
  stage,                  \* how far open_raw_socket has got
  held,                   \* what is acquired and not released
  unbound                 \* history: the packets queued before bind(), of any interface

handle   == <<stage, held, unbound>>
sockvars == <<platform, received, fetched, bpf_filled, bpf_pos, sock_err, handle>>

SocketInit ==
  /\ platform \in Platforms
  /\ received = 0 /\ fetched = 0 /\ bpf_filled = 0 /\ bpf_pos = 0
  /\ sock_err = "none" /\ stage = "descriptor" /\ held = {} /\ unbound = 0

-------------------------------------------------------------------------------
(* One step of open_raw_socket: it acquires something and goes on, or it   *)
(* fails, and what lies under its error labels releases some of it.        *)
OpeningStep(from, acquired, to, released) ==
  /\ stage = from
  /\ \/ stage' = to /\ held' = held \cup acquired
     \/ stage' = "failed" /\ held' = held \ released
  /\ UNCHANGED <<platform, received, fetched, bpf_filled, bpf_pos, sock_err, unbound>>

(* socket(), or the first /dev/bpf that can be opened. *)
OpenDescriptor == OpeningStep("descriptor", {"fd"}, "interface", {})

(* The interface is found and bound to; on BSD, the buffer's size read.    *)
AttachInterface == OpeningStep("interface", {}, "sock", {"fd"})

AllocateSock ==
  OpeningStep("sock", {"sock"}, IF platform = "bsd" THEN "bpf_buf" ELSE "open", {"fd"})

BugAllocateBuffer == OpeningStep("bpf_buf", {"bpf_buf"}, "open", {"fd"})
AllocateBuffer    == OpeningStep("bpf_buf", {"bpf_buf"}, "open", {"sock", "fd"})

OpenRawSocket == OpenDescriptor \/ AttachInterface \/ AllocateSock \/ AllocateBuffer

CloseRawSocket ==
  /\ stage' = "closed"
  /\ held' = held \ ({"fd", "sock"} \cup IF platform = "bsd" THEN {"bpf_buf"} ELSE {})
  /\ UNCHANGED <<platform, received, fetched, bpf_filled, bpf_pos, sock_err, unbound>>

-------------------------------------------------------------------------------
InKernel == received - fetched
InBuffer == bpf_filled - bpf_pos

(* What poll() looks at. *)
Readable == InKernel > 0 \/ sock_err = "pending"

RecvLinux(p) ==
  /\ platform = "linux" /\ sock_err # "pending" /\ InKernel > 0
  /\ p = fetched + 1
  /\ fetched' = fetched + 1
  /\ UNCHANGED <<platform, received, bpf_filled, bpf_pos, sock_err, handle>>

BugBufferUsedUp == bpf_pos > bpf_filled
BufferUsedUp    == bpf_pos >= bpf_filled

(* read() fills the buffer. *)
BugRecvFilling(p) ==
  /\ platform = "bsd" /\ InKernel > 0
  /\ p = fetched + 1
  /\ \E n \in 1 .. BpfLen :
       n <= InKernel /\ bpf_filled' = n /\ fetched' = fetched + n
  /\ bpf_pos' = 1
  /\ UNCHANGED <<platform, received, sock_err, handle>>

RecvFilling(p) ==
  /\ platform = "bsd" /\ BufferUsedUp /\ InKernel > 0
  /\ p = fetched + 1
  /\ \E n \in 1 .. BpfLen :
       n <= InKernel /\ bpf_filled' = n /\ fetched' = fetched + n
  /\ bpf_pos' = 1
  /\ UNCHANGED <<platform, received, sock_err, handle>>

RecvBuffered(p) ==
  /\ platform = "bsd" /\ ~BufferUsedUp
  /\ p = fetched - InBuffer + 1
  /\ bpf_pos' = bpf_pos + 1
  /\ UNCHANGED <<platform, received, fetched, bpf_filled, sock_err, handle>>

(* recv_packet hands out packet p. *)
RecvPacket(p) == RecvLinux(p) \/ RecvFilling(p) \/ RecvBuffered(p)

(* recv_packet returns no packet: Linux tells of the error once and before *)
(* anything else, a BPF device each time its packets are used up.          *)
RecvNothing ==
  /\ sock_err = "pending"
  /\ \/ platform = "linux" /\ sock_err' = "told"
     \/ platform = "bsd" /\ BufferUsedUp /\ InKernel = 0 /\ UNCHANGED sock_err
  /\ UNCHANGED <<platform, received, fetched, bpf_filled, bpf_pos, handle>>

-------------------------------------------------------------------------------
(* An AF_PACKET socket receives from every interface until it is bound, a  *)
(* BPF device from none; bind() leaves what is queued where it is.         *)
BugBound == FALSE
Bound    == stage \in {"sock", "bpf_buf", "open"}
Listens ==
  \/ stage \in {"sock", "bpf_buf", "open"}
  \/ platform = "linux" /\ stage = "interface"

Arrive ==
  /\ Listens
  /\ InKernel < KernelLen /\ received < MaxPackets
  /\ received' = received + 1
  /\ unbound' = IF Bound THEN unbound ELSE received + 1
  /\ UNCHANGED <<platform, fetched, bpf_filled, bpf_pos, sock_err, stage, held>>

InterfaceDown ==
  /\ stage = "open" /\ sock_err = "none" /\ sock_err' = "pending"
  /\ UNCHANGED <<platform, received, fetched, bpf_filled, bpf_pos, handle>>

SocketTypeOK ==
  /\ platform \in Platforms
  /\ received \in 0 .. MaxPackets /\ fetched \in 0 .. received
  /\ bpf_filled \in 0 .. BpfLen /\ bpf_pos \in 0 .. bpf_filled
  /\ sock_err \in {"none", "pending", "told"}
  /\ stage \in {"descriptor", "interface", "sock", "bpf_buf", "open", "failed", "closed"}
  /\ held \subseteq {"fd", "sock", "bpf_buf"} /\ unbound \in 0 .. received
===============================================================================
