--------------------------------- MODULE Tcping ---------------------------------
(***************************************************************************)
(* tcping.c: the loop of PollLoop with TCP SYN probes.  A probe carries a  *)
(* 32-bit sequence number whose low 16 bits are its slot; an answer (a     *)
(* SYN+ACK or an RST from the probed port) is matched by its               *)
(* acknowledgement number less one, or by 0 if that is 0.                  *)
(***************************************************************************)
EXTENDS PollLoop

CONSTANTS
  AckMod,       \* 2^32, the range of TCP's numbers
  InitialSeq,   \* INITIAL_SEQ
  StrayAcks     \* acknowledgement numbers of segments of the same two ports that
                \* answer no probe; 0: an RST without ACK

ASSUME TcpingAssumption ==
  /\ AckMod \in Nat \ {0} /\ AckMod % SeqMod = 0
  /\ InitialSeq \in 0 .. AckMod - 1 /\ StrayAcks \subseteq 0 .. AckMod - 1

VARIABLES
  seq,
  misfits       \* history: how many answers were counted that answer no probe a
                \* slot belongs to

own  == <<seq, misfits>>
vars == <<own, loopvars>>

Low16(n) == n % SeqMod
tail     == Low16(seq)

(* Where the sweep begins. *)
BugFirstSlot == 0
FirstSlot    == Low16(InitialSeq)

Init == LoopInit(FirstSlot, "setup") /\ seq = InitialSeq /\ misfits = 0

(* The number after n, in 32 bits. *)
SuccNumber(n) == IF n = AckMod - 1 THEN 0 ELSE n + 1

(* setup_tcping_socket dies without CAP_NET_RAW or root. *)
SetupSocket ==
  /\ pc = "setup"
  /\ \/ Exit("die")
     \/ /\ pc' = "head" /\ next_send_time' = clock /\ lag' = 0
        /\ UNCHANGED <<exit_by, keep_running, sent, received, slots, poll_until, world, history>>
  /\ UNCHANGED own

HeadSend ==
  /\ OpenSlot(tail)
  /\ CountSend
  /\ \/ on_wire' = on_wire \cup {[probe |-> sent + 1, seq |-> seq, at |-> clock]}
     \/ on_wire' = on_wire
  /\ seq' = SuccNumber(seq) /\ UNCHANGED misfits

Sweep == SweepTo(tail) /\ UNCHANGED own

(* Which slot an answer is for. *)
BugAckedSlot(ack) == Low16(ack)
AckedSlot(ack)    == Low16(IF ack > 0 THEN ack - 1 ELSE ack)

(* A segment for the source port; answer: from the probed port, with SYN   *)
(* and ACK or RST set; probe: the SYN it answers, 0 if not one of ours.    *)
BugCredits(p, resolved) == p.answer
Credits(p, resolved)    == p.answer /\ ~resolved[AckedSlot(p.ack)]

DrainIgnore ==
  /\ Drains /\ ~Credits(Head(sockbuf), replied_or_timeout)
  /\ IgnorePacket /\ UNCHANGED own

(* Does segment p name one of the probes that slots belong to?  The answer *)
(* to the last number before the wrap, with acknowledgement number 0, does *)
(* not.                                                                    *)
Fits(p) == p.probe > 0 /\ p.probe + SeqMod > sent /\ p.ack > 0

DrainCredit ==
  /\ Drains /\ Credits(Head(sockbuf), replied_or_timeout)
  /\ TakePacket
  /\ LET s == AckedSlot(Head(sockbuf).ack)
     IN  /\ replied_or_timeout' = [replied_or_timeout EXCEPT ![s] = TRUE]
         /\ answered' = IF sent_times[s] > 0 THEN answered \cup {Owner(s, tail)} ELSE answered
  /\ misfits' = IF Fits(Head(sockbuf)) THEN misfits ELSE misfits + 1
  /\ received' = received + 1
  /\ UNCHANGED <<keep_running, seq>>

LoopStep == (HeadExit \/ HeadIdle \/ PollBegins \/ PollReturns \/ DrainEnd) /\ UNCHANGED own

Process == SetupSocket \/ HeadSend \/ Sweep \/ DrainIgnore \/ DrainCredit \/ LoopStep

-------------------------------------------------------------------------------
(* The probed host answers, and repeats an answer that got lost. *)
ArriveAnswer ==
  \E r \in on_wire :
    /\ r.at < clock
    /\ Enqueue([answer |-> TRUE, ack |-> SuccNumber(r.seq), probe |-> r.probe])
    /\ heard' = heard \cup {r.probe}

ArriveStray ==
  \E a \in StrayAcks :
    Enqueue([answer |-> TRUE, ack |-> a, probe |-> 0]) /\ UNCHANGED heard

(* A raw TCP socket sees every segment the host receives. *)
ArriveForeign == Enqueue([answer |-> FALSE, ack |-> 0, probe |-> 0]) /\ UNCHANGED heard

Environment == (HandleSigint \/ Tick \/ ArriveAnswer \/ ArriveStray \/ ArriveForeign)
               /\ UNCHANGED own

Terminated == pc = "done" /\ UNCHANGED vars

Next == Process \/ Environment \/ Terminated

Spec     == Init /\ [][Next]_vars
FairSpec == Spec /\ WF_vars(Process) /\ WF_vars(Tick /\ UNCHANGED own)

-------------------------------------------------------------------------------
(* Every variable has its type. *)
TypeOK ==
  /\ LoopTypeOK
  /\ pc \in {"setup", "head", "sweep", "call", "poll", "drain", "done"}
  /\ exit_by \in {"none", "signal", "count", "die"}
  /\ seq = (InitialSeq + sent) % AckMod /\ misfits \in Nat

(* "received" against the answers that really came, however slots wrap and *)
(* answers are late, doubled or not meant for a probe: what it counts are  *)
(* probes whose own answer came, each once, and one more for each segment  *)
(* taken for an answer that names no probe a slot belongs to, like an RST  *)
(* without ACK, which hits slot 0, used or not.                            *)
CountErrorBounded ==
  received - Cardinality(answered \cap heard) \in 0 .. misfits

(* With -c, tcping comes to an end, if it may open its socket at all.      *)
Terminates == <>(pc = "done")

LedgerStatus ==
  CASE exit_by = "none"  -> "running"
    [] exit_by = "count" -> "complete"
    [] OTHER             -> "interrupted"

Ledger == INSTANCE ProbeLedger WITH status <- LedgerStatus

(* Seen from outside, a run is a ledger of probes, like ping's.            *)
RefinesLedger == Ledger!Spec
===============================================================================
