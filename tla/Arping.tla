--------------------------------- MODULE Arping ---------------------------------
(***************************************************************************)
(* arping.c: the loop of PollLoop with ARP requests.  An ARP reply carries *)
(* no number: whatever reply comes in is taken for the oldest probe that   *)
(* is still open.  After a reply from the target, probes go to its MAC     *)
(* address only, unless -b is given.                                       *)
(***************************************************************************)
EXTENDS PollLoop

CONSTANTS
  Holders,         \* the hosts that have the target's address: none, one, or a conflict
  Bystander,       \* a host that has another address
  Broadcast,       \* the MAC address all hosts listen to
  ForeignReplies   \* whether ARP replies about other addresses reach the interface

ASSUME ArpingAssumption ==
  /\ Broadcast \notin Holders /\ Bystander \notin Holders \cup {Broadcast}
  /\ ForeignReplies \in BOOLEAN

VARIABLES
  quit_on_reply,   \* -f or -d; never changed
  keep_broadcast,  \* -b; never changed
  current_target_mac,
  swallowed        \* history: probes whose slot a foreign reply has used up

options == <<quit_on_reply, keep_broadcast>>
own     == <<options, current_target_mac, swallowed>>
vars    == <<own, loopvars>>

tail == sent % SeqMod

Init ==
  /\ LoopInit(0, "head")
  /\ current_target_mac = Broadcast
  /\ swallowed = {}
  /\ quit_on_reply \in BOOLEAN /\ keep_broadcast \in BOOLEAN

HeadSend ==
  /\ OpenSlot(tail)
  /\ CountSend
  /\ on_wire' = on_wire \cup {[probe |-> sent + 1, to |-> current_target_mac, at |-> clock]}
  /\ UNCHANGED own

(* send_packet fails: the probe is not counted and the loop is left. *)
HeadSendFails ==
  /\ OpenSlot(tail)
  /\ pc' = "done" /\ exit_by' = "error"
  /\ UNCHANGED <<sent, next_send_time, on_wire, own>>

Sweep == SweepTo(tail) /\ UNCHANGED own

DrainIgnore ==
  /\ Drains /\ Head(sockbuf).about = "nothing"
  /\ IgnorePacket /\ UNCHANGED own

(* The slot a reply is taken to be for: the oldest one still open, or the  *)
(* tail if there is none.                                                  *)
OldestOpen ==
  CHOOSE s \in Window(next_timeout_check_seq, tail) \cup {tail} :
    /\ \A t \in Window(next_timeout_check_seq, s) : replied_or_timeout[t]
    /\ s = tail \/ ~replied_or_timeout[s]

CloseSlot(resolved, s) ==
  IF s = tail THEN resolved ELSE [resolved EXCEPT ![s] = TRUE]

(* handle_arp_reply looks at the sender's protocol address. *)
BugFromTarget(p) == p.about # "nothing"
FromTarget(p)    == p.about = "target"

NextTarget(mac) == IF keep_broadcast THEN current_target_mac ELSE mac

Quits == quit_on_reply \/ Count = 1

DrainTarget ==
  /\ Drains /\ FromTarget(Head(sockbuf))
  /\ TakePacket
  /\ replied_or_timeout' = CloseSlot(replied_or_timeout, OldestOpen)
  /\ answered' = IF OldestOpen = tail THEN answered ELSE answered \cup {Owner(OldestOpen, tail)}
  /\ current_target_mac' = NextTarget(Head(sockbuf).sha)
  /\ received' = received + 1
  /\ keep_running' = IF Quits THEN FALSE ELSE keep_running
  /\ UNCHANGED <<swallowed, options>>

(* The slot is closed before the sender's address is looked at. *)
DrainOther ==
  /\ Drains /\ Head(sockbuf).about # "nothing" /\ ~FromTarget(Head(sockbuf))
  /\ TakePacket
  /\ replied_or_timeout' = CloseSlot(replied_or_timeout, OldestOpen)
  /\ swallowed' = IF OldestOpen = tail THEN swallowed
                                       ELSE swallowed \cup {Owner(OldestOpen, tail)}
  /\ UNCHANGED <<answered, received, keep_running, current_target_mac, options>>

LoopStep ==
  /\ HeadExit \/ HeadIdle \/ PollBegins \/ PollReturns \/ DrainEnd
  /\ UNCHANGED own

Process == HeadSend \/ HeadSendFails \/ Sweep \/ DrainIgnore \/ DrainTarget \/ DrainOther
           \/ LoopStep

-------------------------------------------------------------------------------
(* A host that has the target's address answers a probe it receives. *)
ArriveReply ==
  \E r \in on_wire, m \in Holders :
    /\ r.to \in {Broadcast, m} /\ r.at < clock
    /\ Enqueue([about |-> "target", sha |-> m])
    /\ heard' = heard \cup {r.probe}

(* An ARP reply about another address, sent to this host, or a gratuitous  *)
(* one sent to all.                                                        *)
ArriveOther ==
  /\ ForeignReplies
  /\ Enqueue([about |-> "other", sha |-> Bystander]) /\ UNCHANGED heard

(* ARP requests and short frames. *)
ArriveNothing ==
  Enqueue([about |-> "nothing", sha |-> Bystander]) /\ UNCHANGED heard

Environment ==
  /\ HandleSigint \/ Tick \/ ArriveReply \/ ArriveOther \/ ArriveNothing
  /\ UNCHANGED own

Terminated == pc = "done" /\ UNCHANGED vars

Next == Process \/ Environment \/ Terminated

Spec     == Init /\ [][Next]_vars
FairSpec == Spec /\ WF_vars(Process) /\ WF_vars(Tick /\ UNCHANGED own)

-------------------------------------------------------------------------------
(* Every variable has its type. *)
TypeOK ==
  /\ LoopTypeOK
  /\ pc \in {"head", "sweep", "call", "poll", "drain", "done"}
  /\ exit_by \in {"none", "signal", "count", "error"}
  /\ quit_on_reply \in BOOLEAN /\ keep_broadcast \in BOOLEAN
  /\ current_target_mac \in Holders \cup {Broadcast}
  /\ swallowed \subseteq 1 .. sent

(* At the end of a run by count each probe has met exactly one fate: the   *)
(* target answered it, it timed out, or a reply of somebody else used up   *)
(* its slot.                                                               *)
EveryProbeHasOneFate ==
  /\ answered \cap expired = {} /\ answered \cap swallowed = {} /\ expired \cap swallowed = {}
  /\ exit_by = "count" => answered \cup expired \cup swallowed = 1 .. sent

(* With -f or -d, or -c 1, at most one reply is counted, even if more are  *)
(* queued already.                                                         *)
OneReplyAtMost == Quits => received <= 1

(* Probes go to a single host only after the target answered, and with -b  *)
(* never: while nobody answered, everybody is still asked.                 *)
UnicastOnlyAfterReply ==
  current_target_mac # Broadcast => received > 0 /\ heard # {} /\ ~keep_broadcast

(* With -c, arping comes to an end. *)
Terminates == <>(pc = "done")

(* arping.8:60 calls -w the "Time to wait for reply": when arping stops    *)
(* because its requests are sent, each was answered or waited for until it *)
(* timed out.                                                              *)
WaitsForReply == exit_by = "count" => answered \cup expired = 1 .. sent
===============================================================================
