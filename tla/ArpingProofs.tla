------------------------------- MODULE ArpingProofs -------------------------------
(****************************************************************************)
(* Proofs about Arping, on the lemmas of PollLoopProofs, for every number   *)
(* of slots, every -c, -w and -i, any set of hosts that claim the address,  *)
(* and every delay, loss, duplication and reordering of replies: its types, *)
(* that each probe meets one fate although replies carry no number and none *)
(* is forgotten, that one reply is enough with -f, when probes go to a      *)
(* single host, that a signal is heeded, and that the loop does not spin.   *)
(****************************************************************************)
EXTENDS Arping, PollLoopProofs

Request == [probe : Nat, to : Holders \cup {Broadcast}, at : Nat]
Packet  == [about : {"target"}, sha : Holders] \cup [about : {"other", "nothing"}, sha : {Bystander}]

(* A send that fails opens its slot and leaves the loop: only then the     *)
(* arrays do not agree with the count.                                     *)
Sound == exit_by # "error"

TypeInv ==
  /\ TypeOK
  /\ on_wire \subseteq Request /\ sockbuf \in Seq(Packet)
  /\ exit_by \in {"error", "count"} => pc = "done"
  /\ Sound => UsedSlots(sent_times, next_timeout_check_seq, tail, sent)

LEMMA TailFacts ==
  ASSUME sent \in Nat
  PROVE  tail \in Slot /\ (sent + 1) % SeqMod = Succ(tail)
BY NumberToSlot DEF tail

(* The steps of the process and of the world that change no account. *)
Quiet == QuietStep /\ UNCHANGED own

LEMMA NextSplits ==
  ASSUME [Next]_vars
  PROVE  \/ Quiet
         \/ HeadSend \/ HeadSendFails \/ Sweep \/ DrainIgnore \/ DrainTarget \/ DrainOther
         \/ ArriveReply /\ UNCHANGED own
         \/ ArriveOther /\ UNCHANGED own
         \/ ArriveNothing /\ UNCHANGED own
BY DEF Next, Process, Environment, Terminated, LoopStep, Quiet, QuietStep, vars

(* The send that fails. *)
LEMMA FailFacts ==
  ASSUME TypeInv, HeadSendFails
  PROVE  /\ LoopTypeOK'
         /\ pc' = "done" /\ exit_by' = "error"
         /\ UNCHANGED <<sent, received, keep_running, heard, history, on_wire, sockbuf, own>>
<1>1. /\ sent_times' = [sent_times EXCEPT ![tail] = clock]
      /\ replied_or_timeout' = [replied_or_timeout EXCEPT ![tail] = FALSE] /\ lag' = 0
      /\ UNCHANGED <<keep_running, received, next_timeout_check_seq, poll_until,
                     clock, sockbuf, arrivals, heard, history>>
      /\ pc' = "done" /\ exit_by' = "error"
      /\ UNCHANGED <<sent, next_send_time, on_wire, own>>
  BY DEF HeadSendFails, OpenSlot
<1>2. sent_times' \in [Slot -> Nat] /\ replied_or_timeout' \in [Slot -> BOOLEAN]
  BY <1>1 DEF TypeInv, TypeOK, LoopTypeOK
<1>3. LoopTypeOK'
  BY <1>1, <1>2 DEF TypeInv, TypeOK, LoopTypeOK, history
<1> QED BY <1>1, <1>3

(* The slot a reply is taken for is open and in use, its probe not filed   *)
(* before, or it is the tail and nothing is filed.                         *)
LEMMA OldestFacts ==
  ASSUME TypeInv, Sound
  PROVE  /\ OldestOpen \in Slot
         /\ Owner(OldestOpen, tail) = OwnerOf(OldestOpen, tail, sent)
         /\ OldestOpen # tail =>
              /\ ~replied_or_timeout[OldestOpen]
              /\ sent_times[OldestOpen] > 0
              /\ OwnerOf(OldestOpen, tail, sent) \in 1 .. sent
<1>a. /\ next_timeout_check_seq \in Slot /\ tail \in Slot /\ sent \in Nat
      /\ sent_times \in [Slot -> Nat] /\ replied_or_timeout \in [Slot -> BOOLEAN]
      /\ UsedSlots(sent_times, next_timeout_check_seq, tail, sent)
  BY TailFacts DEF TypeInv, TypeOK, LoopTypeOK
<1>1. PICK stop \in Slot : StopsAt(next_timeout_check_seq, stop, tail, replied_or_timeout)
  BY <1>a, WalkStops
<1>2. StopsAt(next_timeout_check_seq, OldestOpen, tail, replied_or_timeout)
  BY <1>1 DEF OldestOpen, StopsAt
<1> HIDE DEF OldestOpen
<1>3. OldestOpen \in Window(next_timeout_check_seq, tail) \cup {tail} /\ OldestOpen \in Slot
  BY <1>2, <1>a DEF StopsAt, Window
<1>4. Owner(OldestOpen, tail) = OwnerOf(OldestOpen, tail, sent)
  BY DEF Owner, OwnerOf
<1>5. ASSUME OldestOpen # tail
      PROVE  /\ ~replied_or_timeout[OldestOpen]
             /\ sent_times[OldestOpen] > 0
             /\ OwnerOf(OldestOpen, tail, sent) \in 1 .. sent
  <2>1. ~replied_or_timeout[OldestOpen]
    BY <1>2, <1>5 DEF StopsAt
  <2>2. OldestOpen \in Window(next_timeout_check_seq, tail)
    BY <1>3, <1>5
  <2>3. Dist(next_timeout_check_seq, tail) <= sent
    BY <1>a DEF UsedSlots
  <2>4. OwnerOf(OldestOpen, tail, sent) >= 1
    BY <1>a, <2>2, <2>3, OwnerOfInWindow
  <2>5. OwnerOf(OldestOpen, tail, sent) \in Int /\ OwnerOf(OldestOpen, tail, sent) <= sent
    BY <1>a, <1>3, OwnerOfFacts
  <2>6. sent_times[OldestOpen] > 0
    BY <1>a, <1>3, <2>4 DEF UsedSlots
  <2> QED BY <1>a, <2>1, <2>4, <2>5, <2>6
<1> QED BY <1>3, <1>4, <1>5

(* A packet is taken and its slot closed. *)
LEMMA DrainFacts ==
  ASSUME TypeInv, TakePacket,
         replied_or_timeout' \in {replied_or_timeout, CloseSlot(replied_or_timeout, OldestOpen)},
         keep_running' \in BOOLEAN, received' \in Nat,
         answered' \subseteq 1 .. sent
  PROVE  /\ LoopTypeOK'
         /\ sockbuf' \in Seq(Packet)
         /\ Head(sockbuf) = sockbuf[1] /\ 1 \in 1 .. Len(sockbuf) /\ sockbuf[1] \in Packet
         /\ \A i \in 1 .. Len(sockbuf') : i + 1 \in 1 .. Len(sockbuf) /\ sockbuf'[i] = sockbuf[i + 1]
         /\ UNCHANGED <<pc, exit_by, sent, next_timeout_check_seq, sent_times, clock, on_wire,
                        heard, expired, next_send_time>>
         /\ pc = "drain" /\ keep_running /\ Sound
<1>a. LoopTypeOK /\ sockbuf \in Seq(Packet) /\ pc = "drain"
  BY DEF TypeInv, TypeOK, TakePacket, Drains
<1>b. Sound
  BY <1>a DEF TypeInv, Sound
<1>1. OldestOpen \in Slot
  BY <1>b, OldestFacts
<1>2. replied_or_timeout' \in [Slot -> BOOLEAN]
  BY <1>a, <1>1 DEF CloseSlot, LoopTypeOK
<1> QED BY <1>a, <1>b, <1>2, TakeFacts

LEMMA TargetFacts ==
  ASSUME TypeInv, DrainTarget
  PROVE  /\ LoopTypeOK' /\ sockbuf' \in Seq(Packet)
         /\ \A i \in 1 .. Len(sockbuf') : i + 1 \in 1 .. Len(sockbuf) /\ sockbuf'[i] = sockbuf[i + 1]
         /\ 1 \in 1 .. Len(sockbuf) /\ sockbuf[1].about = "target" /\ sockbuf[1].sha \in Holders
         /\ UNCHANGED <<pc, exit_by, sent, next_timeout_check_seq, sent_times, clock, on_wire,
                        heard, expired, next_send_time, swallowed, options>>
         /\ pc = "drain" /\ keep_running /\ Sound
         /\ replied_or_timeout' = CloseSlot(replied_or_timeout, OldestOpen)
         /\ answered' = IF OldestOpen = tail THEN answered
                                             ELSE answered \cup {OwnerOf(OldestOpen, tail, sent)}
         /\ current_target_mac' = IF keep_broadcast THEN current_target_mac ELSE sockbuf[1].sha
         /\ received' = received + 1
         /\ keep_running' = IF Quits THEN FALSE ELSE keep_running
<1>a. /\ TakePacket /\ FromTarget(Head(sockbuf))
      /\ replied_or_timeout' = CloseSlot(replied_or_timeout, OldestOpen)
      /\ answered' = IF OldestOpen = tail THEN answered ELSE answered \cup {Owner(OldestOpen, tail)}
      /\ current_target_mac' = IF keep_broadcast THEN current_target_mac ELSE Head(sockbuf).sha
      /\ received' = received + 1
      /\ keep_running' = IF Quits THEN FALSE ELSE keep_running
      /\ UNCHANGED <<swallowed, options>>
  BY DEF DrainTarget, NextTarget
<1>b. LoopTypeOK /\ pc = "drain" /\ Sound
  BY <1>a DEF TypeInv, TypeOK, TakePacket, Drains, Sound
<1>1. answered' = IF OldestOpen = tail THEN answered
                                       ELSE answered \cup {OwnerOf(OldestOpen, tail, sent)}
  BY <1>a, <1>b, OldestFacts
<1>2. answered' \subseteq 1 .. sent
  BY <1>1, <1>b, OldestFacts DEF LoopTypeOK
<1>3. keep_running' \in BOOLEAN /\ received' \in Nat
  <2>1. keep_running \in BOOLEAN /\ received \in Nat
    BY <1>b DEF LoopTypeOK
  <2>2. received' \in Nat
    BY <1>a, <2>1
  <2>3. keep_running' \in BOOLEAN
    BY <1>a, <2>1, Zenon
  <2> QED BY <2>2, <2>3
<1>4. /\ LoopTypeOK'
      /\ sockbuf' \in Seq(Packet)
      /\ Head(sockbuf) = sockbuf[1] /\ 1 \in 1 .. Len(sockbuf) /\ sockbuf[1] \in Packet
      /\ \A i \in 1 .. Len(sockbuf') : i + 1 \in 1 .. Len(sockbuf) /\ sockbuf'[i] = sockbuf[i + 1]
      /\ UNCHANGED <<pc, exit_by, sent, next_timeout_check_seq, sent_times, clock, on_wire,
                     heard, expired, next_send_time>>
      /\ pc = "drain" /\ keep_running /\ Sound
  BY <1>a, <1>2, <1>3, DrainFacts
<1>5. sockbuf[1].about = "target"
  BY <1>a, <1>4 DEF FromTarget
<1>6. sockbuf[1].sha \in Holders
  BY <1>4, <1>5 DEF Packet
<1> QED BY <1>a, <1>1, <1>4, <1>5, <1>6

LEMMA OtherFacts ==
  ASSUME TypeInv, DrainOther
  PROVE  /\ LoopTypeOK' /\ sockbuf' \in Seq(Packet)
         /\ \A i \in 1 .. Len(sockbuf') : i + 1 \in 1 .. Len(sockbuf) /\ sockbuf'[i] = sockbuf[i + 1]
         /\ UNCHANGED <<pc, exit_by, sent, next_timeout_check_seq, sent_times, clock, on_wire,
                        heard, expired, next_send_time, answered, received, keep_running,
                        current_target_mac, options>>
         /\ pc = "drain" /\ Sound
         /\ replied_or_timeout' = CloseSlot(replied_or_timeout, OldestOpen)
         /\ swallowed' = IF OldestOpen = tail THEN swallowed
                                              ELSE swallowed \cup {OwnerOf(OldestOpen, tail, sent)}
<1>a. /\ TakePacket
      /\ replied_or_timeout' = CloseSlot(replied_or_timeout, OldestOpen)
      /\ swallowed' = IF OldestOpen = tail THEN swallowed
                                           ELSE swallowed \cup {Owner(OldestOpen, tail)}
      /\ UNCHANGED <<answered, received, keep_running, current_target_mac, options>>
  BY DEF DrainOther
<1>b. LoopTypeOK /\ pc = "drain" /\ Sound
  BY <1>a DEF TypeInv, TypeOK, TakePacket, Drains, Sound
<1>1. swallowed' = IF OldestOpen = tail THEN swallowed
                                        ELSE swallowed \cup {OwnerOf(OldestOpen, tail, sent)}
  BY <1>a, <1>b, OldestFacts
<1>2. answered' \subseteq 1 .. sent /\ keep_running' \in BOOLEAN /\ received' \in Nat
  BY <1>a, <1>b DEF LoopTypeOK
<1>3. /\ LoopTypeOK'
      /\ sockbuf' \in Seq(Packet)
      /\ \A i \in 1 .. Len(sockbuf') : i + 1 \in 1 .. Len(sockbuf) /\ sockbuf'[i] = sockbuf[i + 1]
      /\ UNCHANGED <<pc, exit_by, sent, next_timeout_check_seq, sent_times, clock, on_wire,
                     heard, expired, next_send_time>>
      /\ pc = "drain" /\ Sound
  BY <1>a, <1>2, DrainFacts
<1> QED BY <1>a, <1>1, <1>3

LEMMA IgnoreFacts ==
  ASSUME TypeInv, DrainIgnore
  PROVE  /\ LoopTypeOK' /\ sockbuf' \in Seq(Packet)
         /\ \A i \in 1 .. Len(sockbuf') : i + 1 \in 1 .. Len(sockbuf) /\ sockbuf'[i] = sockbuf[i + 1]
         /\ UNCHANGED <<pc, exit_by, sent, slots, clock, on_wire, heard, expired, next_send_time,
                        answered, received, keep_running, own>>
<1>a. TakePacket /\ UNCHANGED <<keep_running, received, replied_or_timeout, answered, own>>
  BY DEF DrainIgnore, IgnorePacket
<1>1. answered' \subseteq 1 .. sent /\ keep_running' \in BOOLEAN /\ received' \in Nat
  BY <1>a DEF TypeInv, TypeOK, LoopTypeOK
<1>2. /\ LoopTypeOK'
      /\ sockbuf' \in Seq(Packet)
      /\ \A i \in 1 .. Len(sockbuf') : i + 1 \in 1 .. Len(sockbuf) /\ sockbuf'[i] = sockbuf[i + 1]
      /\ UNCHANGED <<pc, exit_by, sent, next_timeout_check_seq, sent_times, clock, on_wire,
                     heard, expired, next_send_time>>
  BY <1>a, <1>1, DrainFacts
<1> QED BY <1>a, <1>2 DEF slots

(* What the world puts into the buffer. *)
LEMMA ReplyPacket ==
  ASSUME ArriveReply
  PROVE  \E p \in Packet : Enqueue(p) /\ p.about = "target"
<1>1. PICK m \in Holders : Enqueue([about |-> "target", sha |-> m])
  BY DEF ArriveReply
<1>2. [about |-> "target", sha |-> m] \in Packet
  BY DEF Packet
<1> QED BY <1>1, <1>2

LEMMA OtherPackets ==
  /\ [about |-> "other", sha |-> Bystander] \in Packet
  /\ [about |-> "nothing", sha |-> Bystander] \in Packet
BY DEF Packet

-------------------------------------------------------------------------------
LEMMA TypeInit == Init => TypeInv
<1> SUFFICES ASSUME Init PROVE TypeInv
  OBVIOUS
<1>1. sent = 0 /\ tail \in Slot /\ tail = 0
  BY TailFacts, SeqModAssumption DEF Init, LoopInit, tail
<1>2. LoopTypeOK
  BY <1>1, LoopAssumption DEF Init, LoopInit, LoopTypeOK, StartTime
<1>3. TypeOK
  BY <1>2 DEF Init, LoopInit, TypeOK
<1>4. UsedSlots(sent_times, next_timeout_check_seq, tail, sent)
  <2>1. next_timeout_check_seq = tail /\ sent_times = [s \in Slot |-> 0]
    BY <1>1 DEF Init, LoopInit
  <2> QED BY <1>1, <2>1, SeqModAssumption DEF UsedSlots, OwnerOf, Dist, Slot
<1>5. on_wire \subseteq Request /\ sockbuf \in Seq(Packet) /\ Sound
  BY DEF Init, LoopInit, Sound
<1>6. exit_by \notin {"error", "count"}
  BY DEF Init, LoopInit
<1> QED BY <1>3, <1>4, <1>5, <1>6 DEF TypeInv

LEMMA TypeStep == TypeInv /\ [Next]_vars => TypeInv'
<1> SUFFICES ASSUME TypeInv, [Next]_vars PROVE TypeInv'
  OBVIOUS
<1>a. /\ LoopTypeOK /\ sockbuf \in Seq(Packet) /\ on_wire \subseteq Request
      /\ pc \in {"head", "sweep", "call", "poll", "drain", "done"}
      /\ exit_by \in {"none", "signal", "count", "error"}
      /\ quit_on_reply \in BOOLEAN /\ keep_broadcast \in BOOLEAN
      /\ current_target_mac \in Holders \cup {Broadcast} /\ swallowed \subseteq 1 .. sent
      /\ sent \in Nat /\ clock \in Nat \ {0}
      /\ next_timeout_check_seq \in Slot /\ sent_times \in [Slot -> Nat]
  BY DEF TypeInv, TypeOK, LoopTypeOK
<1>b. tail \in Slot /\ (sent + 1) % SeqMod = Succ(tail)
  BY <1>a, TailFacts
<1>c. /\ ~Sound => pc = "done"
      /\ Sound => UsedSlots(sent_times, next_timeout_check_seq, tail, sent)
  BY DEF TypeInv, Sound
<1>d. exit_by \in {"error", "count"} => pc = "done"
  BY DEF TypeInv
(* A step that leaves the accounts alone. *)
<1>s. ASSUME LoopTypeOK', UNCHANGED <<sent, sent_times, next_timeout_check_seq>>, UNCHANGED options,
             current_target_mac' \in Holders \cup {Broadcast}, swallowed' \subseteq 1 .. sent,
             on_wire' \subseteq Request, sockbuf' \in Seq(Packet),
             pc' \in {"head", "sweep", "call", "poll", "drain", "done"},
             \/ exit_by' = exit_by /\ (pc' = "done" <=> pc = "done")
             \/ exit_by' = "signal" /\ pc # "done"
      PROVE  TypeInv'
  <2>1. tail' = tail
    BY <1>s DEF tail
  <2>2. (exit_by \in {"error", "count"} => pc = "done")' /\ (Sound' => Sound)
    BY <1>c, <1>d, <1>s DEF Sound
  <2>3. Sound' => UsedSlots(sent_times, next_timeout_check_seq, tail, sent)'
    BY <1>c, <1>s, <2>1, <2>2 DEF UsedSlots
  <2>4. TypeOK'
    BY <1>a, <1>s DEF TypeOK, options
  <2> QED BY <1>s, <2>2, <2>3, <2>4 DEF TypeInv
<1>1. CASE Quiet
  BY <1>1, <1>a, <1>s, QuietFacts DEF Quiet, own, slots
<1>2. CASE HeadSend
  <2>1. OpenSlot(tail) /\ CountSend /\ UNCHANGED own
        /\ on_wire' = on_wire \cup {[probe |-> sent + 1, to |-> current_target_mac, at |-> clock]}
    BY <1>2 DEF HeadSend
  <2>2. /\ LoopTypeOK' /\ sent_times' = [sent_times EXCEPT ![tail] = clock]
        /\ sent' = sent + 1 /\ pc = "head" /\ pc' = "sweep"
        /\ UNCHANGED <<exit_by, next_timeout_check_seq, sockbuf>>
    BY <1>a, <1>b, <2>1, SendFacts
  <2>3. tail' = Succ(tail)
    BY <1>b, <2>2 DEF tail
  <2>4. Sound /\ Sound'
    BY <1>c, <2>2 DEF Sound
  <2>5. UsedSlots([sent_times EXCEPT ![tail] = clock], next_timeout_check_seq, Succ(tail), sent + 1)
    BY <1>a, <1>b, <1>c, <2>4, UsedAfterSend
  <2>6. UsedSlots(sent_times, next_timeout_check_seq, tail, sent)'
    BY <2>2, <2>3, <2>5 DEF UsedSlots
  <2>7. on_wire' \subseteq Request
    <3>1. [probe |-> sent + 1, to |-> current_target_mac, at |-> clock] \in Request
      BY <1>a DEF Request
    <3> QED BY <1>a, <2>1, <3>1
  <2>8. swallowed' \subseteq 1 .. sent'
    BY <1>a, <2>1, <2>2 DEF own
  <2> QED BY <1>a, <2>1, <2>2, <2>4, <2>6, <2>7, <2>8 DEF TypeInv, TypeOK, own, options
<1>3. CASE HeadSendFails
  <2>1. /\ LoopTypeOK' /\ pc' = "done" /\ exit_by' = "error"
        /\ UNCHANGED <<sent, on_wire, sockbuf, own>>
    BY <1>3, FailFacts
  <2>2. ~Sound'
    BY <2>1 DEF Sound
  <2> QED BY <1>a, <2>1, <2>2 DEF TypeInv, TypeOK, own, options
<1>4. CASE Sweep
  <2>1. SweepTo(tail) /\ UNCHANGED own /\ pc = "sweep"
    BY <1>4 DEF Sweep, SweepTo
  <2>2. Sound
    BY <1>c, <2>1
  <2>3. /\ LoopTypeOK' /\ pc' \in {"done", "call"}
        /\ UNCHANGED <<sent, sent_times, on_wire, sockbuf>>
        /\ \E h \in Slot, lost \in SUBSET Slot :
              /\ h \in Window(next_timeout_check_seq, tail) \cup {tail}
              /\ lost = {s \in Window(next_timeout_check_seq, h) : ~replied_or_timeout[s]}
              /\ next_timeout_check_seq' = h
              /\ replied_or_timeout' = [s \in Slot |-> replied_or_timeout[s] \/ s \in lost]
              /\ expired' = expired \cup {OwnerOf(s, tail, sent) : s \in lost}
              /\ IF AllDone(h, tail) THEN pc' = "done" /\ exit_by' = "count"
                                     ELSE pc' = "call" /\ exit_by' = exit_by
    BY <1>a, <1>b, <1>c, <2>1, <2>2, SweepFacts
  <2>4. PICK h \in Slot : /\ h \in Window(next_timeout_check_seq, tail) \cup {tail}
                          /\ next_timeout_check_seq' = h
                          /\ exit_by' \in {"count", exit_by}
    BY <2>3
  <2>5. UsedSlots(sent_times, h, tail, sent)
    BY <1>a, <1>b, <1>c, <2>2, <2>4, UsedAfterSweep
  <2>6. tail' = tail
    BY <2>3 DEF tail
  <2>7. UsedSlots(sent_times, next_timeout_check_seq, tail, sent)'
    BY <2>3, <2>4, <2>5, <2>6 DEF UsedSlots
  <2>8. Sound'
    BY <2>2, <2>4 DEF Sound
  <2> QED BY <1>a, <2>1, <2>3, <2>4, <2>7, <2>8 DEF TypeInv, TypeOK, own, options
<1>5. CASE DrainIgnore
  BY <1>5, <1>a, <1>s, IgnoreFacts DEF own, slots
<1>6. CASE DrainTarget
  BY <1>6, <1>a, <1>s, TargetFacts
<1>7. CASE DrainOther
  <2>1. swallowed' \subseteq 1 .. sent
    BY <1>7, <1>a, OtherFacts, OldestFacts
  <2> QED BY <1>7, <1>a, <1>s, <2>1, OtherFacts
<1>e. ASSUME NEW p \in Packet, Enqueue(p), UNCHANGED own PROVE TypeInv'
  BY <1>a, <1>e, <1>s, EnqueueFacts DEF own, slots
<1>8. CASE ArriveReply /\ UNCHANGED own
  BY <1>8, <1>e, ReplyPacket
<1>9. CASE ArriveOther /\ UNCHANGED own
  BY <1>9, <1>e, OtherPackets DEF ArriveOther
<1>10. CASE ArriveNothing /\ UNCHANGED own
  BY <1>10, <1>e, OtherPackets DEF ArriveNothing
<1> QED BY <1>1, <1>2, <1>3, <1>4, <1>5, <1>6, <1>7, <1>8, <1>9, <1>10, NextSplits

(* Every variable keeps its type for all parameters, and only probes that  *)
(* were sent are filed: a reply that carries no number is taken for one of *)
(* them, or for none.                                                      *)
THEOREM TypeCorrect == Spec => []TypeOK
<1>1. TypeInv => TypeOK
  BY DEF TypeInv
<1> QED BY <1>1, TypeInit, TypeStep, PTL DEF Spec

-------------------------------------------------------------------------------
(* The window never takes up the whole ring.                               *)

PaceInv ==
  Sound => Paced(sent_times, next_timeout_check_seq, tail, next_send_time, clock, pc # "sweep")

LEMMA PaceInit == Init => PaceInv
<1> SUFFICES ASSUME Init PROVE PaceInv
  OBVIOUS
<1>1. /\ next_timeout_check_seq = tail /\ tail \in Slot /\ clock = 1
      /\ sent_times = [s \in Slot |-> 0]
  BY TailFacts, SeqModAssumption DEF Init, LoopInit, StartTime, tail
<1>2. Window(tail, tail) = {}
  BY <1>1, SlotFacts DEF Window
<1> QED BY <1>1, <1>2 DEF PaceInv, Paced, Spaced, Fresh

(* There is a free slot when a probe is sent. *)
LEMMA Room ==
  ASSUME EnoughSlots, TypeInv, PaceInv, HeadSend
  PROVE  Dist(next_timeout_check_seq, tail) < SeqMod - 1
<1>1. /\ OpenSlot(tail) /\ CountSend /\ LoopTypeOK /\ tail \in Slot
  BY TailFacts DEF HeadSend, TypeInv, TypeOK, LoopTypeOK
<1>2. pc = "head" /\ (Count = 0 \/ sent < Count) /\ sent \in Nat
      /\ next_timeout_check_seq \in Slot /\ sent_times \in [Slot -> Nat]
  BY <1>1, SendFacts DEF LoopTypeOK
<1>3. Sound /\ UsedSlots(sent_times, next_timeout_check_seq, tail, sent)
  BY <1>2 DEF TypeInv, Sound
<1>4. Paced(sent_times, next_timeout_check_seq, tail, next_send_time, clock, TRUE)
  BY <1>2, <1>3 DEF PaceInv, Paced
<1> QED BY <1>1, <1>2, <1>3, <1>4, RoomForProbe

LEMMA PaceStep == EnoughSlots /\ TypeInv /\ PaceInv /\ [Next]_vars => PaceInv'
<1> SUFFICES ASSUME EnoughSlots, TypeInv, PaceInv, [Next]_vars PROVE PaceInv'
  OBVIOUS
<1>a. /\ LoopTypeOK /\ sockbuf \in Seq(Packet) /\ clock \in Nat /\ next_send_time \in Nat
      /\ sent \in Nat /\ next_timeout_check_seq \in Slot /\ sent_times \in [Slot -> Nat]
  BY DEF TypeInv, TypeOK, LoopTypeOK
<1>b. tail \in Slot /\ (sent + 1) % SeqMod = Succ(tail)
  BY <1>a, TailFacts
(* A step that leaves the window alone. *)
<1>s. ASSUME UNCHANGED <<sent, sent_times, next_timeout_check_seq, next_send_time>>,
             clock' \in Nat, clock' >= clock, pc = "sweep" => pc' = "sweep",
             exit_by' # exit_by => Sound
      PROVE  PaceInv'
  <2>1. tail' = tail /\ (Sound' => Sound)
    BY <1>s DEF tail, Sound
  <2>2. ASSUME Sound
        PROVE  Paced(sent_times, next_timeout_check_seq, tail, next_send_time, clock', pc' # "sweep")
    <3> DEFINE before == pc # "sweep"
               after  == pc' # "sweep"
               later  == clock'
    <3>1. Paced(sent_times, next_timeout_check_seq, tail, next_send_time, clock, before)
      BY <2>2 DEF PaceInv
    <3>2. later \in Nat /\ later >= clock /\ (after => before)
      BY <1>s
    <3> HIDE DEF before, after, later
    <3>3. Paced(sent_times, next_timeout_check_seq, tail, next_send_time, later, after)
      BY <1>a, <3>1, <3>2, PacedLater
    <3> QED BY <3>3 DEF after, later
  <2> QED BY <1>s, <2>1, <2>2 DEF PaceInv, Paced, Spaced, Fresh
<1>1. CASE Quiet
  <2>1. /\ UNCHANGED <<sent, slots, next_send_time>> /\ clock' >= clock /\ LoopTypeOK'
        /\ pc = "sweep" => pc' = "sweep"
        /\ exit_by' # exit_by => pc # "done"
    BY <1>1, <1>a, QuietFacts DEF Quiet
  <2>2. pc # "done" => Sound
    BY DEF TypeInv, Sound
  <2> QED BY <1>s, <2>1, <2>2 DEF slots, LoopTypeOK
<1>2. CASE HeadSend
  <2>1. OpenSlot(tail) /\ CountSend
    BY <1>2 DEF HeadSend
  <2>2. /\ sent_times' = [sent_times EXCEPT ![tail] = clock]
        /\ sent' = sent + 1 /\ pc = "head" /\ pc' = "sweep"
        /\ next_send_time <= clock /\ next_send_time' = clock + Interval
        /\ UNCHANGED <<exit_by, next_timeout_check_seq, clock>>
    BY <1>a, <1>b, <2>1, SendFacts
  <2>3. tail' = Succ(tail) /\ Sound
    BY <1>b, <2>2 DEF tail, TypeInv, Sound
  <2>4. Dist(next_timeout_check_seq, tail) < SeqMod - 1
    BY <1>2, Room
  <2>5. Paced(sent_times, next_timeout_check_seq, tail, next_send_time, clock, TRUE)
    BY <2>2, <2>3 DEF PaceInv, Paced
  <2>6. Paced([sent_times EXCEPT ![tail] = clock], next_timeout_check_seq, Succ(tail),
              clock + Interval, clock, FALSE)
    BY <1>a, <1>b, <2>2, <2>4, <2>5, PacedAfterSend
  <2> QED BY <2>2, <2>3, <2>6 DEF PaceInv, Paced, Spaced
<1>3. CASE HeadSendFails
  BY <1>3, FailFacts DEF PaceInv, Sound
<1>4. CASE Sweep
  <2>1. SweepTo(tail) /\ pc = "sweep"
    BY <1>4 DEF Sweep, SweepTo
  <2>2. Sound /\ UsedSlots(sent_times, next_timeout_check_seq, tail, sent)
    BY <2>1 DEF TypeInv, Sound
  <2>3. /\ UNCHANGED <<sent, sent_times, clock, next_send_time>>
        /\ \E h \in Slot :
             /\ SweepStopsAt(next_timeout_check_seq, h, tail, replied_or_timeout, sent_times, clock,
                             Timeout)
             /\ next_timeout_check_seq' = h
    BY <1>a, <1>b, <2>1, <2>2, SweepFacts
  <2>4. PICK h \in Slot :
             /\ SweepStopsAt(next_timeout_check_seq, h, tail, replied_or_timeout, sent_times, clock,
                             Timeout)
             /\ next_timeout_check_seq' = h
    BY <2>3
  <2>5. Paced(sent_times, next_timeout_check_seq, tail, next_send_time, clock, pc # "sweep")
    BY <2>2 DEF PaceInv
  <2>6. Paced(sent_times, h, tail, next_send_time, clock, TRUE)
    BY <1>a, <1>b, <2>4, <2>5, PacedAfterSweep
  <2>7. tail' = tail
    BY <2>3 DEF tail
  <2> QED BY <2>3, <2>4, <2>6, <2>7 DEF PaceInv, Paced, Spaced, Fresh
<1>5. CASE DrainIgnore
  BY <1>5, <1>a, <1>s, IgnoreFacts DEF slots
<1>6. CASE DrainTarget
  BY <1>6, <1>a, <1>s, TargetFacts
<1>7. CASE DrainOther
  BY <1>7, <1>a, <1>s, OtherFacts
<1>e. ASSUME NEW p \in Packet, Enqueue(p) PROVE PaceInv'
  <2>1. UNCHANGED <<pc, exit_by, sent, slots, clock, next_send_time>>
    BY <1>a, <1>e, EnqueueFacts
  <2> QED BY <1>a, <1>s, <2>1 DEF slots
<1>8. CASE ArriveReply /\ UNCHANGED own
  BY <1>8, <1>e, ReplyPacket
<1>9. CASE ArriveOther /\ UNCHANGED own
  BY <1>9, <1>e, OtherPackets DEF ArriveOther
<1>10. CASE ArriveNothing /\ UNCHANGED own
  BY <1>10, <1>e, OtherPackets DEF ArriveNothing
<1> QED BY <1>1, <1>2, <1>3, <1>4, <1>5, <1>6, <1>7, <1>8, <1>9, <1>10, NextSplits

-------------------------------------------------------------------------------
(* Each probe has one fate: an open slot belongs to a probe that has met    *)
(* none yet.                                                               *)

Filed == answered \cup expired \cup swallowed

FatesApart == answered \cap expired = {} /\ answered \cap swallowed = {} /\ expired \cap swallowed = {}

FateInv ==
  /\ FatesApart
  /\ Sound => OpenUnfiled(sent_times, replied_or_timeout, tail, sent, Filed)

(* If the slots are enough, no probe is forgotten. *)
CompleteInv ==
  /\ Sound => NoneForgotten(sent_times, replied_or_timeout, next_timeout_check_seq, tail, sent, Filed)
  /\ exit_by = "count" => 1 .. sent \subseteq Filed

(* A step that leaves the accounts alone. *)
LEMMA FatesKept ==
  ASSUME UNCHANGED <<sent, slots, answered, expired, swallowed>>,
         exit_by' # exit_by => exit_by' = "signal" /\ Sound
  PROVE  (FateInv => FateInv') /\ (CompleteInv => CompleteInv')
<1>1. UNCHANGED <<tail, Filed, sent, sent_times, replied_or_timeout, next_timeout_check_seq,
                  answered, expired, swallowed>>
  BY DEF tail, Filed, slots
<1>2. Sound' => Sound
  BY DEF Sound
<1>3. exit_by' = "count" => exit_by = "count"
  OBVIOUS
<1>4. FateInv => FateInv'
  BY <1>1, <1>2 DEF FateInv, FatesApart, OpenUnfiled
<1>5. CompleteInv => CompleteInv'
  BY <1>1, <1>2, <1>3 DEF CompleteInv, NoneForgotten
<1> QED BY <1>4, <1>5

LEMMA FatesAfterClose ==
  ASSUME TypeInv, Sound, FateInv, UNCHANGED <<sent, sent_times, next_timeout_check_seq, exit_by>>,
         replied_or_timeout' = CloseSlot(replied_or_timeout, OldestOpen),
         NEW more, more = IF OldestOpen = tail THEN {} ELSE {OwnerOf(OldestOpen, tail, sent)},
         Filed' = Filed \cup more
  PROVE  /\ more \cap Filed = {}
         /\ OpenUnfiled(sent_times, replied_or_timeout, tail, sent, Filed)'
         /\ CompleteInv => CompleteInv'
<1> DEFINE s == OldestOpen
<1>a. /\ tail \in Slot /\ sent \in Nat /\ replied_or_timeout \in [Slot -> BOOLEAN]
      /\ OpenUnfiled(sent_times, replied_or_timeout, tail, sent, Filed)
  BY TailFacts DEF TypeInv, TypeOK, LoopTypeOK, FateInv
<1>b. /\ s \in Slot
      /\ s # tail => ~replied_or_timeout[s] /\ sent_times[s] > 0
  BY OldestFacts
<1>c. /\ replied_or_timeout' = IF s = tail THEN replied_or_timeout
                                           ELSE [replied_or_timeout EXCEPT ![s] = TRUE]
      /\ more = IF s = tail THEN {} ELSE {OwnerOf(s, tail, sent)}
  BY DEF CloseSlot
<1> HIDE DEF s
<1>d. tail' = tail
  BY DEF tail
<1>1. more \cap Filed = {}
  BY <1>a, <1>b, <1>c DEF OpenUnfiled
<1>2. CASE s = tail
  <2>1. UNCHANGED <<tail, Filed, sent, sent_times, replied_or_timeout, next_timeout_check_seq, exit_by>>
    BY <1>2, <1>c, <1>d
  <2>2. OpenUnfiled(sent_times, replied_or_timeout, tail, sent, Filed)'
    BY <1>a, <2>1 DEF OpenUnfiled
  <2>3. CompleteInv => CompleteInv'
    BY <2>1 DEF CompleteInv, NoneForgotten, Sound
  <2> QED BY <1>1, <2>2, <2>3
<1>3. CASE s # tail
  <2>1. replied_or_timeout' = [replied_or_timeout EXCEPT ![s] = TRUE]
        /\ more = {OwnerOf(s, tail, sent)}
    BY <1>3, <1>c
  <2>2. OpenUnfiled(sent_times, [replied_or_timeout EXCEPT ![s] = TRUE], tail, sent,
                    Filed \cup {OwnerOf(s, tail, sent)})
    BY <1>a, <1>b, UnfiledAfterClose
  <2>3. OpenUnfiled(sent_times, replied_or_timeout, tail, sent, Filed)'
    BY <1>d, <2>1, <2>2 DEF OpenUnfiled
  <2>4. ASSUME CompleteInv PROVE CompleteInv'
    <3>1. NoneForgotten(sent_times, replied_or_timeout, next_timeout_check_seq, tail, sent, Filed)
      BY <2>4 DEF CompleteInv
    <3>2. NoneForgotten(sent_times, [replied_or_timeout EXCEPT ![s] = TRUE], next_timeout_check_seq,
                        tail, sent, Filed \cup more)
      BY <1>a, <1>b, <2>1, <3>1, ForgottenAfterClose
    <3>3. NoneForgotten(sent_times, replied_or_timeout, next_timeout_check_seq, tail, sent, Filed)'
      BY <1>d, <2>1, <3>2 DEF NoneForgotten
    <3> QED BY <2>4, <3>3 DEF CompleteInv
  <2> QED BY <1>1, <2>3, <2>4
<1> QED BY <1>2, <1>3

LEMMA FateInit == Init => FateInv /\ CompleteInv
<1> SUFFICES ASSUME Init PROVE FateInv /\ CompleteInv
  OBVIOUS
<1>1. /\ answered = {} /\ expired = {} /\ swallowed = {} /\ sent = 0 /\ exit_by = "none"
      /\ sent_times = [s \in Slot |-> 0]
  BY DEF Init, LoopInit
<1>2. FateInv
  BY <1>1 DEF FateInv, FatesApart, OpenUnfiled, Filed
<1>3. CompleteInv
  <2>1. 1 .. sent - SeqMod = {} /\ 1 .. sent = {}
    BY <1>1, SeqModAssumption
  <2> QED BY <1>1, <2>1 DEF CompleteInv, NoneForgotten
<1> QED BY <1>2, <1>3

LEMMA FateStep ==
  TypeInv /\ FateInv /\ [Next]_vars
    => FateInv' /\ (EnoughSlots /\ PaceInv /\ CompleteInv => CompleteInv')
<1> SUFFICES ASSUME TypeInv, FateInv, [Next]_vars
             PROVE  FateInv' /\ (EnoughSlots /\ PaceInv /\ CompleteInv => CompleteInv')
  OBVIOUS
<1>a. /\ LoopTypeOK /\ sockbuf \in Seq(Packet)
      /\ sent \in Nat /\ clock \in Nat \ {0} /\ Filed \subseteq 1 .. sent
      /\ next_timeout_check_seq \in Slot /\ sent_times \in [Slot -> Nat]
      /\ replied_or_timeout \in [Slot -> BOOLEAN]
  BY DEF TypeInv, TypeOK, LoopTypeOK, Filed
<1>b. tail \in Slot /\ (sent + 1) % SeqMod = Succ(tail)
  BY <1>a, TailFacts
<1>c. /\ pc # "done" => Sound /\ exit_by # "count"
      /\ Sound => UsedSlots(sent_times, next_timeout_check_seq, tail, sent)
      /\ Sound => OpenUnfiled(sent_times, replied_or_timeout, tail, sent, Filed)
  BY DEF TypeInv, FateInv, Sound
<1>1. CASE Quiet
  <2>1. /\ UNCHANGED <<sent, slots, history>>
        /\ exit_by' # exit_by => exit_by' = "signal" /\ pc # "done"
    <3>1. QuietStep
      BY <1>1 DEF Quiet
    <3>2. /\ UNCHANGED <<sent, received, slots, history, on_wire, sockbuf, heard>>
          /\ \/ exit_by' = exit_by /\ (pc' = "done" <=> pc = "done")
             \/ exit_by' = "signal" /\ pc' = "done" /\ pc # "done" /\ ~keep_running
      BY <1>a, <3>1, QuietFacts
    <3> QED BY <3>2
  <2>2. UNCHANGED <<answered, expired, swallowed>>
    BY <1>1, <2>1 DEF Quiet, own, history
  <2> QED BY <1>c, <2>1, <2>2, FatesKept
<1>2. CASE HeadSend
  <2>1. OpenSlot(tail) /\ CountSend /\ UNCHANGED own
    BY <1>2 DEF HeadSend
  <2>2. /\ sent_times' = [sent_times EXCEPT ![tail] = clock]
        /\ replied_or_timeout' = [replied_or_timeout EXCEPT ![tail] = FALSE]
        /\ sent' = sent + 1 /\ pc = "head"
        /\ Count = 0 \/ sent < Count
        /\ UNCHANGED <<exit_by, next_timeout_check_seq, answered, expired>>
    BY <1>a, <1>b, <2>1, SendFacts
  <2>3. tail' = Succ(tail) /\ Filed' = Filed
    BY <1>b, <2>1, <2>2 DEF tail, Filed, own
  <2>4. Sound /\ exit_by' # "count"
    BY <1>c, <2>2
  <2>5. OpenUnfiled([sent_times EXCEPT ![tail] = clock], [replied_or_timeout EXCEPT ![tail] = FALSE],
                    Succ(tail), sent + 1, Filed)
    BY <1>a, <1>b, <1>c, <2>4, UnfiledAfterSend
  <2>6. OpenUnfiled(sent_times, replied_or_timeout, tail, sent, Filed)'
    BY <2>2, <2>3, <2>5 DEF OpenUnfiled
  <2>7. FateInv'
    BY <2>1, <2>2, <2>6 DEF FateInv, FatesApart, own
  <2>8. ASSUME EnoughSlots, PaceInv, CompleteInv PROVE CompleteInv'
    <3>1. Dist(next_timeout_check_seq, tail) < SeqMod - 1
      BY <1>2, <2>8, Room
    <3>2. UsedSlots(sent_times, next_timeout_check_seq, tail, sent) /\ clock \in Nat
      BY <1>a, <1>c, <2>4
    <3>3. NoneForgotten(sent_times, replied_or_timeout, next_timeout_check_seq, tail, sent, Filed)
      BY <2>4, <2>8 DEF CompleteInv
    <3>4. NoneForgotten([sent_times EXCEPT ![tail] = clock],
                        [replied_or_timeout EXCEPT ![tail] = FALSE], next_timeout_check_seq,
                        Succ(tail), sent + 1, Filed)
      BY <1>a, <1>b, <3>1, <3>2, <3>3, ForgottenAfterSend
    <3>5. NoneForgotten(sent_times, replied_or_timeout, next_timeout_check_seq, tail, sent, Filed)'
      BY <2>2, <2>3, <3>4 DEF NoneForgotten
    <3> QED BY <2>4, <3>5 DEF CompleteInv
  <2> QED BY <2>7, <2>8
<1>3. CASE HeadSendFails
  <2>1. exit_by' = "error" /\ UNCHANGED <<sent, history, own>>
    BY <1>3, FailFacts
  <2>2. ~Sound' /\ exit_by' # "count"
    BY <2>1 DEF Sound
  <2>3. FateInv'
    BY <2>1, <2>2 DEF FateInv, FatesApart, history, own
  <2>4. CompleteInv => CompleteInv'
    BY <2>1, <2>2 DEF CompleteInv
  <2> QED BY <2>3, <2>4
<1>4. CASE Sweep
  <2>1. SweepTo(tail) /\ UNCHANGED own /\ pc = "sweep"
    BY <1>4 DEF Sweep, SweepTo
  <2>2. Sound
    BY <1>c, <2>1
  <2>3. /\ UNCHANGED <<sent, sent_times, answered>>
        /\ \E h \in Slot, lost \in SUBSET Slot :
              /\ h \in Window(next_timeout_check_seq, tail) \cup {tail}
              /\ lost = {s \in Window(next_timeout_check_seq, h) : ~replied_or_timeout[s]}
              /\ next_timeout_check_seq' = h
              /\ replied_or_timeout' = [s \in Slot |-> replied_or_timeout[s] \/ s \in lost]
              /\ expired' = expired \cup {OwnerOf(s, tail, sent) : s \in lost}
              /\ IF AllDone(h, tail) THEN pc' = "done" /\ exit_by' = "count"
                                     ELSE pc' = "call" /\ exit_by' = exit_by
    BY <1>a, <1>b, <1>c, <2>1, <2>2, SweepFacts
  <2>4. PICK h \in Slot, lost \in SUBSET Slot :
              /\ h \in Window(next_timeout_check_seq, tail) \cup {tail}
              /\ lost = {s \in Window(next_timeout_check_seq, h) : ~replied_or_timeout[s]}
              /\ next_timeout_check_seq' = h
              /\ replied_or_timeout' = [s \in Slot |-> replied_or_timeout[s] \/ s \in lost]
              /\ expired' = expired \cup {OwnerOf(s, tail, sent) : s \in lost}
              /\ IF AllDone(h, tail) THEN exit_by' = "count" ELSE exit_by' = exit_by
    BY <2>3
  <2>5. tail' = tail /\ Filed' = Filed \cup {OwnerOf(s, tail, sent) : s \in lost}
    BY <2>1, <2>3, <2>4 DEF tail, Filed, own
  <2>6. OpenUnfiled(sent_times, [s \in Slot |-> replied_or_timeout[s] \/ s \in lost], tail, sent,
                    Filed \cup {OwnerOf(s, tail, sent) : s \in lost})
    BY <1>a, <1>b, <1>c, <2>2, UnfiledAfterSweep
  <2>7. OpenUnfiled(sent_times, replied_or_timeout, tail, sent, Filed)'
    BY <2>3, <2>4, <2>5, <2>6 DEF OpenUnfiled
  <2>8. \A s \in lost : OwnerOf(s, tail, sent) \notin Filed
    <3>1. \A s \in lost : sent_times[s] > 0 /\ ~replied_or_timeout[s]
      BY <1>a, <1>b, <1>c, <2>2, <2>4, SweptSlots
    <3> QED BY <1>c, <2>2, <3>1 DEF OpenUnfiled
  <2>9. FatesApart'
    BY <2>1, <2>3, <2>4, <2>8 DEF FateInv, FatesApart, Filed, own
  <2>10. FateInv'
    BY <2>7, <2>9 DEF FateInv
  <2>11. ASSUME CompleteInv PROVE CompleteInv'
    <3>1. NoneForgotten(sent_times, replied_or_timeout, next_timeout_check_seq, tail, sent, Filed)
      BY <2>2, <2>11 DEF CompleteInv
    <3>2. NoneForgotten(sent_times, [s \in Slot |-> replied_or_timeout[s] \/ s \in lost], h, tail, sent,
                        Filed \cup {OwnerOf(s, tail, sent) : s \in lost})
      <4>1. /\ h \in Window(next_timeout_check_seq, tail) \cup {tail}
            /\ \A s \in Slot : s \in lost <=> /\ s \in Window(next_timeout_check_seq, h)
                                            /\ ~replied_or_timeout[s]
        BY <2>4
      <4>2. /\ tail \in Slot /\ sent \in Nat /\ next_timeout_check_seq \in Slot
            /\ replied_or_timeout \in [Slot -> BOOLEAN] /\ h \in Slot /\ lost \in SUBSET Slot
        BY <1>a, <1>b
      <4> DEFINE swept   == [s \in Slot |-> replied_or_timeout[s] \/ s \in lost]
                 settled == Filed \cup {OwnerOf(s, tail, sent) : s \in lost}
      <4>3. /\ swept \in [Slot -> BOOLEAN] /\ \A s \in Slot : swept[s] <=> replied_or_timeout[s] \/ s \in lost
            /\ Filed \subseteq settled /\ \A s \in lost : OwnerOf(s, tail, sent) \in settled
        BY <4>2
      <4> HIDE DEF swept, settled
      <4>4. NoneForgotten(sent_times, swept, h, tail, sent, settled)
        BY <3>1, <4>1, <4>2, <4>3, ForgottenAfterSweep
      <4> QED BY <4>4 DEF swept, settled
    <3>3. NoneForgotten(sent_times, replied_or_timeout, next_timeout_check_seq, tail, sent, Filed)'
      BY <2>3, <2>4, <2>5, <3>2 DEF NoneForgotten
    <3>4. ASSUME AllDone(h, tail) PROVE 1 .. sent \subseteq Filed'
      <4>1. h = tail
        BY <3>4 DEF AllDone
      <4>2. UsedSlots(sent_times, tail, tail, sent)
        BY <1>a, <1>b, <1>c, <2>2, <2>4, <4>1, UsedAfterSweep
      <4>3. NoneForgotten(sent_times, [s \in Slot |-> replied_or_timeout[s] \/ s \in lost], tail, tail,
                          sent, Filed \cup {OwnerOf(s, tail, sent) : s \in lost})
        BY <3>2, <4>1
      <4> QED BY <1>a, <1>b, <2>5, <4>2, <4>3, AllFiled
    <3>5. exit_by' = "count" => 1 .. sent' \subseteq Filed'
      <4>1. CASE AllDone(h, tail)
        BY <2>3, <3>4, <4>1
      <4>2. CASE ~AllDone(h, tail)
        <5>1. exit_by' = exit_by /\ exit_by # "count"
          BY <1>c, <2>1, <2>4, <4>2
        <5> QED BY <5>1
      <4> QED BY <4>1, <4>2
    <3> QED BY <2>3, <2>11, <3>3, <3>5 DEF CompleteInv
  <2> QED BY <2>10, <2>11
<1>5. CASE DrainIgnore
  <2>1. UNCHANGED <<sent, slots, exit_by, answered, expired, own>>
    BY <1>5, IgnoreFacts
  <2>2. UNCHANGED swallowed
    BY <2>1 DEF own
  <2>3. UNCHANGED <<sent, slots, answered, expired, swallowed>> /\ exit_by' = exit_by
    BY <2>1, <2>2
  <2>4. (FateInv => FateInv') /\ (CompleteInv => CompleteInv')
    BY <2>3, FatesKept
  <2> QED BY <2>4
<1>6. CASE DrainTarget
  <2> DEFINE more == IF OldestOpen = tail THEN {} ELSE {OwnerOf(OldestOpen, tail, sent)}
  <2>1. /\ UNCHANGED <<sent, sent_times, next_timeout_check_seq, exit_by, expired, swallowed>> /\ Sound
        /\ replied_or_timeout' = CloseSlot(replied_or_timeout, OldestOpen)
        /\ answered' = answered \cup more
    BY <1>6, TargetFacts
  <2> HIDE DEF more
  <2>2. Filed' = Filed \cup more
    BY <2>1 DEF Filed
  <2>3. /\ more \cap Filed = {}
        /\ OpenUnfiled(sent_times, replied_or_timeout, tail, sent, Filed)'
        /\ CompleteInv => CompleteInv'
    BY <2>1, <2>2, FatesAfterClose DEF more
  <2>4. FatesApart'
    BY <2>1, <2>3 DEF FateInv, FatesApart, Filed
  <2> QED BY <2>3, <2>4 DEF FateInv
<1>7. CASE DrainOther
  <2> DEFINE more == IF OldestOpen = tail THEN {} ELSE {OwnerOf(OldestOpen, tail, sent)}
  <2>1. /\ UNCHANGED <<sent, sent_times, next_timeout_check_seq, exit_by, expired, answered>> /\ Sound
        /\ replied_or_timeout' = CloseSlot(replied_or_timeout, OldestOpen)
        /\ swallowed' = swallowed \cup more
    BY <1>7, OtherFacts
  <2> HIDE DEF more
  <2>2. Filed' = Filed \cup more
    BY <2>1 DEF Filed
  <2>3. /\ more \cap Filed = {}
        /\ OpenUnfiled(sent_times, replied_or_timeout, tail, sent, Filed)'
        /\ CompleteInv => CompleteInv'
    BY <2>1, <2>2, FatesAfterClose DEF more
  <2>4. FatesApart'
    BY <2>1, <2>3 DEF FateInv, FatesApart, Filed
  <2> QED BY <2>3, <2>4 DEF FateInv
<1>e. ASSUME NEW p \in Packet, Enqueue(p), UNCHANGED own
      PROVE  FateInv' /\ (CompleteInv => CompleteInv')
  <2>1. UNCHANGED <<exit_by, sent, slots, history>>
    BY <1>a, <1>e, EnqueueFacts
  <2>2. UNCHANGED <<answered, expired, swallowed>>
    BY <1>e, <2>1 DEF own, history
  <2>3. UNCHANGED <<sent, slots, answered, expired, swallowed>> /\ exit_by' = exit_by
    BY <2>1, <2>2
  <2>4. (FateInv => FateInv') /\ (CompleteInv => CompleteInv')
    BY <2>3, FatesKept
  <2> QED BY <2>4
<1>8. CASE ArriveReply /\ UNCHANGED own
  BY <1>8, <1>e, ReplyPacket
<1>9. CASE ArriveOther /\ UNCHANGED own
  BY <1>9, <1>e, OtherPackets DEF ArriveOther
<1>10. CASE ArriveNothing /\ UNCHANGED own
  BY <1>10, <1>e, OtherPackets DEF ArriveNothing
<1> QED BY <1>1, <1>2, <1>3, <1>4, <1>5, <1>6, <1>7, <1>8, <1>9, <1>10, NextSplits

(* No probe ever meets two fates, with any number of probes: a slot is used *)
(* again only for a probe of its own, even if the last one is forgotten.    *)
THEOREM FatesStayApart == Spec => []FatesApart
<1>1. FateInv => FatesApart
  BY DEF FateInv
<1>2. TypeInv /\ FateInv /\ [Next]_vars => FateInv'
  BY FateStep
<1> QED BY <1>1, <1>2, TypeInit, TypeStep, FateInit, PTL DEF Spec

LEMMA AccountsKept == ASSUME EnoughSlots PROVE Spec => [](TypeInv /\ FateInv /\ CompleteInv)
<1>1. Init => TypeInv /\ FateInv /\ PaceInv /\ CompleteInv
  BY TypeInit, FateInit, PaceInit
<1>2. TypeInv /\ FateInv /\ PaceInv /\ CompleteInv /\ [Next]_vars
        => (TypeInv /\ FateInv /\ PaceInv /\ CompleteInv)'
  BY TypeStep, FateStep, PaceStep
<1> QED BY <1>1, <1>2, PTL DEF Spec

(* If the slots are enough, arping leaves by its count only when each       *)
(* probe was answered, timed out, or lost its slot to somebody else's      *)
(* reply, and never more than one of the three.                            *)
THEOREM EveryProbeSettledOnce == ASSUME EnoughSlots PROVE Spec => []EveryProbeHasOneFate
<1>1. TypeInv /\ FateInv /\ CompleteInv => EveryProbeHasOneFate
  BY DEF TypeInv, TypeOK, LoopTypeOK, FateInv, FatesApart, CompleteInv, Filed, EveryProbeHasOneFate
<1> QED BY <1>1, AccountsKept, PTL

(* If the slots are enough, a probe that has met no fate yet is open in the *)
(* window, however long arping runs: the sweep will come to it.            *)
NoProbeForgotten ==
  Sound => \A p \in (1 .. sent) \ Filed :
             \E s \in Window(next_timeout_check_seq, tail) :
               ~replied_or_timeout[s] /\ Owner(s, tail) = p

(* If the slots are enough, arping forgets no probe, however long it runs: *)
(* each is answered, has expired or is still to be swept.                  *)
THEOREM NoneIsForgotten == ASSUME EnoughSlots PROVE Spec => []NoProbeForgotten
<1>1. TypeInv /\ CompleteInv => NoProbeForgotten
  <2> SUFFICES ASSUME TypeInv, CompleteInv, Sound, NEW p \in (1 .. sent) \ Filed
               PROVE  \E s \in Window(next_timeout_check_seq, tail) :
                        ~replied_or_timeout[s] /\ Owner(s, tail) = p
    BY DEF NoProbeForgotten
  <2>1. /\ tail \in Slot /\ sent \in Nat /\ next_timeout_check_seq \in Slot
        /\ UsedSlots(sent_times, next_timeout_check_seq, tail, sent)
        /\ NoneForgotten(sent_times, replied_or_timeout, next_timeout_check_seq, tail, sent, Filed)
    BY TailFacts DEF TypeInv, TypeOK, LoopTypeOK, CompleteInv
  <2>2. \E s \in Window(next_timeout_check_seq, tail) :
          ~replied_or_timeout[s] /\ OwnerOf(s, tail, sent) = p
    BY <2>1, OutstandingInWindow
  <2> QED BY <2>2 DEF Owner, OwnerOf
<1> QED BY <1>1, AccountsKept, PTL

-------------------------------------------------------------------------------
(* Who is asked, and how many replies count.                               *)

(* After the reply that is enough, nothing more is taken.                  *)
QuitInv == Quits => received <= 1 /\ (received = 1 => ~keep_running)

(* Replies of the target in the buffer have been heard. *)
UnicastInv ==
  /\ UnicastOnlyAfterReply
  /\ \A i \in 1 .. Len(sockbuf) : sockbuf[i].about = "target" => heard # {}

LEMMA AskInit == Init => QuitInv /\ UnicastInv
BY DEF Init, LoopInit, QuitInv, UnicastInv, UnicastOnlyAfterReply

LEMMA AskStep ==
  TypeInv /\ QuitInv /\ UnicastInv /\ [Next]_vars => QuitInv' /\ UnicastInv'
<1> SUFFICES ASSUME TypeInv, QuitInv, UnicastInv, [Next]_vars PROVE QuitInv' /\ UnicastInv'
  OBVIOUS
<1>a. /\ LoopTypeOK /\ sockbuf \in Seq(Packet) /\ received \in Nat
      /\ keep_running \in BOOLEAN
  BY DEF TypeInv, TypeOK, LoopTypeOK
(* A step that counts no reply. *)
<1>s. ASSUME UNCHANGED <<received, current_target_mac>>, UNCHANGED options, keep_running' => keep_running,
             heard' = {} => heard = {},
             \A i \in 1 .. Len(sockbuf') :
               sockbuf'[i].about = "target" =>
                 \/ heard' # {}
                 \/ \E j \in 1 .. Len(sockbuf) : sockbuf[j].about = "target"
      PROVE  QuitInv' /\ UnicastInv'
  <2>1. QuitInv'
    BY <1>s DEF QuitInv, Quits, options
  <2>2. UnicastOnlyAfterReply'
    BY <1>s DEF UnicastInv, UnicastOnlyAfterReply, options
  <2>3. \A i \in 1 .. Len(sockbuf') : sockbuf'[i].about = "target" => heard' # {}
    BY <1>s DEF UnicastInv
  <2> QED BY <2>1, <2>2, <2>3 DEF UnicastInv
<1>1. CASE Quiet
  BY <1>1, <1>a, <1>s, QuietFacts DEF Quiet, own
<1>2. CASE HeadSend
  <2>1. OpenSlot(tail) /\ CountSend /\ UNCHANGED own
    BY <1>2 DEF HeadSend
  <2>2. UNCHANGED <<keep_running, received, sockbuf, heard>>
    BY <2>1 DEF OpenSlot
  <2> QED BY <1>s, <2>1, <2>2 DEF own
<1>3. CASE HeadSendFails
  <2>1. UNCHANGED <<keep_running, received, sockbuf, heard, own>>
    BY <1>3, FailFacts
  <2> QED BY <1>s, <2>1 DEF own
<1>4. CASE Sweep
  <2>1. UNCHANGED <<keep_running, received, sockbuf, heard, own>>
    BY <1>4 DEF Sweep, SweepTo, world
  <2> QED BY <1>s, <2>1 DEF own
<1>5. CASE DrainIgnore
  <2>1. /\ UNCHANGED <<keep_running, received, heard, own>>
        /\ \A i \in 1 .. Len(sockbuf') : i + 1 \in 1 .. Len(sockbuf) /\ sockbuf'[i] = sockbuf[i + 1]
    BY <1>5, IgnoreFacts
  <2> QED BY <1>s, <2>1 DEF own
<1>6. CASE DrainTarget
  <2>1. /\ \A i \in 1 .. Len(sockbuf') : i + 1 \in 1 .. Len(sockbuf) /\ sockbuf'[i] = sockbuf[i + 1]
        /\ 1 \in 1 .. Len(sockbuf) /\ sockbuf[1].about = "target"
        /\ UNCHANGED <<heard, options>> /\ keep_running
        /\ current_target_mac' = IF keep_broadcast THEN current_target_mac ELSE sockbuf[1].sha
        /\ received' = received + 1
        /\ keep_running' = IF Quits THEN FALSE ELSE keep_running
    BY <1>6, TargetFacts
  <2>2. QuitInv'
    <3>1. Quits' = Quits
      BY <2>1 DEF Quits, options
    <3>2. Quits => received = 0
      BY <1>a, <2>1 DEF QuitInv
    <3>3. Quits => received' = 1 /\ ~keep_running'
      BY <2>1, <3>2
    <3> QED BY <3>1, <3>3 DEF QuitInv
  <2>3. heard' # {} /\ received' > 0
    BY <1>a, <2>1 DEF UnicastInv
  <2>4. keep_broadcast => current_target_mac = Broadcast
    BY DEF UnicastInv, UnicastOnlyAfterReply
  <2>5. UnicastInv'
    BY <2>1, <2>3, <2>4 DEF UnicastInv, UnicastOnlyAfterReply, options
  <2> QED BY <2>2, <2>5
<1>7. CASE DrainOther
  <2>1. /\ UNCHANGED <<keep_running, received, heard, current_target_mac, options>>
        /\ \A i \in 1 .. Len(sockbuf') : i + 1 \in 1 .. Len(sockbuf) /\ sockbuf'[i] = sockbuf[i + 1]
    BY <1>7, OtherFacts
  <2> QED BY <1>s, <2>1
<1>e. ASSUME NEW p \in Packet, Enqueue(p), UNCHANGED own, heard' = {} => heard = {},
             p.about = "target" => heard' # {}
      PROVE  QuitInv' /\ UnicastInv'
  <2>1. /\ UNCHANGED <<keep_running, received>>
        /\ \A i \in 1 .. Len(sockbuf') :
             \/ i \in 1 .. Len(sockbuf) /\ sockbuf'[i] = sockbuf[i]
             \/ sockbuf'[i] = p
    BY <1>a, <1>e, EnqueueFacts
  <2> QED BY <1>e, <1>s, <2>1 DEF own
<1>8. CASE ArriveReply /\ UNCHANGED own
  <2>1. heard' # {}
    BY <1>8 DEF ArriveReply
  <2> QED BY <1>8, <1>e, <2>1, ReplyPacket
<1>9. CASE ArriveOther /\ UNCHANGED own
  BY <1>9, <1>e, OtherPackets DEF ArriveOther
<1>10. CASE ArriveNothing /\ UNCHANGED own
  BY <1>10, <1>e, OtherPackets DEF ArriveNothing
<1> QED BY <1>1, <1>2, <1>3, <1>4, <1>5, <1>6, <1>7, <1>8, <1>9, <1>10, NextSplits

(* With -f or -d, or -c 1, one reply is counted at the most, however many   *)
(* hosts answer and however many replies are queued together.              *)
THEOREM OneReplyIsEnough == Spec => []OneReplyAtMost
<1>1. QuitInv => OneReplyAtMost
  BY DEF QuitInv, OneReplyAtMost
<1> QED BY <1>1, TypeInit, TypeStep, AskInit, AskStep, PTL DEF Spec

(* A single host is asked only after a host that has the address answered, *)
(* and never with -b.                                                      *)
THEOREM UnicastAfterReply == Spec => []UnicastOnlyAfterReply
<1>1. UnicastInv => UnicastOnlyAfterReply
  BY DEF UnicastInv
<1> QED BY <1>1, TypeInit, TypeStep, AskInit, AskStep, PTL DEF Spec

-------------------------------------------------------------------------------
(* Once keep_running is cleared it stays so, no request is sent and no     *)
(* reply is counted any more, and each step of the process brings it       *)
(* nearer to the end, which is at most five steps away.                    *)
WindsDown ==
  ~keep_running => Idle /\ StepsLeft' <= StepsLeft /\ (Process => StepsLeft' < StepsLeft)

(* Whatever arrives: arping acts on a signal, and on the reply that is     *)
(* enough with -f, -d or -c 1, within five steps of the process, of which  *)
(* waiting in poll() is one.                                               *)
THEOREM SignalIsHeeded == Spec => [][WindsDown]_vars
<1>1. TypeInv /\ [Next]_vars => [WindsDown]_vars
  <2> SUFFICES ASSUME TypeInv, Next, ~keep_running
               PROVE  WindsDown
    BY DEF WindsDown
  <2>1. CASE Sweep \/ LoopStep
    BY <2>1, LastLoopSteps DEF Sweep, LoopStep, WindsDown, StepsLeft
  <2>2. ~(HeadSend \/ HeadSendFails \/ DrainIgnore \/ DrainTarget \/ DrainOther)
    BY NoMoreWork DEF HeadSend, HeadSendFails, DrainIgnore, DrainTarget, DrainOther, IgnorePacket
  <2>3. CASE ~Process /\ Next
    <3>1. Idle /\ UNCHANGED pc
      BY <2>3, Bystanders DEF Next, Environment, HandleSigint, ArriveReply, ArriveOther, ArriveNothing,
                  Terminated, vars, loopvars, Idle, world, history
    <3> QED BY <2>3, <3>1 DEF WindsDown, StepsLeft
  <2> QED BY <2>1, <2>2, <2>3 DEF Process
<1> QED BY <1>1, TypeInit, TypeStep, PTL DEF Spec

-------------------------------------------------------------------------------
(* Between two requests arping does not go round in circles.               *)

(* Whether the run goes on, probes in the window, packets still to be      *)
(* read, how often poll() may give up, steps to the next poll().           *)
Measure == <<Running, Dist(next_timeout_check_seq, tail), PacketsLeft, WaitLeft, Phase>>

Advances ==
  /\ Process => sent' > sent \/ Lower(Measure', Measure)
  /\ sent' > sent \/ Lower(Measure', Measure) \/ Measure' = Measure

LEMMA MeasureLowers ==
  ASSUME tail' = tail,
         Further(Dist(next_timeout_check_seq, tail), Dist(next_timeout_check_seq', tail))
  PROVE  Lower(Measure', Measure)
BY FurtherLowers DEF Measure

LEMMA StepAdvances ==
  ASSUME TypeInv, Process
  PROVE  sent' > sent \/ Lower(Measure', Measure)
<1> USE DEF TypeInv, TypeOK
<1>1. tail \in Slot
  BY TailFacts DEF LoopTypeOK
<1>2. CASE HeadSend
  BY <1>2 DEF HeadSend, CountSend, LoopTypeOK
<1>3. CASE HeadSendFails
  <2>1. /\ pc = "head" /\ pc' = "done" /\ keep_running /\ SendDue
        /\ UNCHANGED <<keep_running, sent, arrivals, sockbuf, next_timeout_check_seq>>
    BY <1>3 DEF HeadSendFails, OpenSlot
  <2>2. Running' = Running /\ PacketsLeft' = PacketsLeft /\ tail' = tail
    BY <2>1 DEF Running, PacketsLeft, tail
  <2>3. WaitLeft' = 0 /\ WaitLeft \in Nat /\ Phase' = 0 /\ Phase = 1
    BY <2>1, MeasuresAreNatural DEF WaitLeft, Phase
  <2> QED BY <2>1, <2>2, <2>3, MeasureLowers DEF Further
<1>4. CASE Sweep
  <2>1. SweepTo(tail) /\ tail' = tail
    BY <1>4 DEF Sweep, SweepTo, tail
  <2> QED BY <1>1, <2>1, SweepFurther, MeasureLowers
<1>5. CASE LoopStep
  <2>1. HeadExit \/ HeadIdle \/ PollBegins \/ PollReturns \/ DrainEnd
    BY <1>5 DEF LoopStep
  <2>2. tail' = tail
    BY <2>1 DEF HeadExit, Exit, HeadIdle, PollBegins, PollReturns, DrainEnd, tail
  <2> QED BY <2>1, <2>2, LoopStepFurther, MeasureLowers
<1>6. CASE DrainIgnore \/ DrainTarget \/ DrainOther
  <2>1. TakePacket
    BY <1>6 DEF DrainIgnore, DrainTarget, DrainOther, IgnorePacket
  <2>2. tail' = tail
    BY <2>1 DEF TakePacket, tail
  <2> QED BY <2>1, <2>2, TakeFurther, MeasureLowers
<1> QED BY <1>2, <1>3, <1>4, <1>5, <1>6 DEF Process

LEMMA OthersAdvance ==
  ASSUME TypeInv, Environment \/ Terminated
  PROVE  Lower(Measure', Measure) \/ Measure' = Measure
<1> USE DEF TypeInv, TypeOK
<1>1. CASE Environment
  <2>1. HandleSigint \/ Tick \/ \E p \in Packet : Enqueue(p)
    BY <1>1, ReplyPacket, OtherPackets DEF Environment, ArriveOther, ArriveNothing
  <2>2. /\ SameMeasures \/ Further(Dist(next_timeout_check_seq, tail), Dist(next_timeout_check_seq, tail))
        /\ UNCHANGED <<next_timeout_check_seq, sent>>
    BY <2>1, WorldFurther
  <2>3. tail' = tail
    BY <2>2 DEF tail
  <2> QED BY <2>2, <2>3, MeasureLowers DEF SameMeasures, Measure
<1>2. CASE Terminated
  BY <1>2 DEF Terminated, vars, loopvars, slots, world, Measure, Running, PacketsLeft, WaitLeft,
              Phase, StepsLeft, SendDue, MaySend, Due, PollGaveUp, Forever, tail
<1> QED BY <1>1, <1>2

(* Without -c, too, whatever the timing and whatever arrives: from one     *)
(* request to the next every step of the process lowers a tuple of natural *)
(* numbers, and neither time nor packets nor the signal raise it.  So      *)
(* arping never spins: the sweep makes headway or poll() waits, and poll() *)
(* gives up three times at the most before a request is sent or filed,     *)
(* unless a packet wakes it up.                                            *)
THEOREM LoopAdvances ==
  Spec => [](\A k \in 1 .. 5 : Measure[k] \in Nat) /\ [][Advances]_vars
<1>1. TypeInv /\ [Next]_vars => [Advances]_vars
  <2> SUFFICES ASSUME TypeInv, Next
               PROVE  Advances
    OBVIOUS
  <2> QED BY StepAdvances, OthersAdvance DEF Next, Advances
<1>2. TypeInv => \A k \in 1 .. 5 : Measure[k] \in Nat
  <2> SUFFICES ASSUME TypeInv
               PROVE  \A k \in 1 .. 5 : Measure[k] \in Nat
    OBVIOUS
  <2>1. Running \in Nat /\ PacketsLeft \in Nat /\ WaitLeft \in Nat /\ Phase \in Nat
    BY MeasuresAreNatural DEF TypeInv, TypeOK
  <2>2. Dist(next_timeout_check_seq, tail) \in Nat
    BY TailFacts, SlotFacts DEF TypeInv, TypeOK, LoopTypeOK
  <2> QED BY <2>1, <2>2 DEF Measure
<1> QED BY <1>1, <1>2, TypeInit, TypeStep, PTL DEF Spec

===============================================================================
