------------------------------- MODULE TcpingProofs -------------------------------
(****************************************************************************)
(* Proofs about Tcping, on the lemmas of PollLoopProofs, for every number   *)
(* of slots and of TCP's numbers, every INITIAL_SEQ, -c, -W and -i, and     *)
(* every delay, loss, duplication and reordering of segments: its types,    *)
(* how far segments that answer no probe may inflate the count, that each   *)
(* probe meets one fate and none is forgotten, that a run is a ProbeLedger, *)
(* that a signal is heeded, and that the loop does not spin.                *)
(****************************************************************************)
EXTENDS Tcping, PollLoopProofs

Number  == 0 .. AckMod - 1
Request == [probe : Nat, seq : Number, at : Nat]
Packet  == [answer : BOOLEAN, ack : Number, probe : Nat]

TypeInv ==
  /\ TypeOK
  /\ on_wire \subseteq Request /\ sockbuf \in Seq(Packet)
  /\ UsedSlots(sent_times, next_timeout_check_seq, tail, sent)

-------------------------------------------------------------------------------
(* Numbers that wrap. *)

LEMMA OneRemainder ==
  ASSUME NEW n \in Nat \ {0}, NEW a \in Int, NEW b \in Int, NEW r \in 0 .. n - 1,
         NEW s \in 0 .. n - 1, a * n + r = b * n + s
  PROVE  r = s
<1> DEFINE k == a - b
<1>1. k \in Int /\ k * n \in Int /\ a * n = b * n + k * n /\ b * n \in Int
  OBVIOUS
<1> HIDE DEF k
<1>2. k * n = s - r
  BY <1>1
<1>3. ASSUME k >= 1 PROVE FALSE
  <2>1. k * n >= n
    BY <1>1, <1>3
  <2> QED BY <1>2, <2>1
<1>4. ASSUME k <= -1 PROVE FALSE
  <2>1. k * n <= -n
    BY <1>1, <1>4
  <2> QED BY <1>2, <2>1
<1>5. k = 0
  BY <1>1, <1>3, <1>4
<1> QED BY <1>2, <1>5

LEMMA SameRemainder ==
  ASSUME NEW n \in Nat \ {0}, NEW q \in Int, NEW x \in Nat, NEW y \in Nat, x = q * n + y
  PROVE  x % n = y % n
<1>1. PICK a \in Int, r \in 0 .. n - 1 : x % n = r /\ x = a * n + r
  BY RemainderFacts
<1>2. PICK b \in Int, s \in 0 .. n - 1 : y % n = s /\ y = b * n + s
  BY RemainderFacts
<1> DEFINE c == q + b
<1>3. c \in Int /\ c * n = q * n + b * n /\ q * n \in Int /\ b * n \in Int
  OBVIOUS
<1> HIDE DEF c
<1>4. a * n + r = c * n + s
  BY <1>1, <1>2, <1>3
<1>5. r = s
  BY <1>3, <1>4, OneRemainder
<1> QED BY <1>1, <1>2, <1>5

LEMMA NextNumber ==
  ASSUME NEW x \in Nat
  PROVE  x % AckMod \in Number /\ SuccNumber(x % AckMod) = (x + 1) % AckMod
<1> DEFINE M == AckMod
<1>1. M \in Nat \ {0} /\ x + 1 \in Nat
  BY TcpingAssumption
<1>2. Number = 0 .. M - 1 /\ \A n : SuccNumber(n) = IF n = M - 1 THEN 0 ELSE n + 1
  BY DEF Number, SuccNumber
<1>3. x % AckMod = x % M /\ (x + 1) % AckMod = (x + 1) % M
  OBVIOUS
<1> HIDE DEF M
<1>4. PICK q \in Int, r \in 0 .. M - 1 : x % M = r /\ x = q * M + r
  BY <1>1, RemainderFacts
<1>5. PICK b \in Int, s \in 0 .. M - 1 : (x + 1) % M = s /\ x + 1 = b * M + s
  BY <1>1, RemainderFacts
<1>6. CASE r = M - 1
  <2> DEFINE c == q + 1
  <2>1. c \in Int /\ c * M = q * M + M /\ q * M \in Int
    BY <1>1
  <2> HIDE DEF c
  <2>2. b * M + s = c * M + 0 /\ 0 \in 0 .. M - 1
    BY <1>1, <1>4, <1>5, <1>6, <2>1
  <2>3. s = 0
    BY <1>1, <2>1, <2>2, OneRemainder
  <2> QED BY <1>2, <1>3, <1>4, <1>5, <1>6, <2>3
<1>7. CASE r # M - 1
  <2> DEFINE t == r + 1
  <2>1. t \in 0 .. M - 1 /\ q * M \in Int
    BY <1>1, <1>7
  <2>2. b * M + s = q * M + t
    BY <1>1, <1>4, <1>5, <2>1
  <2> HIDE DEF t
  <2>3. s = t
    BY <1>1, <2>1, <2>2, OneRemainder
  <2> QED BY <1>2, <1>3, <1>4, <1>5, <1>7, <2>3 DEF t
<1> QED BY <1>6, <1>7

(* The wrap of TCP's numbers is one of the slots', too. *)
LEMMA SlotOfNumber ==
  ASSUME NEW x \in Nat
  PROVE  Low16(x % AckMod) = Low16(x)
<1> DEFINE M == AckMod
           S == SeqMod
<1>1. M \in Nat \ {0} /\ S \in Nat \ {0} /\ M % S = 0
  BY TcpingAssumption, SeqModAssumption
<1>2. x % AckMod = x % M /\ Low16(x) = x % S /\ Low16(x % M) = (x % M) % S
  BY DEF Low16
<1> HIDE DEF M, S
<1>3. PICK q \in Int, r \in 0 .. M - 1 : x % M = r /\ x = q * M + r
  BY <1>1, RemainderFacts
<1>4. PICK k \in Int, z \in 0 .. S - 1 : M % S = z /\ M = k * S + z
  BY <1>1, RemainderFacts
<1>5. M = k * S
  <2>1. z = 0 /\ k * S \in Int
    BY <1>1, <1>4
  <2> QED BY <1>4, <2>1
<1> DEFINE c == q * k
<1>6. c \in Int /\ q * M = c * S
  <2>1. q * (k * S) = (q * k) * S
    BY <1>1
  <2> QED BY <1>5, <2>1
<1> HIDE DEF c
<1>7. x = c * S + r /\ r \in Nat
  BY <1>1, <1>3, <1>6
<1>8. x % S = r % S
  <2>1. S \in Nat \ {0} /\ c \in Int /\ x \in Nat /\ r \in Nat
    BY <1>1, <1>6, <1>7
  <2>2. x = c * S + r
    BY <1>7
  <2> QED BY <2>1, <2>2, SameRemainder, Zenon
<1> QED BY <1>2, <1>3, <1>8

LEMMA TailFacts ==
  ASSUME seq = (InitialSeq + sent) % AckMod, sent \in Nat
  PROVE  /\ seq \in Nat /\ seq \in Number /\ tail \in Slot /\ Low16(seq) = tail
         /\ tail = Low16(InitialSeq + sent)
         /\ Low16(SuccNumber(seq)) = Succ(tail)
         /\ SuccNumber(seq) = (InitialSeq + (sent + 1)) % AckMod
<1> DEFINE x == InitialSeq + sent
<1>1. x \in Nat /\ x + 1 \in Nat /\ x + 1 = InitialSeq + (sent + 1)
  BY TcpingAssumption
<1>2. seq = x % AckMod
  OBVIOUS
<1> HIDE DEF x
<1>3. seq \in Number /\ SuccNumber(seq) = (x + 1) % AckMod
  BY <1>1, <1>2, NextNumber
<1>4. tail = Low16(x) /\ Low16(SuccNumber(seq)) = Low16(x + 1)
  BY <1>1, <1>2, <1>3, SlotOfNumber DEF tail
<1>5. tail \in Slot /\ Low16(x + 1) = Succ(tail)
  BY <1>1, <1>4, NumberToSlot DEF Low16
<1>6. seq \in Nat
  BY <1>3, TcpingAssumption DEF Number
<1> QED BY <1>1, <1>3, <1>4, <1>5, <1>6 DEF tail, x

-------------------------------------------------------------------------------
(* The steps of the process and of the world that change no account. *)
Quiet == QuietStep /\ UNCHANGED own

LEMMA NextSplits ==
  ASSUME [Next]_vars
  PROVE  \/ Quiet
         \/ SetupSocket \/ HeadSend \/ Sweep \/ DrainIgnore \/ DrainCredit
         \/ ArriveAnswer /\ UNCHANGED own
         \/ ArriveStray /\ UNCHANGED own
         \/ ArriveForeign /\ UNCHANGED own
BY DEF Next, Process, Environment, Terminated, LoopStep, Quiet, QuietStep, vars

LEMMA SetupFacts ==
  ASSUME LoopTypeOK, SetupSocket
  PROVE  /\ LoopTypeOK'
         /\ UNCHANGED <<seq, misfits, sent, received, slots, history, world>>
         /\ pc = "setup" /\ next_send_time' \in {next_send_time, clock}
         /\ \/ pc' = "done" /\ exit_by' = "die"
            \/ pc' = "head" /\ exit_by' = exit_by
<1>1. /\ UNCHANGED <<seq, misfits, keep_running, sent, received, slots, poll_until, world, history>>
      /\ lag' = 0 /\ next_send_time' \in {next_send_time, clock} /\ pc = "setup"
      /\ \/ pc' = "done" /\ exit_by' = "die"
         \/ pc' = "head" /\ exit_by' = exit_by
  BY DEF SetupSocket, Exit, own
<1>2. LoopTypeOK'
  BY <1>1 DEF LoopTypeOK, slots, world, history
<1> QED BY <1>1, <1>2

LEMMA IgnoreFacts ==
  ASSUME LoopTypeOK, sockbuf \in Seq(Packet), DrainIgnore
  PROVE  /\ LoopTypeOK' /\ UNCHANGED <<pc, exit_by, seq, misfits, sent, received, slots, history, clock,
                                      on_wire, heard, next_send_time>>
         /\ sockbuf' \in Seq(Packet)
         /\ \A i \in 1 .. Len(sockbuf') : i + 1 \in 1 .. Len(sockbuf) /\ sockbuf'[i] = sockbuf[i + 1]
<1>1. TakePacket /\ UNCHANGED <<seq, misfits, keep_running, received, replied_or_timeout, answered>>
  BY DEF DrainIgnore, IgnorePacket, own
<1>2. /\ LoopTypeOK' /\ sockbuf' \in Seq(Packet)
      /\ \A i \in 1 .. Len(sockbuf') : i + 1 \in 1 .. Len(sockbuf) /\ sockbuf'[i] = sockbuf[i + 1]
      /\ UNCHANGED <<pc, exit_by, sent, next_timeout_check_seq, sent_times, clock, on_wire,
                     heard, expired, next_send_time>>
  <2>1. /\ keep_running' \in BOOLEAN /\ received' \in Nat
        /\ replied_or_timeout' \in [Slot -> BOOLEAN] /\ answered' \subseteq 1 .. sent
    BY <1>1 DEF LoopTypeOK
  <2> QED BY <1>1, <2>1, TakeFacts
<1> QED BY <1>1, <1>2 DEF slots, history

LEMMA CreditFacts ==
  ASSUME TypeInv, DrainCredit, NEW s, s = AckedSlot(Head(sockbuf).ack)
  PROVE  /\ LoopTypeOK' /\ sockbuf' \in Seq(Packet)
         /\ UNCHANGED <<pc, exit_by, seq, sent, next_timeout_check_seq, sent_times, clock, on_wire,
                        heard, expired, next_send_time>>
         /\ s \in Slot /\ ~replied_or_timeout[s] /\ pc = "drain"
         /\ Head(sockbuf) = sockbuf[1] /\ 1 \in 1 .. Len(sockbuf) /\ sockbuf[1] \in Packet
         /\ sockbuf[1].answer
         /\ \A i \in 1 .. Len(sockbuf') : i + 1 \in 1 .. Len(sockbuf) /\ sockbuf'[i] = sockbuf[i + 1]
         /\ replied_or_timeout' = [replied_or_timeout EXCEPT ![s] = TRUE]
         /\ received' = received + 1
         /\ misfits' = IF Fits(sockbuf[1]) THEN misfits ELSE misfits + 1
         /\ answered' = IF sent_times[s] > 0 THEN answered \cup {OwnerOf(s, tail, sent)} ELSE answered
         /\ sent_times[s] > 0 => OwnerOf(s, tail, sent) \in 1 .. sent
<1>1. /\ TakePacket /\ Credits(Head(sockbuf), replied_or_timeout)
      /\ replied_or_timeout' = [replied_or_timeout EXCEPT ![s] = TRUE]
      /\ answered' = IF sent_times[s] > 0 THEN answered \cup {Owner(s, tail)} ELSE answered
      /\ misfits' = IF Fits(Head(sockbuf)) THEN misfits ELSE misfits + 1
      /\ received' = received + 1 /\ UNCHANGED <<keep_running, seq>>
  BY DEF DrainCredit
<1>2. LoopTypeOK /\ sockbuf \in Seq(Packet)
  BY DEF TypeInv, TypeOK
<1>3. /\ Head(sockbuf) = sockbuf[1] /\ 1 \in 1 .. Len(sockbuf) /\ sockbuf[1] \in Packet
      /\ sockbuf' \in Seq(Packet)
      /\ \A i \in 1 .. Len(sockbuf') : i + 1 \in 1 .. Len(sockbuf) /\ sockbuf'[i] = sockbuf[i + 1]
      /\ UNCHANGED <<pc, exit_by, sent, next_timeout_check_seq, sent_times, clock, on_wire,
                     heard, expired, next_send_time>>
      /\ pc = "drain"
  BY <1>1, <1>2, TakeFacts
<1>4. s \in Slot
  <2>1. Head(sockbuf).ack \in Nat
    BY <1>3, TcpingAssumption DEF Packet, Number
  <2>2. (IF Head(sockbuf).ack > 0 THEN Head(sockbuf).ack - 1 ELSE Head(sockbuf).ack) \in Nat
    BY <2>1
  <2> QED BY <2>2, NumberToSlot DEF AckedSlot, Low16
<1>5. ~replied_or_timeout[s] /\ sockbuf[1].answer
  BY <1>1, <1>3 DEF Credits
<1>6. Owner(s, tail) = OwnerOf(s, tail, sent)
  BY DEF Owner, OwnerOf
<1>7. tail \in Slot /\ sent \in Nat
  BY TailFacts DEF TypeInv, TypeOK, LoopTypeOK
<1>8. sent_times[s] > 0 => OwnerOf(s, tail, sent) \in 1 .. sent
  BY <1>4, <1>7, OwnerOfFacts DEF TypeInv, UsedSlots
<1>9. LoopTypeOK'
  <2>1. answered' \subseteq 1 .. sent
    BY <1>1, <1>2, <1>6, <1>8 DEF LoopTypeOK
  <2>2. replied_or_timeout' \in [Slot -> BOOLEAN]
    BY <1>1, <1>2 DEF LoopTypeOK
  <2>3. keep_running' \in BOOLEAN /\ received' \in Nat
    BY <1>1, <1>2 DEF LoopTypeOK
  <2> QED BY <1>1, <1>2, <2>1, <2>2, <2>3, TakeFacts
<1>10. misfits' = IF Fits(sockbuf[1]) THEN misfits ELSE misfits + 1
  BY <1>1, <1>3
<1> QED BY <1>1, <1>3, <1>4, <1>5, <1>6, <1>8, <1>9, <1>10

(* What arrives. *)
LEMMA AnswerPacket ==
  ASSUME on_wire \subseteq Request, ArriveAnswer
  PROVE  \E r \in on_wire :
           /\ r \in Request
           /\ [answer |-> TRUE, ack |-> SuccNumber(r.seq), probe |-> r.probe] \in Packet
           /\ Enqueue([answer |-> TRUE, ack |-> SuccNumber(r.seq), probe |-> r.probe])
           /\ heard' = heard \cup {r.probe}
<1>1. PICK r \in on_wire :
        /\ Enqueue([answer |-> TRUE, ack |-> SuccNumber(r.seq), probe |-> r.probe])
        /\ heard' = heard \cup {r.probe}
  BY DEF ArriveAnswer
<1>2. r \in Request /\ r.probe \in Nat /\ r.seq \in Number
  BY DEF Request
<1>3. SuccNumber(r.seq) \in Number
  BY <1>2, TcpingAssumption DEF SuccNumber, Number
<1>4. [answer |-> TRUE, ack |-> SuccNumber(r.seq), probe |-> r.probe] \in Packet
  BY <1>2, <1>3 DEF Packet
<1> QED BY <1>1, <1>2, <1>4

LEMMA OtherPackets ==
  /\ \A a \in StrayAcks : [answer |-> TRUE, ack |-> a, probe |-> 0] \in Packet
  /\ [answer |-> FALSE, ack |-> 0, probe |-> 0] \in Packet
BY TcpingAssumption DEF Packet, Number

-------------------------------------------------------------------------------
LEMMA TypeInit == Init => TypeInv
<1> SUFFICES ASSUME Init PROVE TypeInv
  OBVIOUS
<1>1. /\ seq = InitialSeq /\ sent = 0 /\ tail = Low16(InitialSeq) /\ FirstSlot = tail /\ tail \in Slot
      /\ misfits = 0
  BY TcpingAssumption, NumberToSlot DEF Init, LoopInit, tail, FirstSlot, Low16
<1>2. LoopTypeOK
  BY <1>1, LoopAssumption DEF Init, LoopInit, LoopTypeOK, StartTime
<1>3. TypeOK
  <2>1. pc = "setup" /\ exit_by = "none"
    BY DEF Init, LoopInit
  <2>2. InitialSeq + sent = InitialSeq /\ InitialSeq % AckMod = InitialSeq
    BY <1>1, TcpingAssumption
  <2> QED BY <1>1, <1>2, <2>1, <2>2 DEF TypeOK
<1>4. UsedSlots(sent_times, next_timeout_check_seq, tail, sent)
  <2>1. next_timeout_check_seq = tail /\ sent_times = [s \in Slot |-> 0]
    BY <1>1 DEF Init, LoopInit
  <2> QED BY <1>1, <2>1, SeqModAssumption DEF UsedSlots, OwnerOf, Dist, Slot
<1>5. on_wire \subseteq Request /\ sockbuf \in Seq(Packet)
  BY DEF Init, LoopInit
<1> QED BY <1>3, <1>4, <1>5 DEF TypeInv

LEMMA TypeStep == TypeInv /\ [Next]_vars => TypeInv'
<1> SUFFICES ASSUME TypeInv, [Next]_vars PROVE TypeInv'
  OBVIOUS
<1>a. /\ LoopTypeOK /\ sockbuf \in Seq(Packet) /\ on_wire \subseteq Request
      /\ UsedSlots(sent_times, next_timeout_check_seq, tail, sent)
      /\ pc \in {"setup", "head", "sweep", "call", "poll", "drain", "done"}
      /\ exit_by \in {"none", "signal", "count", "die"}
      /\ seq = (InitialSeq + sent) % AckMod /\ misfits \in Nat /\ sent \in Nat /\ clock \in Nat \ {0}
      /\ next_timeout_check_seq \in Slot /\ sent_times \in [Slot -> Nat]
  BY DEF TypeInv, TypeOK, LoopTypeOK
<1>b. /\ seq \in Number /\ tail \in Slot /\ Low16(SuccNumber(seq)) = Succ(tail)
      /\ SuccNumber(seq) = (InitialSeq + (sent + 1)) % AckMod
  BY <1>a, TailFacts
<1>s. ASSUME LoopTypeOK', UNCHANGED <<seq, misfits, sent, slots>>, on_wire' \subseteq Request,
             sockbuf' \in Seq(Packet),
             pc' \in {"setup", "head", "sweep", "call", "poll", "drain", "done"},
             exit_by' \in {"none", "signal", "count", "die"}
      PROVE  TypeInv'
  <2>1. tail' = tail /\ UNCHANGED <<sent_times, next_timeout_check_seq>>
    BY <1>s DEF tail, slots
  <2>2. UsedSlots(sent_times, next_timeout_check_seq, tail, sent)'
    BY <1>a, <1>s, <2>1 DEF UsedSlots
  <2> QED BY <1>a, <1>s, <2>2 DEF TypeInv, TypeOK
<1>1. CASE Quiet
  BY <1>1, <1>a, <1>s, QuietFacts DEF Quiet, own
<1>2. CASE SetupSocket
  BY <1>2, <1>a, <1>s, SetupFacts DEF world
<1>3. CASE HeadSend
  <2>1. OpenSlot(tail) /\ CountSend /\ seq' = SuccNumber(seq) /\ misfits' = misfits
    BY <1>3 DEF HeadSend
  <2>2. /\ LoopTypeOK' /\ sent_times' = [sent_times EXCEPT ![tail] = clock]
        /\ sent' = sent + 1 /\ pc' = "sweep"
        /\ UNCHANGED <<exit_by, next_timeout_check_seq, sockbuf>>
    BY <1>a, <1>b, <2>1, SendFacts
  <2>3. tail' = Succ(tail)
    BY <1>b, <2>1 DEF tail, Low16
  <2>4. UsedSlots([sent_times EXCEPT ![tail] = clock], next_timeout_check_seq, Succ(tail), sent + 1)
    BY <1>a, <1>b, UsedAfterSend
  <2>5. UsedSlots(sent_times, next_timeout_check_seq, tail, sent)'
    BY <2>2, <2>3, <2>4 DEF UsedSlots
  <2>6. on_wire' \subseteq Request
    <3>1. [probe |-> sent + 1, seq |-> seq, at |-> clock] \in Request
      BY <1>a, <1>b DEF Request
    <3> QED BY <1>3, <1>a, <3>1 DEF HeadSend
  <2>7. seq' = (InitialSeq + sent') % AckMod /\ misfits' \in Nat
    BY <1>a, <1>b, <2>1, <2>2
  <2> QED BY <1>a, <2>2, <2>5, <2>6, <2>7 DEF TypeInv, TypeOK
<1>4. CASE Sweep
  <2>1. SweepTo(tail) /\ seq' = seq /\ misfits' = misfits
    BY <1>4 DEF Sweep, own
  <2>2. /\ LoopTypeOK' /\ pc' \in {"done", "call"}
        /\ UNCHANGED <<sent, sent_times, on_wire, sockbuf>>
    BY <1>a, <1>b, <2>1, SweepFacts
  <2>3. PICK h \in Slot : /\ h \in Window(next_timeout_check_seq, tail) \cup {tail}
                          /\ next_timeout_check_seq' = h
                          /\ exit_by' \in {"count", exit_by}
    <3>1. \E h \in Slot, lost \in SUBSET Slot :
              /\ h \in Window(next_timeout_check_seq, tail) \cup {tail}
              /\ lost = {s \in Window(next_timeout_check_seq, h) : ~replied_or_timeout[s]}
              /\ next_timeout_check_seq' = h
              /\ replied_or_timeout' = [s \in Slot |-> replied_or_timeout[s] \/ s \in lost]
              /\ expired' = expired \cup {OwnerOf(s, tail, sent) : s \in lost}
              /\ IF AllDone(h, tail) THEN pc' = "done" /\ exit_by' = "count"
                                     ELSE pc' = "call" /\ exit_by' = exit_by
      BY <1>a, <1>b, <2>1, SweepFacts
    <3> QED BY <3>1
  <2>4. UsedSlots(sent_times, h, tail, sent)
    BY <1>a, <1>b, <2>3, UsedAfterSweep
  <2>5. tail' = tail
    BY <2>1 DEF tail
  <2>6. UsedSlots(sent_times, next_timeout_check_seq, tail, sent)'
    BY <2>2, <2>3, <2>4, <2>5 DEF UsedSlots
  <2> QED BY <1>a, <2>1, <2>2, <2>3, <2>6 DEF TypeInv, TypeOK
<1>5. CASE DrainIgnore
  BY <1>5, <1>a, <1>s, IgnoreFacts
<1>6. CASE DrainCredit
  <2>1. /\ LoopTypeOK' /\ sockbuf' \in Seq(Packet)
        /\ UNCHANGED <<pc, exit_by, seq, sent, next_timeout_check_seq, sent_times, on_wire>>
        /\ misfits' = IF Fits(sockbuf[1]) THEN misfits ELSE misfits + 1
    BY <1>6, CreditFacts
  <2>2. tail' = tail /\ misfits' \in Nat
    BY <1>a, <2>1 DEF tail
  <2>3. UsedSlots(sent_times, next_timeout_check_seq, tail, sent)'
    BY <1>a, <2>1, <2>2 DEF UsedSlots
  <2> QED BY <1>a, <2>1, <2>2, <2>3 DEF TypeInv, TypeOK
<1>e. ASSUME NEW p \in Packet, Enqueue(p), UNCHANGED own
      PROVE  TypeInv'
  <2>1. /\ LoopTypeOK' /\ sockbuf' \in Seq(Packet)
        /\ UNCHANGED <<pc, exit_by, sent, slots, on_wire>>
    BY <1>a, <1>e, EnqueueFacts
  <2> QED BY <1>a, <1>e, <1>s, <2>1 DEF own
<1>7. CASE ArriveAnswer /\ UNCHANGED own
  BY <1>7, <1>a, <1>e, AnswerPacket
<1>8. CASE ArriveStray /\ UNCHANGED own
  BY <1>8, <1>e, OtherPackets DEF ArriveStray
<1>9. CASE ArriveForeign /\ UNCHANGED own
  BY <1>9, <1>e, OtherPackets DEF ArriveForeign
<1> QED BY <1>1, <1>2, <1>3, <1>4, <1>5, <1>6, <1>7, <1>8, <1>9, NextSplits

(* Every reachable state is well typed; in particular only SYNs that were   *)
(* sent are ever filed as answered or as timed out, whatever initial        *)
(* sequence number the slots start from and however they are reused.       *)
THEOREM TypeCorrect == Spec => []TypeOK
<1>1. TypeInv => TypeOK
  BY DEF TypeInv
<1> QED BY <1>1, TypeInit, TypeStep, PTL DEF Spec

-------------------------------------------------------------------------------
(* No probe is filed twice, and none is answered that was not counted.     *)

Filed     == answered \cup expired
FiledOnce == answered \cap expired = {}
Tally     == IsFiniteSet(answered) /\ Cardinality(answered) <= received

ReportedInv ==
  /\ FiledOnce /\ Tally
  /\ OpenUnfiled(sent_times, replied_or_timeout, tail, sent, Filed)

LEMMA SlotTypes ==
  \A n \in Nat : Low16(n) \in Slot /\ AckedSlot(n) \in Slot /\ AckedSlot(n + 1) = Low16(n)
<1>1. ASSUME NEW n \in Nat PROVE Low16(n) \in Slot
  BY NumberToSlot DEF Low16
<1>2. ASSUME NEW n \in Nat PROVE AckedSlot(n) \in Slot
  <2>1. (IF n > 0 THEN n - 1 ELSE n) \in Nat
    OBVIOUS
  <2> QED BY <1>1, <2>1 DEF AckedSlot
<1>3. ASSUME NEW n \in Nat PROVE AckedSlot(n + 1) = Low16(n)
  <2>1. (IF n + 1 > 0 THEN n + 1 - 1 ELSE n + 1) = n
    OBVIOUS
  <2> QED BY <2>1 DEF AckedSlot
<1> QED BY <1>1, <1>2, <1>3

LEMMA ReportedInit == Init => ReportedInv
<1> SUFFICES ASSUME Init PROVE ReportedInv
  OBVIOUS
<1>1. answered = {} /\ expired = {} /\ received = 0 /\ sent_times = [s \in Slot |-> 0]
  BY DEF Init, LoopInit
<1>2. Tally
  BY <1>1, FS_EmptySet DEF Tally
<1> QED BY <1>1, <1>2 DEF ReportedInv, FiledOnce, OpenUnfiled, Filed

LEMMA ReportedStep == TypeInv /\ ReportedInv /\ [Next]_vars => ReportedInv'
<1> SUFFICES ASSUME TypeInv, ReportedInv, [Next]_vars PROVE ReportedInv'
  OBVIOUS
<1>a. /\ LoopTypeOK /\ sockbuf \in Seq(Packet) /\ on_wire \subseteq Request
      /\ UsedSlots(sent_times, next_timeout_check_seq, tail, sent)
      /\ seq = (InitialSeq + sent) % AckMod /\ sent \in Nat /\ received \in Nat
      /\ next_timeout_check_seq \in Slot /\ sent_times \in [Slot -> Nat]
      /\ replied_or_timeout \in [Slot -> BOOLEAN]
      /\ answered \subseteq 1 .. sent /\ expired \subseteq 1 .. sent
  BY DEF TypeInv, TypeOK, LoopTypeOK
<1>b. tail \in Slot /\ Low16(SuccNumber(seq)) = Succ(tail)
  BY <1>a, TailFacts
<1>s. ASSUME UNCHANGED <<seq, sent, received, slots, history>> PROVE ReportedInv'
  <2>1. UNCHANGED <<tail, Filed, sent_times, replied_or_timeout, answered, expired>>
    BY <1>s DEF tail, Filed, slots, history
  <2>2. OpenUnfiled(sent_times, replied_or_timeout, tail, sent, Filed)'
    BY <1>s, <2>1 DEF ReportedInv, OpenUnfiled
  <2> QED BY <1>s, <2>1, <2>2 DEF ReportedInv, FiledOnce, Tally
<1>1. CASE Quiet
  BY <1>1, <1>a, <1>s, QuietFacts DEF Quiet, own
<1>2. CASE SetupSocket
  BY <1>2, <1>a, <1>s, SetupFacts
<1>3. CASE HeadSend
  <2>1. OpenSlot(tail) /\ CountSend /\ seq' = SuccNumber(seq)
    BY <1>3 DEF HeadSend
  <2>2. /\ sent_times' = [sent_times EXCEPT ![tail] = clock]
        /\ replied_or_timeout' = [replied_or_timeout EXCEPT ![tail] = FALSE]
        /\ sent' = sent + 1 /\ UNCHANGED <<received, answered, expired>>
    BY <1>a, <1>b, <2>1, SendFacts
  <2>3. tail' = Succ(tail) /\ Filed' = Filed
    BY <1>b, <2>1, <2>2 DEF tail, Filed
  <2>4. OpenUnfiled([sent_times EXCEPT ![tail] = clock], [replied_or_timeout EXCEPT ![tail] = FALSE],
                    Succ(tail), sent + 1, Filed)
    <3>1. Filed \subseteq 1 .. sent
      BY <1>a DEF Filed
    <3> QED BY <1>a, <1>b, <3>1, UnfiledAfterSend DEF ReportedInv
  <2>5. OpenUnfiled(sent_times, replied_or_timeout, tail, sent, Filed)'
    BY <2>2, <2>3, <2>4 DEF OpenUnfiled
  <2> QED BY <2>2, <2>5 DEF ReportedInv, FiledOnce, Tally
<1>4. CASE Sweep
  <2>1. SweepTo(tail) /\ seq' = seq
    BY <1>4 DEF Sweep, own
  <2>2. UNCHANGED <<sent, received, sent_times, answered>>
    BY <1>a, <1>b, <2>1, SweepFacts
  <2>3. PICK h \in Slot, lost \in SUBSET Slot :
              /\ h \in Window(next_timeout_check_seq, tail) \cup {tail}
              /\ lost = {s \in Window(next_timeout_check_seq, h) : ~replied_or_timeout[s]}
              /\ next_timeout_check_seq' = h
              /\ replied_or_timeout' = [s \in Slot |-> replied_or_timeout[s] \/ s \in lost]
              /\ expired' = expired \cup {OwnerOf(s, tail, sent) : s \in lost}
    BY <1>a, <1>b, <2>1, SweepFacts
  <2>4. tail' = tail /\ Filed' = Filed \cup {OwnerOf(s, tail, sent) : s \in lost}
    BY <2>1, <2>2, <2>3 DEF tail, Filed
  <2>5. OpenUnfiled(sent_times, [s \in Slot |-> replied_or_timeout[s] \/ s \in lost], tail, sent,
                    Filed \cup {OwnerOf(s, tail, sent) : s \in lost})
    BY <1>a, <1>b, UnfiledAfterSweep DEF ReportedInv
  <2>6. OpenUnfiled(sent_times, replied_or_timeout, tail, sent, Filed)'
    BY <2>2, <2>3, <2>4, <2>5 DEF OpenUnfiled
  <2>7. \A s \in lost : sent_times[s] > 0 /\ ~replied_or_timeout[s]
    BY <1>a, <1>b, <2>3, SweptSlots
  <2>8. \A s \in lost : OwnerOf(s, tail, sent) \notin answered
    BY <2>7 DEF ReportedInv, OpenUnfiled, Filed
  <2>9. FiledOnce'
    BY <2>2, <2>3, <2>8 DEF ReportedInv, FiledOnce
  <2> QED BY <2>2, <2>6, <2>9 DEF ReportedInv, Tally
<1>5. CASE DrainIgnore
  BY <1>5, <1>a, <1>s, IgnoreFacts
<1>6. CASE DrainCredit
  <2> DEFINE s == AckedSlot(Head(sockbuf).ack)
  <2>1. /\ UNCHANGED <<seq, sent, sent_times, expired>>
        /\ s \in Slot /\ ~replied_or_timeout[s]
        /\ replied_or_timeout' = [replied_or_timeout EXCEPT ![s] = TRUE]
        /\ received' = received + 1
        /\ answered' = IF sent_times[s] > 0 THEN answered \cup {OwnerOf(s, tail, sent)} ELSE answered
    BY <1>6, CreditFacts
  <2> HIDE DEF s
  <2>2. tail' = tail
    BY <2>1 DEF tail
  <2>3. sent_times[s] > 0 => OwnerOf(s, tail, sent) \notin Filed
    BY <2>1 DEF ReportedInv, OpenUnfiled
  <2>4. FiledOnce'
    BY <2>1, <2>3 DEF ReportedInv, FiledOnce, Filed
  <2>5. OpenUnfiled(sent_times, [replied_or_timeout EXCEPT ![s] = TRUE], tail, sent,
                    Filed \cup {OwnerOf(s, tail, sent)})
    BY <1>a, <1>b, <2>1, UnfiledAfterClose DEF ReportedInv
  <2>6. Filed' \subseteq Filed \cup {OwnerOf(s, tail, sent)}
    BY <2>1 DEF Filed
  <2>7. OpenUnfiled(sent_times, replied_or_timeout, tail, sent, Filed)'
    BY <2>1, <2>2, <2>5, <2>6 DEF OpenUnfiled
  <2>8. Tally'
    <3>1. IsFiniteSet(answered) /\ Cardinality(answered) \in Nat /\ Cardinality(answered) <= received
      BY FS_CardinalityType DEF ReportedInv, Tally
    <3>2. IsFiniteSet(answered') /\ Cardinality(answered') <= Cardinality(answered) + 1
          /\ Cardinality(answered') \in Nat
      <4>1. CASE sent_times[s] > 0
        <5>1. IsFiniteSet(answered \cup {OwnerOf(s, tail, sent)})
              /\ Cardinality(answered \cup {OwnerOf(s, tail, sent)})
                   = IF OwnerOf(s, tail, sent) \in answered THEN Cardinality(answered)
                     ELSE Cardinality(answered) + 1
          BY <3>1, FS_AddElement
        <5>2. answered' = answered \cup {OwnerOf(s, tail, sent)}
          BY <2>1, <4>1
        <5> QED BY <3>1, <5>1, <5>2
      <4>2. CASE ~(sent_times[s] > 0)
        BY <2>1, <3>1, <4>2
      <4> QED BY <4>1, <4>2
    <3> QED BY <1>a, <2>1, <3>1, <3>2 DEF Tally
  <2> QED BY <2>4, <2>7, <2>8 DEF ReportedInv
<1>7. CASE (ArriveAnswer \/ ArriveStray \/ ArriveForeign) /\ UNCHANGED own
  <2>1. UNCHANGED <<sent, received, slots, history>>
    BY <1>7 DEF ArriveAnswer, ArriveStray, ArriveForeign, Enqueue
  <2> QED BY <1>7, <1>s, <2>1 DEF own
<1> QED BY <1>1, <1>2, <1>3, <1>4, <1>5, <1>6, <1>7, NextSplits

-------------------------------------------------------------------------------
(* How the loop ends is settled when it ends. *)

ExitInv == exit_by = "none" <=> pc # "done"

LEMMA ExitInit == Init => ExitInv
BY DEF Init, LoopInit, ExitInv

LEMMA ExitStep == TypeInv /\ ExitInv /\ [Next]_vars => ExitInv'
<1> SUFFICES ASSUME TypeInv, ExitInv, [Next]_vars PROVE ExitInv'
  OBVIOUS
<1>a. LoopTypeOK /\ sockbuf \in Seq(Packet)
  BY DEF TypeInv, TypeOK
<1>1. CASE Quiet
  <2>1. QuietStep
    BY <1>1 DEF Quiet
  <2>2. \/ exit_by' = exit_by /\ (pc' = "done" <=> pc = "done")
        \/ exit_by' = "signal" /\ pc' = "done"
    BY <1>a, <2>1, QuietFacts
  <2> QED BY <2>2 DEF ExitInv
<1>2. CASE SetupSocket
  BY <1>2, <1>a, SetupFacts DEF ExitInv
<1>3. CASE HeadSend
  <2>1. pc = "head" /\ pc' = "sweep" /\ exit_by' = exit_by
    BY <1>3 DEF HeadSend, OpenSlot, CountSend
  <2> QED BY <2>1 DEF ExitInv
<1>4. CASE Sweep
  <2>1. /\ pc = "sweep"
        /\ \/ pc' = "done" /\ exit_by' = "count"
           \/ pc' = "call" /\ exit_by' = exit_by
    BY <1>4 DEF Sweep, SweepTo
  <2> QED BY <2>1 DEF ExitInv
<1>5. CASE DrainIgnore \/ DrainCredit
  <2>1. UNCHANGED <<pc, exit_by>>
    BY <1>5 DEF DrainIgnore, DrainCredit, IgnorePacket, TakePacket
  <2> QED BY <2>1 DEF ExitInv
<1>6. CASE (ArriveAnswer \/ ArriveStray \/ ArriveForeign) /\ UNCHANGED own
  <2>1. UNCHANGED <<pc, exit_by>>
    BY <1>6 DEF ArriveAnswer, ArriveStray, ArriveForeign, Enqueue
  <2> QED BY <2>1 DEF ExitInv
<1> QED BY <1>1, <1>2, <1>3, <1>4, <1>5, <1>6, NextSplits

-------------------------------------------------------------------------------
(* The window never takes up the whole ring.                               *)

PaceInv ==
  /\ pc = "setup" => sent = 0
  /\ Paced(sent_times, next_timeout_check_seq, tail, next_send_time, clock, pc # "sweep")

LEMMA EmptyPaced ==
  ASSUME NEW t \in Slot, NEW st, NEW next, NEW now, \A s \in Slot : st[s] <= now, NEW swept
  PROVE  Paced(st, t, t, next, now, swept)
<1>1. Window(t, t) = {}
  BY SlotFacts DEF Window
<1> QED BY <1>1 DEF Paced, Spaced, Fresh

LEMMA PaceInit == Init => PaceInv
<1> SUFFICES ASSUME Init PROVE PaceInv
  OBVIOUS
<1>1. /\ next_timeout_check_seq = FirstSlot /\ clock = 1 /\ sent = 0 /\ seq = InitialSeq
      /\ sent_times = [s \in Slot |-> 0]
  BY DEF Init, LoopInit, StartTime
<1>2. tail = FirstSlot /\ tail \in Slot
  BY <1>1, SlotTypes, TcpingAssumption DEF tail, FirstSlot
<1>3. \A s \in Slot : sent_times[s] <= clock
  BY <1>1
<1>4. Paced(sent_times, tail, tail, next_send_time, clock, pc # "sweep")
  BY <1>2, <1>3, EmptyPaced
<1> QED BY <1>1, <1>2, <1>4 DEF PaceInv

(* There is a free slot when a probe is sent. *)
LEMMA Room ==
  ASSUME EnoughSlots, TypeInv, PaceInv, HeadSend
  PROVE  Dist(next_timeout_check_seq, tail) < SeqMod - 1
<1>1. /\ OpenSlot(tail) /\ CountSend /\ LoopTypeOK /\ tail \in Slot
      /\ UsedSlots(sent_times, next_timeout_check_seq, tail, sent)
  BY TailFacts DEF HeadSend, TypeInv, TypeOK, LoopTypeOK
<1>2. pc = "head" /\ (Count = 0 \/ sent < Count) /\ sent \in Nat
      /\ next_timeout_check_seq \in Slot /\ sent_times \in [Slot -> Nat]
  BY <1>1, SendFacts DEF LoopTypeOK
<1>4. Paced(sent_times, next_timeout_check_seq, tail, next_send_time, clock, TRUE)
  BY <1>2 DEF PaceInv, Paced
<1> QED BY <1>1, <1>2, <1>4, RoomForProbe

LEMMA PaceStep == EnoughSlots /\ TypeInv /\ PaceInv /\ [Next]_vars => PaceInv'
<1> SUFFICES ASSUME EnoughSlots, TypeInv, PaceInv, [Next]_vars PROVE PaceInv'
  OBVIOUS
<1>a. /\ LoopTypeOK /\ sockbuf \in Seq(Packet) /\ clock \in Nat /\ next_send_time \in Nat
      /\ UsedSlots(sent_times, next_timeout_check_seq, tail, sent)
      /\ seq = (InitialSeq + sent) % AckMod
      /\ sent \in Nat /\ next_timeout_check_seq \in Slot /\ sent_times \in [Slot -> Nat]
  BY DEF TypeInv, TypeOK, LoopTypeOK
<1>b. tail \in Slot /\ Low16(SuccNumber(seq)) = Succ(tail)
  BY <1>a, TailFacts
(* A step that leaves the window alone. *)
<1>s. ASSUME UNCHANGED <<seq, sent, sent_times, next_timeout_check_seq, next_send_time>>,
             clock' \in Nat, clock' >= clock, pc = "sweep" => pc' = "sweep",
             pc' = "setup" => pc = "setup"
      PROVE  PaceInv'
  <2>1. tail' = tail
    BY <1>s DEF tail
  <2>2. Paced(sent_times, next_timeout_check_seq, tail, next_send_time, clock', pc' # "sweep")
    <3> DEFINE before == pc # "sweep"
               after  == pc' # "sweep"
               later  == clock'
    <3>1. Paced(sent_times, next_timeout_check_seq, tail, next_send_time, clock, before)
      BY DEF PaceInv
    <3>2. later \in Nat /\ later >= clock /\ (after => before)
      BY <1>s
    <3> HIDE DEF before, after, later
    <3>3. Paced(sent_times, next_timeout_check_seq, tail, next_send_time, later, after)
      BY <1>a, <3>1, <3>2, PacedLater
    <3> QED BY <3>3 DEF after, later
  <2>3. pc' = "setup" => sent' = 0
    BY <1>s DEF PaceInv
  <2> QED BY <1>s, <2>1, <2>2, <2>3 DEF PaceInv, Paced, Spaced, Fresh
<1>1. CASE Quiet
  <2>1. /\ UNCHANGED <<seq, sent, slots, next_send_time>> /\ clock' >= clock /\ LoopTypeOK'
        /\ pc = "sweep" => pc' = "sweep"
        /\ pc' \in {pc, "head", "sweep", "poll", "drain", "done"}
    BY <1>1, <1>a, QuietFacts DEF Quiet, own
  <2> QED BY <1>s, <2>1 DEF slots, LoopTypeOK
<1>2. CASE SetupSocket
  <2>1. /\ UNCHANGED <<seq, sent, slots, world>> /\ pc = "setup" /\ pc' # "setup"
    BY <1>2, <1>a, SetupFacts
  <2>2. tail' = tail /\ UNCHANGED <<sent_times, next_timeout_check_seq, clock>>
    BY <2>1 DEF tail, slots, world
  <2>3. next_timeout_check_seq = tail
    BY <1>a, <1>b, <2>1, SlotFacts DEF PaceInv, UsedSlots
  <2>4. \A s \in Slot : sent_times[s] <= clock
    BY DEF PaceInv, Paced
  <2> DEFINE next == next_send_time'
             swept == pc' # "sweep"
  <2> HIDE DEF next, swept
  <2>5. Paced(sent_times, tail, tail, next, clock, swept)
    BY <1>b, <2>4, EmptyPaced
  <2> QED BY <2>1, <2>2, <2>3, <2>5 DEF PaceInv, Paced, Spaced, Fresh, next, swept
<1>3. CASE HeadSend
  <2>1. OpenSlot(tail) /\ CountSend /\ seq' = SuccNumber(seq) /\ misfits' = misfits
    BY <1>3 DEF HeadSend
  <2>2. /\ sent_times' = [sent_times EXCEPT ![tail] = clock]
        /\ sent' = sent + 1 /\ pc = "head" /\ pc' = "sweep"
        /\ next_send_time <= clock /\ next_send_time' = clock + Interval
        /\ UNCHANGED <<exit_by, next_timeout_check_seq, clock>>
    BY <1>a, <1>b, <2>1, SendFacts
  <2>3. tail' = Succ(tail)
    BY <1>b, <2>1 DEF tail
  <2>4. Dist(next_timeout_check_seq, tail) < SeqMod - 1
    BY <1>3, Room
  <2>5. Paced(sent_times, next_timeout_check_seq, tail, next_send_time, clock, TRUE)
    BY <2>2 DEF PaceInv, Paced
  <2>6. Paced([sent_times EXCEPT ![tail] = clock], next_timeout_check_seq, Succ(tail),
              clock + Interval, clock, FALSE)
    BY <1>a, <1>b, <2>2, <2>4, <2>5, PacedAfterSend
  <2> QED BY <2>2, <2>3, <2>6 DEF PaceInv, Paced, Spaced
<1>4. CASE Sweep
  <2>1. SweepTo(tail) /\ pc = "sweep" /\ pc' # "setup" /\ seq' = seq
    BY <1>4 DEF Sweep, SweepTo, own
  <2>3. /\ UNCHANGED <<sent, sent_times, clock, next_send_time>>
        /\ \E h \in Slot :
             /\ SweepStopsAt(next_timeout_check_seq, h, tail, replied_or_timeout, sent_times, clock,
                             Timeout)
             /\ next_timeout_check_seq' = h
    BY <1>a, <1>b, <2>1, SweepFacts
  <2>4. PICK h \in Slot :
             /\ SweepStopsAt(next_timeout_check_seq, h, tail, replied_or_timeout, sent_times, clock,
                             Timeout)
             /\ next_timeout_check_seq' = h
    BY <2>3
  <2>5. Paced(sent_times, next_timeout_check_seq, tail, next_send_time, clock, pc # "sweep")
    BY DEF PaceInv
  <2>6. Paced(sent_times, h, tail, next_send_time, clock, TRUE)
    BY <1>a, <1>b, <2>4, <2>5, PacedAfterSweep
  <2>7. tail' = tail
    BY <2>1 DEF tail
  <2> QED BY <2>1, <2>3, <2>4, <2>6, <2>7 DEF PaceInv, Paced, Spaced, Fresh
<1>5. CASE DrainIgnore
  BY <1>5, <1>a, <1>s, IgnoreFacts DEF slots
<1>6. CASE DrainCredit
  BY <1>6, <1>a, <1>s, CreditFacts
<1>7. CASE (ArriveAnswer \/ ArriveStray \/ ArriveForeign) /\ UNCHANGED own
  <2>1. UNCHANGED <<pc, sent, slots, clock, next_send_time>>
    BY <1>7 DEF ArriveAnswer, ArriveStray, ArriveForeign, Enqueue
  <2> QED BY <1>7, <1>a, <1>s, <2>1 DEF slots, own
<1> QED BY <1>1, <1>2, <1>3, <1>4, <1>5, <1>6, <1>7, NextSplits

-------------------------------------------------------------------------------
(* No probe is forgotten. *)

CompleteInv ==
  /\ Count > 0 => sent <= Count
  /\ NoneForgotten(sent_times, replied_or_timeout, next_timeout_check_seq, tail, sent, Filed)
  /\ exit_by = "count" => sent = Count /\ 1 .. sent \subseteq Filed

LEMMA CompleteInit == Init => CompleteInv
<1> SUFFICES ASSUME Init PROVE CompleteInv
  OBVIOUS
<1>1. sent = 0 /\ sent_times = [s \in Slot |-> 0] /\ exit_by = "none"
  BY DEF Init, LoopInit
<1>2. 1 .. sent - SeqMod = {}
  BY <1>1, SeqModAssumption
<1> QED BY <1>1, <1>2, LoopAssumption DEF CompleteInv, NoneForgotten

LEMMA CompleteStep ==
  EnoughSlots /\ TypeInv /\ ExitInv /\ PaceInv /\ CompleteInv /\ [Next]_vars => CompleteInv'
<1> SUFFICES ASSUME EnoughSlots, TypeInv, ExitInv, PaceInv, CompleteInv, [Next]_vars
             PROVE  CompleteInv'
  OBVIOUS
<1>a. /\ LoopTypeOK /\ sockbuf \in Seq(Packet)
      /\ UsedSlots(sent_times, next_timeout_check_seq, tail, sent)
      /\ seq = (InitialSeq + sent) % AckMod /\ sent \in Nat /\ clock \in Nat
      /\ next_timeout_check_seq \in Slot /\ sent_times \in [Slot -> Nat]
      /\ replied_or_timeout \in [Slot -> BOOLEAN]
  BY DEF TypeInv, TypeOK, LoopTypeOK
<1>b. tail \in Slot /\ Low16(SuccNumber(seq)) = Succ(tail)
  BY <1>a, TailFacts
<1>c. NoneForgotten(sent_times, replied_or_timeout, next_timeout_check_seq, tail, sent, Filed)
  BY DEF CompleteInv
<1>d. pc # "done" => exit_by # "count"
  BY DEF ExitInv
<1>s. ASSUME UNCHANGED <<seq, sent, slots, history>>, exit_by' = "count" => exit_by = "count"
      PROVE  CompleteInv'
  <2>1. UNCHANGED <<tail, Filed, sent, sent_times, replied_or_timeout, next_timeout_check_seq>>
    BY <1>s DEF tail, Filed, slots, history
  <2> QED BY <1>s, <2>1 DEF CompleteInv, NoneForgotten
<1>1. CASE Quiet
  BY <1>1, <1>a, <1>s, QuietFacts DEF Quiet, own
<1>2. CASE SetupSocket
  <2>1. UNCHANGED <<seq, sent, slots, history>> /\ exit_by' \in {"die", exit_by}
    BY <1>2, <1>a, SetupFacts
  <2> QED BY <1>s, <2>1
<1>3. CASE HeadSend
  <2>1. OpenSlot(tail) /\ CountSend /\ seq' = SuccNumber(seq) /\ misfits' = misfits
    BY <1>3 DEF HeadSend
  <2>2. /\ sent_times' = [sent_times EXCEPT ![tail] = clock]
        /\ replied_or_timeout' = [replied_or_timeout EXCEPT ![tail] = FALSE]
        /\ sent' = sent + 1 /\ UNCHANGED <<next_timeout_check_seq, answered, expired, exit_by>>
        /\ Count = 0 \/ sent < Count
        /\ pc = "head"
    BY <1>a, <1>b, <2>1, SendFacts
  <2>3. tail' = Succ(tail) /\ Filed' = Filed
    BY <1>b, <2>1, <2>2 DEF tail, Low16, Filed
  <2>4. Dist(next_timeout_check_seq, tail) < SeqMod - 1
    BY <1>3, Room
  <2>5. NoneForgotten([sent_times EXCEPT ![tail] = clock],
                      [replied_or_timeout EXCEPT ![tail] = FALSE], next_timeout_check_seq,
                      Succ(tail), sent + 1, Filed)
    BY <1>a, <1>b, <1>c, <2>4, ForgottenAfterSend
  <2>6. NoneForgotten(sent_times, replied_or_timeout, next_timeout_check_seq, tail, sent, Filed)'
    BY <2>2, <2>3, <2>5 DEF NoneForgotten
  <2>7. Count > 0 => sent' <= Count
    BY <1>a, <2>2, LoopAssumption
  <2> QED BY <1>d, <2>2, <2>6, <2>7 DEF CompleteInv
<1>4. CASE Sweep
  <2>1. SweepTo(tail) /\ seq' = seq /\ misfits' = misfits
    BY <1>4 DEF Sweep, own
  <2>2. UNCHANGED <<sent, sent_times, answered>>
    BY <1>a, <1>b, <2>1, SweepFacts
  <2>3. PICK h \in Slot, lost \in SUBSET Slot :
              /\ h \in Window(next_timeout_check_seq, tail) \cup {tail}
              /\ lost = {s \in Window(next_timeout_check_seq, h) : ~replied_or_timeout[s]}
              /\ next_timeout_check_seq' = h
              /\ replied_or_timeout' = [s \in Slot |-> replied_or_timeout[s] \/ s \in lost]
              /\ expired' = expired \cup {OwnerOf(s, tail, sent) : s \in lost}
              /\ IF AllDone(h, tail) THEN exit_by' = "count" ELSE exit_by' = exit_by
    BY <1>a, <1>b, <2>1, SweepFacts
  <2>4. tail' = tail /\ Filed' = Filed \cup {OwnerOf(s, tail, sent) : s \in lost}
    BY <2>1, <2>2, <2>3 DEF tail, Filed
  <2>5. NoneForgotten(sent_times, [s \in Slot |-> replied_or_timeout[s] \/ s \in lost], h, tail, sent,
                      Filed \cup {OwnerOf(s, tail, sent) : s \in lost})
    <3>1. /\ h \in Window(next_timeout_check_seq, tail) \cup {tail}
          /\ \A s \in Slot : s \in lost <=> /\ s \in Window(next_timeout_check_seq, h)
                                          /\ ~replied_or_timeout[s]
      BY <2>3
    <3>2. /\ tail \in Slot /\ sent \in Nat /\ next_timeout_check_seq \in Slot
          /\ replied_or_timeout \in [Slot -> BOOLEAN] /\ h \in Slot /\ lost \in SUBSET Slot
      BY <1>a, <1>b
    <3>3. NoneForgotten(sent_times, replied_or_timeout, next_timeout_check_seq, tail, sent, Filed)
      BY <1>c
    <3> DEFINE swept   == [s \in Slot |-> replied_or_timeout[s] \/ s \in lost]
               settled == Filed \cup {OwnerOf(s, tail, sent) : s \in lost}
    <3>4. /\ swept \in [Slot -> BOOLEAN] /\ \A s \in Slot : swept[s] <=> replied_or_timeout[s] \/ s \in lost
          /\ Filed \subseteq settled /\ \A s \in lost : OwnerOf(s, tail, sent) \in settled
      BY <3>2
    <3> HIDE DEF swept, settled
    <3>5. NoneForgotten(sent_times, swept, h, tail, sent, settled)
      BY <3>1, <3>2, <3>3, <3>4, ForgottenAfterSweep
    <3> QED BY <3>5 DEF swept, settled
  <2>6. NoneForgotten(sent_times, replied_or_timeout, next_timeout_check_seq, tail, sent, Filed)'
    BY <2>2, <2>3, <2>4, <2>5 DEF NoneForgotten
  <2>7. ASSUME AllDone(h, tail) PROVE sent = Count /\ 1 .. sent \subseteq Filed'
    <3>1. h = tail /\ sent = Count
      BY <1>a, <2>7, LoopAssumption DEF AllDone, CompleteInv
    <3>2. UsedSlots(sent_times, tail, tail, sent)
      BY <1>a, <1>b, <2>3, <3>1, UsedAfterSweep
    <3>3. NoneForgotten(sent_times, [s \in Slot |-> replied_or_timeout[s] \/ s \in lost], tail, tail,
                        sent, Filed \cup {OwnerOf(s, tail, sent) : s \in lost})
      BY <2>5, <3>1
    <3>4. 1 .. sent \subseteq Filed \cup {OwnerOf(s, tail, sent) : s \in lost}
      BY <1>a, <1>b, <3>2, <3>3, AllFiled
    <3> QED BY <2>4, <3>1, <3>4
  <2>8. exit_by' = "count" => sent' = Count /\ 1 .. sent' \subseteq Filed'
    <3>1. pc # "done"
      BY <2>1 DEF SweepTo
    <3> QED BY <1>d, <2>2, <2>3, <2>7, <3>1
  <2> QED BY <2>2, <2>6, <2>8 DEF CompleteInv
<1>5. CASE DrainIgnore
  BY <1>5, <1>a, <1>s, IgnoreFacts
<1>6. CASE DrainCredit
  <2> DEFINE s == AckedSlot(Head(sockbuf).ack)
  <2>1. /\ UNCHANGED <<seq, sent, next_timeout_check_seq, sent_times, expired, exit_by>>
        /\ s \in Slot
        /\ replied_or_timeout' = [replied_or_timeout EXCEPT ![s] = TRUE]
        /\ answered' = IF sent_times[s] > 0 THEN answered \cup {OwnerOf(s, tail, sent)} ELSE answered
    BY <1>6, CreditFacts
  <2> HIDE DEF s
  <2>2. tail' = tail /\ Filed \subseteq Filed'
    BY <2>1 DEF tail, Filed
  <2>3. sent_times[s] > 0 => OwnerOf(s, tail, sent) \in Filed'
    BY <2>1 DEF Filed
  <2>4. NoneForgotten(sent_times, [replied_or_timeout EXCEPT ![s] = TRUE], next_timeout_check_seq,
                      tail, sent, Filed')
    <3> DEFINE more == Filed'
    <3>1. Filed \subseteq more /\ (sent_times[s] > 0 => OwnerOf(s, tail, sent) \in more)
      BY <2>2, <2>3
    <3> HIDE DEF more
    <3>2. NoneForgotten(sent_times, [replied_or_timeout EXCEPT ![s] = TRUE], next_timeout_check_seq,
                        tail, sent, more)
      BY <1>a, <1>c, <2>1, <3>1, ForgottenAfterClose
    <3> QED BY <3>2 DEF more
  <2>5. NoneForgotten(sent_times, replied_or_timeout, next_timeout_check_seq, tail, sent, Filed)'
    BY <2>1, <2>2, <2>4 DEF NoneForgotten
  <2> QED BY <2>1, <2>2, <2>5 DEF CompleteInv
<1>7. CASE (ArriveAnswer \/ ArriveStray \/ ArriveForeign) /\ UNCHANGED own
  <2>1. UNCHANGED <<sent, slots, history, exit_by>>
    BY <1>7 DEF ArriveAnswer, ArriveStray, ArriveForeign, Enqueue
  <2> QED BY <1>7, <1>s, <2>1 DEF own
<1> QED BY <1>1, <1>2, <1>3, <1>4, <1>5, <1>6, <1>7, NextSplits

(* No probe is both answered and expired, with any number of probes and     *)
(* whatever segments come: a slot that is used again is open for its new   *)
(* probe only.                                                             *)
THEOREM FatesStayApart == Spec => []FiledOnce
<1>1. ReportedInv => FiledOnce
  BY DEF ReportedInv
<1> QED BY <1>1, TypeInit, TypeStep, ReportedInit, ReportedStep, PTL DEF Spec

LEMMA AccountsKept == ASSUME EnoughSlots PROVE Spec => [](TypeInv /\ ExitInv /\ CompleteInv)
<1>1. Init => TypeInv /\ ExitInv /\ PaceInv /\ CompleteInv
  BY TypeInit, ExitInit, PaceInit, CompleteInit
<1>2. TypeInv /\ ExitInv /\ PaceInv /\ CompleteInv /\ [Next]_vars
        => (TypeInv /\ ExitInv /\ PaceInv /\ CompleteInv)'
  BY TypeStep, ExitStep, PaceStep, CompleteStep
<1> QED BY <1>1, <1>2, PTL DEF Spec

(* If the slots are enough, tcping leaves by its count only when all the    *)
(* probes asked for were sent, and each was answered or has expired.       *)
CountExitIsComplete == exit_by = "count" => sent = Count /\ answered \cup expired = 1 .. sent

(* The same theorem as for ping, whatever the delays and the segments.     *)
THEOREM CountExitComplete == ASSUME EnoughSlots PROVE Spec => []CountExitIsComplete
<1>1. TypeInv /\ CompleteInv => CountExitIsComplete
  BY DEF TypeInv, TypeOK, LoopTypeOK, CompleteInv, Filed, CountExitIsComplete
<1> QED BY <1>1, AccountsKept, PTL

(* If the slots are enough, a probe that was neither answered nor given up  *)
(* is open in the window, however long tcping runs: the sweep will come to *)
(* it.                                                                     *)
NoProbeForgotten ==
  \A p \in (1 .. sent) \ (answered \cup expired) :
    \E s \in Window(next_timeout_check_seq, tail) : ~replied_or_timeout[s] /\ Owner(s, tail) = p

(* If the slots are enough, tcping forgets no probe, however long it runs: *)
(* each is answered, has expired or is still to be swept.                  *)
THEOREM NoneIsForgotten == ASSUME EnoughSlots PROVE Spec => []NoProbeForgotten
<1>1. TypeInv /\ CompleteInv => NoProbeForgotten
  <2> SUFFICES ASSUME TypeInv, CompleteInv, NEW p \in (1 .. sent) \ Filed
               PROVE  \E s \in Window(next_timeout_check_seq, tail) :
                        ~replied_or_timeout[s] /\ Owner(s, tail) = p
    BY DEF NoProbeForgotten, Filed
  <2>1. /\ tail \in Slot /\ sent \in Nat /\ next_timeout_check_seq \in Slot
        /\ UsedSlots(sent_times, next_timeout_check_seq, tail, sent)
        /\ NoneForgotten(sent_times, replied_or_timeout, next_timeout_check_seq, tail, sent, Filed)
    BY TailFacts DEF TypeInv, TypeOK, LoopTypeOK, CompleteInv
  <2>2. \E s \in Window(next_timeout_check_seq, tail) :
          ~replied_or_timeout[s] /\ OwnerOf(s, tail, sent) = p
    BY <2>1, OutstandingInWindow
  <2> QED BY <2>2 DEF Owner, OwnerOf
<1> QED BY <1>1, AccountsKept, PTL

-------------------------------------------------------------------------------
(* Which probe a segment answers. *)

(* Probe p carries the p-th number from INITIAL_SEQ on, and an answer to    *)
(* it the next one; only strays name no probe.                             *)
Genuine(q) ==
  /\ q.probe > 0 => q.probe \in heard /\ q.ack = (InitialSeq + q.probe) % AckMod
  /\ q.answer /\ StrayAcks = {} => q.probe > 0

GenuineInv ==
  /\ \A r \in on_wire : r.probe \in 1 .. sent /\ SuccNumber(r.seq) = (InitialSeq + r.probe) % AckMod
  /\ heard \subseteq 1 .. sent
  /\ \A i \in 1 .. Len(sockbuf) : Genuine(sockbuf[i])

(* An answer still in the buffer names a probe a slot belongs to. *)
AnswersTimely == \A i \in 1 .. Len(sockbuf) : sockbuf[i].answer => Fits(sockbuf[i])

(* The slot an answer to probe p is for belongs to p. *)
LEMMA NumberOfProbe ==
  ASSUME TypeInv, NEW p \in 1 .. sent, p > sent - SeqMod,
         NEW ack, ack = (InitialSeq + p) % AckMod, ack > 0
  PROVE  /\ AckedSlot(ack) \in Slot /\ OwnerOf(AckedSlot(ack), tail, sent) = p
         /\ sent_times[AckedSlot(ack)] > 0
<1> DEFINE x == InitialSeq + p - 1
           d == sent + 1 - p
           y == x % AckMod
           s == AckedSlot(ack)
<1>1. /\ sent \in Nat /\ tail \in Slot /\ tail = (InitialSeq + sent) % SeqMod
      /\ UsedSlots(sent_times, next_timeout_check_seq, tail, sent)
  BY TailFacts DEF TypeInv, TypeOK, LoopTypeOK, Low16
<1>2. /\ x \in Nat /\ d \in 1 .. SeqMod /\ x + d = InitialSeq + sent /\ x + 1 = InitialSeq + p
      /\ d = sent + 1 - p
  BY <1>1, TcpingAssumption, SeqModAssumption
<1> HIDE DEF x, d
<1>3. y \in Number /\ ack = SuccNumber(y) /\ Low16(y) = x % SeqMod
  BY <1>2, NextNumber, SlotOfNumber DEF Low16
<1> HIDE DEF y
<1>4. y \in Nat /\ ack = y + 1
  BY <1>3, TcpingAssumption DEF Number, SuccNumber
<1>5. s = x % SeqMod /\ s \in Slot
  BY <1>2, <1>3, <1>4, SlotTypes, NumberToSlot
<1> HIDE DEF s
<1>6. OwnerOf(s, tail, sent) = sent + 1 - d
  <2>1. CASE d = SeqMod
    <3>1. (x + d) % SeqMod = x % SeqMod
      <4> DEFINE w == x + d
      <4>1. SeqMod \in Nat \ {0} /\ w \in Nat /\ w = 1 * SeqMod + x
        BY <1>2, <2>1, SeqModAssumption
      <4>2. 1 \in Int /\ x \in Nat
        BY <1>2
      <4> HIDE DEF w
      <4>3. w % SeqMod = x % SeqMod
        BY <4>1, <4>2, SameRemainder
      <4> QED BY <4>3 DEF w
    <3>2. s = tail
      BY <1>1, <1>2, <1>5, <3>1, Zenon
    <3> QED BY <1>1, <2>1, <3>2, OwnerOfFacts
  <2>2. CASE d # SeqMod
    <3>1. d \in 1 .. SeqMod - 1
      BY <1>2, <2>2, SeqModAssumption
    <3>2. x % SeqMod # (x + d) % SeqMod /\ Dist(x % SeqMod, (x + d) % SeqMod) = d
      BY <1>2, <3>1, NumberToSlot
    <3>3. s # tail /\ Dist(s, tail) = d
      BY <1>1, <1>2, <1>5, <3>2, Zenon
    <3> QED BY <1>1, <1>5, <3>3, OwnerOfFacts
  <2> QED BY <2>1, <2>2
<1>7. OwnerOf(s, tail, sent) = p
  BY <1>1, <1>2, <1>6
<1>8. sent_times[s] > 0
  BY <1>1, <1>5, <1>7 DEF UsedSlots
<1> QED BY <1>5, <1>7, <1>8 DEF s

LEMMA GenuineInit == Init => GenuineInv
BY DEF Init, LoopInit, GenuineInv

LEMMA GenuineStep == TypeInv /\ GenuineInv /\ [Next]_vars => GenuineInv'
<1> SUFFICES ASSUME TypeInv, GenuineInv, [Next]_vars PROVE GenuineInv'
  OBVIOUS
<1>a. /\ LoopTypeOK /\ sockbuf \in Seq(Packet) /\ on_wire \subseteq Request
      /\ UsedSlots(sent_times, next_timeout_check_seq, tail, sent)
      /\ seq = (InitialSeq + sent) % AckMod /\ sent \in Nat
  BY DEF TypeInv, TypeOK, LoopTypeOK
<1>b. tail \in Slot /\ SuccNumber(seq) = (InitialSeq + (sent + 1)) % AckMod
  BY <1>a, TailFacts
<1>q. ASSUME UNCHANGED <<sent, on_wire, sockbuf, heard>> PROVE GenuineInv'
  BY <1>q DEF GenuineInv, Genuine
<1>t. ASSUME UNCHANGED <<sent, on_wire, heard>>,
             \A i \in 1 .. Len(sockbuf') : i + 1 \in 1 .. Len(sockbuf) /\ sockbuf'[i] = sockbuf[i + 1]
      PROVE  GenuineInv'
  BY <1>t DEF GenuineInv, Genuine
<1>1. CASE Quiet
  BY <1>1, <1>a, <1>q, QuietFacts DEF Quiet
<1>2. CASE SetupSocket
  BY <1>2, <1>a, <1>q, SetupFacts DEF world
<1>3. CASE HeadSend
  <2>1. OpenSlot(tail) /\ CountSend
        /\ on_wire' \subseteq on_wire \cup {[probe |-> sent + 1, seq |-> seq, at |-> clock]}
    BY <1>3 DEF HeadSend
  <2>2. sent' = sent + 1 /\ UNCHANGED <<sockbuf, heard>>
    BY <2>1 DEF OpenSlot, CountSend
  <2>3. \A r \in on_wire' :
          r.probe \in 1 .. sent' /\ SuccNumber(r.seq) = (InitialSeq + r.probe) % AckMod
    <3> SUFFICES ASSUME NEW r \in on_wire'
                 PROVE  r.probe \in 1 .. sent' /\ SuccNumber(r.seq) = (InitialSeq + r.probe) % AckMod
      OBVIOUS
    <3>1. CASE r \in on_wire
      BY <1>a, <2>2, <3>1 DEF GenuineInv
    <3>2. CASE r = [probe |-> sent + 1, seq |-> seq, at |-> clock]
      <4>1. r.probe = sent + 1 /\ r.seq = seq
        BY <3>2
      <4>2. sent + 1 \in 1 .. sent'
        BY <1>a, <2>2
      <4> QED BY <1>b, <4>1, <4>2, Zenon
    <3> QED BY <2>1, <3>1, <3>2
  <2>4. heard' \subseteq 1 .. sent'
    BY <1>a, <2>2 DEF GenuineInv
  <2> QED BY <2>2, <2>3, <2>4 DEF GenuineInv, Genuine
<1>4. CASE Sweep
  BY <1>4, <1>q DEF Sweep, SweepTo, world
<1>5. CASE DrainIgnore
  BY <1>5, <1>a, <1>t, IgnoreFacts
<1>6. CASE DrainCredit
  <2>1. /\ UNCHANGED <<sent, on_wire, heard>>
        /\ \A i \in 1 .. Len(sockbuf') : i + 1 \in 1 .. Len(sockbuf) /\ sockbuf'[i] = sockbuf[i + 1]
    BY <1>6, CreditFacts
  <2> QED BY <1>t, <2>1
<1>e. ASSUME NEW p \in Packet, Enqueue(p), heard \subseteq heard', heard' \subseteq 1 .. sent,
             /\ p.probe > 0 => p.probe \in heard' /\ p.ack = (InitialSeq + p.probe) % AckMod
             /\ p.answer /\ StrayAcks = {} => p.probe > 0
      PROVE  GenuineInv'
  <2>1. /\ \A i \in 1 .. Len(sockbuf') :
             \/ i \in 1 .. Len(sockbuf) /\ sockbuf'[i] = sockbuf[i]
             \/ sockbuf'[i] = p
        /\ UNCHANGED <<sent, on_wire>>
    BY <1>a, <1>e, EnqueueFacts
  <2>2. ASSUME NEW i \in 1 .. Len(sockbuf') PROVE Genuine(sockbuf[i])'
    <3>1. CASE i \in 1 .. Len(sockbuf) /\ sockbuf'[i] = sockbuf[i]
      BY <1>e, <3>1 DEF GenuineInv, Genuine
    <3>2. CASE sockbuf'[i] = p
      BY <1>e, <3>2 DEF Genuine
    <3> QED BY <2>1, <3>1, <3>2
  <2> QED BY <1>e, <2>1, <2>2 DEF GenuineInv
<1>7. CASE ArriveAnswer /\ UNCHANGED own
  <2>1. PICK r \in on_wire :
           /\ r \in Request
           /\ [answer |-> TRUE, ack |-> SuccNumber(r.seq), probe |-> r.probe] \in Packet
           /\ Enqueue([answer |-> TRUE, ack |-> SuccNumber(r.seq), probe |-> r.probe])
           /\ heard' = heard \cup {r.probe}
    BY <1>7, <1>a, AnswerPacket
  <2>2. r.probe \in 1 .. sent /\ SuccNumber(r.seq) = (InitialSeq + r.probe) % AckMod
    BY DEF GenuineInv
  <2>3. heard \subseteq heard' /\ heard' \subseteq 1 .. sent /\ r.probe \in heard' /\ r.probe > 0
    <3>1. heard \subseteq 1 .. sent /\ r.probe > 0
      BY <1>a, <2>2 DEF GenuineInv
    <3> QED BY <2>1, <2>2, <3>1, Zenon
  <2> DEFINE q == [answer |-> TRUE, ack |-> SuccNumber(r.seq), probe |-> r.probe]
  <2>4. q \in Packet /\ Enqueue(q) /\ q.probe = r.probe /\ q.ack = (InitialSeq + r.probe) % AckMod
    BY <2>1, <2>2
  <2> HIDE DEF q
  <2> QED BY <1>e, <2>3, <2>4
<1>8. CASE ArriveStray /\ UNCHANGED own
  <2>1. PICK a \in StrayAcks : Enqueue([answer |-> TRUE, ack |-> a, probe |-> 0])
    BY <1>8 DEF ArriveStray
  <2> DEFINE q == [answer |-> TRUE, ack |-> a, probe |-> 0]
  <2>2. q \in Packet /\ Enqueue(q) /\ q.probe = 0
    BY <2>1, OtherPackets
  <2> HIDE DEF q
  <2>3. heard' = heard /\ heard \subseteq 1 .. sent
    BY <1>8 DEF ArriveStray, GenuineInv
  <2> QED BY <1>e, <2>2, <2>3
<1>9. CASE ArriveForeign /\ UNCHANGED own
  <2> DEFINE q == [answer |-> FALSE, ack |-> 0, probe |-> 0]
  <2>1. q \in Packet /\ Enqueue(q) /\ q.probe = 0 /\ ~q.answer
    BY <1>9, OtherPackets DEF ArriveForeign
  <2> HIDE DEF q
  <2>2. heard' = heard /\ heard \subseteq 1 .. sent
    BY <1>9 DEF ArriveForeign, GenuineInv
  <2> QED BY <1>e, <2>1, <2>2
<1> QED BY <1>1, <1>2, <1>3, <1>4, <1>5, <1>6, <1>7, <1>8, <1>9, NextSplits

-------------------------------------------------------------------------------
(* What is counted: probes whose own answer came, each once, and misfits.  *)

CountInv == received <= Cardinality(answered \cap heard) + misfits

(* A segment that fits is for a probe that has not been filed. *)
LEMMA FitIsAnswer ==
  ASSUME TypeInv, ReportedInv, GenuineInv, DrainCredit, Fits(sockbuf[1])
  PROVE  /\ sockbuf[1].probe \in heard \cap (1 .. sent) /\ sockbuf[1].probe \notin Filed
         /\ answered' = answered \cup {sockbuf[1].probe}
<1> DEFINE s == AckedSlot(Head(sockbuf).ack)
           p == sockbuf[1].probe
<1>1. /\ Head(sockbuf) = sockbuf[1] /\ 1 \in 1 .. Len(sockbuf) /\ sockbuf[1] \in Packet
      /\ s \in Slot /\ ~replied_or_timeout[s]
      /\ answered' = IF sent_times[s] > 0 THEN answered \cup {OwnerOf(s, tail, sent)} ELSE answered
  BY CreditFacts
<1>2. /\ p > 0 /\ p + SeqMod > sent /\ sockbuf[1].ack > 0
      /\ p \in heard /\ sockbuf[1].ack = (InitialSeq + p) % AckMod
  BY <1>1 DEF Fits, GenuineInv, Genuine
<1>3. p \in 1 .. sent /\ sent \in Nat
  BY <1>2 DEF GenuineInv, TypeInv, TypeOK, LoopTypeOK
<1>4. p > sent - SeqMod
  BY <1>2, <1>3, SeqModAssumption
<1>5. OwnerOf(s, tail, sent) = p /\ sent_times[s] > 0
  BY <1>1, <1>2, <1>3, <1>4, NumberOfProbe
<1> HIDE DEF s, p
<1>6. p \notin Filed
  BY <1>1, <1>5 DEF ReportedInv, OpenUnfiled
<1> QED BY <1>1, <1>2, <1>3, <1>5, <1>6 DEF p

LEMMA CountStep ==
  TypeInv /\ ReportedInv /\ GenuineInv /\ CountInv /\ [Next]_vars => CountInv'
<1> SUFFICES ASSUME TypeInv, ReportedInv, GenuineInv, CountInv, [Next]_vars PROVE CountInv'
  OBVIOUS
<1>a. /\ LoopTypeOK /\ sockbuf \in Seq(Packet) /\ on_wire \subseteq Request
      /\ received \in Nat /\ misfits \in Nat /\ IsFiniteSet(answered)
  BY DEF TypeInv, TypeOK, LoopTypeOK, ReportedInv, Tally
<1>c. ASSUME NEW H PROVE IsFiniteSet(answered \cap H) /\ Cardinality(answered \cap H) \in Nat
  BY <1>a, FS_Subset, FS_CardinalityType
<1>s. ASSUME UNCHANGED <<misfits, received, answered>>, heard \subseteq heard' PROVE CountInv'
  <2> DEFINE now == answered \cap heard
             new == answered \cap heard'
  <2>1. now \subseteq new /\ IsFiniteSet(new) /\ Cardinality(new) \in Nat /\ Cardinality(now) \in Nat
    BY <1>c, <1>s
  <2>2. CountInv => received <= Cardinality(now) + misfits
    BY DEF CountInv
  <2>3. CountInv' <=> received <= Cardinality(new) + misfits
    BY <1>s DEF CountInv
  <2> HIDE DEF now, new
  <2>4. Cardinality(now) <= Cardinality(new)
    BY <2>1, FS_Subset
  <2> QED BY <1>a, <2>1, <2>2, <2>3, <2>4
<1>1. CASE Quiet
  BY <1>1, <1>a, <1>s, QuietFacts DEF Quiet, own, history
<1>2. CASE SetupSocket
  BY <1>2, <1>a, <1>s, SetupFacts DEF history, world
<1>3. CASE HeadSend
  BY <1>3, <1>s DEF HeadSend, OpenSlot, CountSend, history
<1>4. CASE Sweep
  BY <1>4, <1>s DEF Sweep, SweepTo, own, world
<1>5. CASE DrainIgnore
  BY <1>5, <1>a, <1>s, IgnoreFacts DEF history
<1>6. CASE DrainCredit
  <2> DEFINE s == AckedSlot(Head(sockbuf).ack)
  <2>1. /\ received' = received + 1 /\ heard' = heard
        /\ misfits' = IF Fits(sockbuf[1]) THEN misfits ELSE misfits + 1
        /\ answered' = IF sent_times[s] > 0 THEN answered \cup {OwnerOf(s, tail, sent)} ELSE answered
    BY <1>6, CreditFacts
  <2> HIDE DEF s
  <2> DEFINE now == answered \cap heard
             new == answered' \cap heard
  <2>2. IsFiniteSet(now) /\ Cardinality(now) \in Nat /\ now \subseteq new
    BY <1>c, <2>1
  <2>3. IsFiniteSet(answered')
    <3>1. CASE sent_times[s] > 0
      BY <1>a, <2>1, <3>1, FS_AddElement
    <3>2. CASE ~(sent_times[s] > 0)
      BY <1>a, <2>1, <3>2
    <3> QED BY <3>1, <3>2
  <2>4. IsFiniteSet(new) /\ Cardinality(new) \in Nat
    BY <2>3, FS_Subset, FS_CardinalityType
  <2>5. received <= Cardinality(now) + misfits
    BY DEF CountInv
  <2>6. CountInv' <=> received' <= Cardinality(new) + misfits'
    BY <2>1 DEF CountInv
  <2>7. CASE Fits(sockbuf[1])
    <3>1. /\ sockbuf[1].probe \in heard /\ sockbuf[1].probe \notin answered
          /\ answered' = answered \cup {sockbuf[1].probe}
      BY <1>6, <2>7, FitIsAnswer DEF Filed
    <3>2. new = now \cup {sockbuf[1].probe} /\ sockbuf[1].probe \notin now
      BY <3>1
    <3> HIDE DEF now, new
    <3>3. Cardinality(new) = Cardinality(now) + 1
      BY <2>2, <3>2, FS_AddElement
    <3> QED BY <1>a, <2>1, <2>2, <2>5, <2>6, <2>7, <3>3
  <2>8. CASE ~Fits(sockbuf[1])
    <3> HIDE DEF now, new
    <3>1. Cardinality(now) <= Cardinality(new)
      BY <2>2, <2>4, FS_Subset
    <3> QED BY <1>a, <2>1, <2>2, <2>4, <2>5, <2>6, <2>8, <3>1
  <2> QED BY <2>7, <2>8
<1>7. CASE (ArriveAnswer \/ ArriveStray \/ ArriveForeign) /\ UNCHANGED own
  <2>1. UNCHANGED <<received, history>> /\ heard \subseteq heard'
    BY <1>7 DEF ArriveAnswer, ArriveStray, ArriveForeign, Enqueue
  <2> QED BY <1>7, <1>s, <2>1 DEF own, history
<1> QED BY <1>1, <1>2, <1>3, <1>4, <1>5, <1>6, <1>7, NextSplits

(* However slots and numbers wrap and answers are late, doubled or strays:  *)
(* what tcping counts are probes whose own answer came, each once, and one *)
(* more for each segment it took for an answer that names no probe a slot  *)
(* belongs to - an RST without ACK, an answer a whole ring of slots late,  *)
(* or the answer to the last of TCP's numbers.  So a loss is hidden, or an *)
(* answer invented, only by such a segment, and by each at most one.       *)
THEOREM CountErrorIsBounded == Spec => []CountErrorBounded
<1>1. TypeInv /\ ReportedInv /\ CountInv => CountErrorBounded
  <2> SUFFICES ASSUME TypeInv, ReportedInv, CountInv PROVE CountErrorBounded
    OBVIOUS
  <2> DEFINE C == answered \cap heard
  <2>1. received \in Nat /\ misfits \in Nat /\ IsFiniteSet(answered)
        /\ Cardinality(answered) <= received
    BY DEF TypeInv, TypeOK, LoopTypeOK, ReportedInv, Tally
  <2>2. C \subseteq answered
    OBVIOUS
  <2>3. received <= Cardinality(C) + misfits
    BY DEF CountInv
  <2> HIDE DEF C
  <2>4. Cardinality(C) <= Cardinality(answered) /\ Cardinality(C) \in Nat
        /\ Cardinality(answered) \in Nat
    BY <2>1, <2>2, FS_Subset, FS_CardinalityType
  <2>5. received - Cardinality(C) \in 0 .. misfits
    BY <2>1, <2>3, <2>4
  <2> QED BY <2>5 DEF CountErrorBounded, C
<1>2. Init => CountInv
  <2> SUFFICES ASSUME Init PROVE CountInv
    OBVIOUS
  <2>1. received = 0 /\ answered \cap heard = {} /\ misfits = 0
    BY DEF Init, LoopInit
  <2> QED BY <2>1, FS_EmptySet DEF CountInv
<1> QED BY <1>1, <1>2, TypeInit, TypeStep, ReportedInit, ReportedStep, GenuineInit, GenuineStep,
           CountStep, PTL DEF Spec

-------------------------------------------------------------------------------
(* Tcping implements ProbeLedger, if the slots are enough and each answer   *)
(* names a probe a slot belongs to.                                        *)

LEMMA StatusFacts ==
  /\ exit_by = "none" => LedgerStatus = "running"
  /\ exit_by = "count" => LedgerStatus = "complete"
  /\ exit_by \in {"signal", "die"} => LedgerStatus = "interrupted"
BY DEF LedgerStatus

LEMMA LedgerStep ==
  TypeInv /\ ReportedInv /\ CompleteInv /\ GenuineInv /\ ExitInv /\ AnswersTimely /\ [Next]_vars
    => [Ledger!Next]_(Ledger!vars)
<1> SUFFICES ASSUME TypeInv, ReportedInv, CompleteInv, GenuineInv, ExitInv, AnswersTimely, [Next]_vars
             PROVE  [Ledger!Next]_(Ledger!vars)
  OBVIOUS
<1>a. /\ LoopTypeOK /\ sockbuf \in Seq(Packet)
      /\ UsedSlots(sent_times, next_timeout_check_seq, tail, sent)
      /\ OpenUnfiled(sent_times, replied_or_timeout, tail, sent, Filed)
      /\ NoneForgotten(sent_times, replied_or_timeout, next_timeout_check_seq, tail, sent, Filed)
      /\ seq = (InitialSeq + sent) % AckMod /\ sent \in Nat /\ next_timeout_check_seq \in Slot
      /\ sent_times \in [Slot -> Nat] /\ replied_or_timeout \in [Slot -> BOOLEAN]
  BY DEF TypeInv, TypeOK, LoopTypeOK, ReportedInv, CompleteInv
<1>b. tail \in Slot
  BY <1>a, TailFacts
<1>n. Count \in Nat /\ (Count > 0 => sent <= Count)
  BY LoopAssumption DEF CompleteInv
<1>k. ASSUME exit_by' = exit_by PROVE LedgerStatus' = LedgerStatus
  BY <1>k DEF LedgerStatus
<1>r. ASSUME pc # "done" PROVE LedgerStatus = "running"
  BY <1>r, StatusFacts DEF ExitInv
<1>o. Ledger!Outstanding = (1 .. sent) \ Filed
  BY DEF Ledger!Outstanding, Filed
<1>s. ASSUME UNCHANGED <<sent, heard, answered, expired>>,
             \/ exit_by' = exit_by
             \/ exit_by' \in {"signal", "die"} /\ pc # "done"
      PROVE  [Ledger!Next]_(Ledger!vars)
  <2>1. CASE exit_by' = exit_by
    BY <1>k, <1>s, <2>1 DEF Ledger!vars
  <2>2. CASE exit_by' \in {"signal", "die"} /\ pc # "done"
    <3>1. LedgerStatus' = "interrupted"
      BY <2>2 DEF LedgerStatus
    <3>2. Ledger!Interrupt
      BY <1>r, <1>s, <2>2, <3>1 DEF Ledger!Interrupt
    <3> QED BY <3>2 DEF Ledger!Next
  <2> QED BY <1>s, <2>1, <2>2
<1>1. CASE Quiet
  <2>1. QuietStep
    BY <1>1 DEF Quiet
  <2>2. /\ UNCHANGED <<sent, heard, history>>
        /\ \/ exit_by' = exit_by
           \/ exit_by' = "signal" /\ pc # "done"
    BY <1>a, <2>1, QuietFacts
  <2> QED BY <1>s, <2>2 DEF history
<1>2. CASE SetupSocket
  <2>1. /\ UNCHANGED <<sent, history, world>>
        /\ \/ exit_by' = exit_by
           \/ exit_by' = "die" /\ pc # "done"
    BY <1>2, <1>a, SetupFacts
  <2> QED BY <1>s, <2>1 DEF history, world
<1>3. CASE HeadSend
  <2>1. OpenSlot(tail) /\ CountSend
    BY <1>3 DEF HeadSend
  <2>2. /\ UNCHANGED <<exit_by, heard, answered, expired>> /\ sent' = sent + 1
        /\ pc # "done" /\ (Count = 0 \/ sent < Count)
    BY <2>1 DEF OpenSlot, CountSend, SendDue, MaySend, history
  <2>3. Ledger!Send
    BY <1>k, <1>r, <2>2 DEF Ledger!Send
  <2> QED BY <2>3 DEF Ledger!Next
<1>4. CASE Sweep
  <2>1. SweepTo(tail) /\ pc # "done"
    BY <1>4 DEF Sweep, SweepTo
  <2>2. UNCHANGED <<sent, heard, answered>>
    BY <1>a, <1>b, <2>1, SweepFacts
  <2>3. PICK h \in Slot, lost \in SUBSET Slot :
              /\ h \in Window(next_timeout_check_seq, tail) \cup {tail}
              /\ lost = {s \in Window(next_timeout_check_seq, h) : ~replied_or_timeout[s]}
              /\ expired' = expired \cup {OwnerOf(s, tail, sent) : s \in lost}
              /\ IF AllDone(h, tail) THEN exit_by' = "count" ELSE exit_by' = exit_by
    BY <1>a, <1>b, <2>1, SweepFacts
  <2> DEFINE n == sent - Dist(h, tail)
             old == {p \in Ledger!Outstanding : p <= n}
  <2>4. /\ n \in 0 .. sent
        /\ {OwnerOf(s, tail, sent) : s \in {r \in Window(next_timeout_check_seq, h) : ~replied_or_timeout[r]}}
             = {p \in (1 .. sent) \ Filed : p <= n}
    <3>1. /\ sent \in Nat /\ next_timeout_check_seq \in Slot
          /\ sent_times \in [Slot -> Nat] /\ replied_or_timeout \in [Slot -> BOOLEAN]
      BY <1>a
    <3>2. UsedSlots(sent_times, next_timeout_check_seq, tail, sent)
      BY <1>a, <1>b
    <3>3. /\ OpenUnfiled(sent_times, replied_or_timeout, tail, sent, Filed)
          /\ NoneForgotten(sent_times, replied_or_timeout, next_timeout_check_seq, tail, sent, Filed)
      BY <1>a, <1>b
    <3>4. h \in Window(next_timeout_check_seq, tail) \cup {tail}
      BY <2>3
    <3>5. tail \in Slot /\ h \in Slot
      BY <1>b
    <3>6. SweptAreOldest(next_timeout_check_seq, h, tail, sent, replied_or_timeout, Filed)
      BY <3>1, <3>2, <3>3, <3>4, <3>5, SweepTakesOldest
    <3>7. /\ n \in 0 .. sent
          /\ \A s \in Window(next_timeout_check_seq, h) : ~replied_or_timeout[s] =>
               OwnerOf(s, tail, sent) \in (1 .. sent) \ Filed /\ OwnerOf(s, tail, sent) <= n
          /\ \A p \in (1 .. sent) \ Filed : p <= n =>
               \E s \in Window(next_timeout_check_seq, h) :
                 ~replied_or_timeout[s] /\ OwnerOf(s, tail, sent) = p
      BY <3>6 DEF SweptAreOldest
    <3> HIDE DEF n
    <3> QED BY <3>7
  <2>5. n \in 0 .. sent /\ expired' = expired \cup old
    BY <1>o, <2>3, <2>4
  <2>6. CASE ~AllDone(h, tail)
    <3>1. LedgerStatus' = LedgerStatus
      BY <1>k, <2>3, <2>6
    <3>2. Ledger!Expire
      BY <1>r, <2>1, <2>2, <2>5, <3>1 DEF Ledger!Expire
    <3> QED BY <3>2 DEF Ledger!Next
  <2>7. CASE AllDone(h, tail)
    <3>1. Count > 0 /\ sent = Count /\ h = tail
      BY <1>a, <1>n, <2>7 DEF AllDone
    <3>2. n = sent
      BY <1>a, <1>b, <3>1, SlotFacts
    <3>3. old = Ledger!Outstanding
      BY <1>a, <3>2 DEF Ledger!Outstanding
    <3>4. LedgerStatus' = "complete"
      BY <2>3, <2>7 DEF LedgerStatus
    <3> HIDE DEF n, old
    <3>5. /\ LedgerStatus = "running" /\ Count > 0 /\ sent = Count
          /\ UNCHANGED <<sent, heard, answered>> /\ n \in 0 .. sent
          /\ expired' = expired \cup {p \in Ledger!Outstanding : p <= n}
          /\ {p \in Ledger!Outstanding : p <= n} = Ledger!Outstanding
      BY <1>r, <2>1, <2>2, <2>5, <3>1, <3>3 DEF old
    <3>6. Ledger!Expire
      BY <3>4, <3>5 DEF Ledger!Expire
    <3> QED BY <3>6 DEF Ledger!Next
  <2> QED BY <2>6, <2>7
<1>5. CASE DrainIgnore
  <2>1. UNCHANGED <<exit_by, sent, heard, history>>
    BY <1>5, <1>a, IgnoreFacts
  <2> QED BY <1>s, <2>1 DEF history
<1>6. CASE DrainCredit
  <2> DEFINE p == sockbuf[1].probe
  <2>1. /\ UNCHANGED <<exit_by, sent, heard, expired>> /\ pc # "done"
        /\ 1 \in 1 .. Len(sockbuf) /\ sockbuf[1].answer
    BY <1>6, CreditFacts
  <2>2. p \in heard \cap (1 .. sent) /\ p \notin Filed /\ answered' = answered \cup {p}
    BY <1>6, <2>1, FitIsAnswer DEF AnswersTimely
  <2> HIDE DEF p
  <2>3. p \in Ledger!Outstanding \cap heard
    BY <1>o, <2>2
  <2>4. Ledger!Answer
    BY <1>k, <1>r, <2>1, <2>2, <2>3 DEF Ledger!Answer
  <2> QED BY <2>4 DEF Ledger!Next
<1>7. CASE ArriveAnswer /\ UNCHANGED own
  <2>1. PICK r \in on_wire : /\ Enqueue([answer |-> TRUE, ack |-> SuccNumber(r.seq), probe |-> r.probe])
                             /\ heard' = heard \cup {r.probe}
    BY <1>7 DEF ArriveAnswer
  <2>2. pc # "done" /\ UNCHANGED <<exit_by, sent, answered, expired>>
    BY <2>1 DEF Enqueue, history
  <2>3. r.probe \in 1 .. sent
    BY DEF GenuineInv
  <2>4. Ledger!Hear
    BY <1>k, <1>r, <2>1, <2>2, <2>3 DEF Ledger!Hear
  <2> QED BY <2>4 DEF Ledger!Next
<1>8. CASE (ArriveStray \/ ArriveForeign) /\ UNCHANGED own
  <2>1. UNCHANGED <<exit_by, sent, heard, answered, expired>>
    BY <1>8 DEF ArriveStray, ArriveForeign, Enqueue, history
  <2> QED BY <1>s, <2>1
<1> QED BY <1>1, <1>2, <1>3, <1>4, <1>5, <1>6, <1>7, <1>8, NextSplits

(* If the slots are enough and each answer names a probe a slot belongs to, *)
(* a run of tcping is a ledger of probes, even one without an end: each is *)
(* filed once, as answered when the probed host answered it, or else as    *)
(* expired, the oldest first; and a run that completes has filed them all. *)
THEOREM TcpingIsALedger ==
  ASSUME EnoughSlots
  PROVE  Spec /\ []AnswersTimely => RefinesLedger
<1>1. Init => Ledger!Init
  BY StatusFacts DEF Init, LoopInit, Ledger!Init
<1>2. GenuineInv /\ TypeInv /\ [Next]_vars => GenuineInv'
  BY GenuineStep
<1>3. TypeInv /\ ReportedInv /\ CompleteInv /\ GenuineInv /\ ExitInv /\ AnswersTimely /\ [Next]_vars
        => [Ledger!Next]_(Ledger!vars)
  BY LedgerStep
<1> QED BY <1>1, <1>2, <1>3, AccountsKept, TypeInit, TypeStep, ReportedInit, ReportedStep,
           GenuineInit, PTL DEF Spec, RefinesLedger, Ledger!Spec

(* With fewer probes than slots, numbers that do not wrap and no strays,   *)
(* every answer does.                                                      *)
THEOREM TcpingIsALedgerWhenShort ==
  ASSUME Count > 0, Count < SeqMod, InitialSeq + Count < AckMod, StrayAcks = {}
  PROVE  Spec => RefinesLedger
<1>1. EnoughSlots
  BY LoopAssumption, SeqModAssumption DEF EnoughSlots
<1>2. TypeInv /\ CompleteInv /\ GenuineInv => AnswersTimely
  <2> SUFFICES ASSUME TypeInv, CompleteInv, GenuineInv,
                      NEW i \in 1 .. Len(sockbuf), sockbuf[i].answer
               PROVE  Fits(sockbuf[i])
    BY DEF AnswersTimely
  <2> DEFINE p == sockbuf[i].probe
  <2>1. Genuine(sockbuf[i]) /\ sockbuf[i] \in Packet
    BY DEF GenuineInv, TypeInv
  <2>2. p > 0 /\ p \in heard /\ sockbuf[i].ack = (InitialSeq + p) % AckMod
    BY <2>1 DEF Genuine
  <2>3. p \in 1 .. sent /\ sent \in Nat /\ sent <= Count
    BY <2>2 DEF GenuineInv, CompleteInv, TypeInv, TypeOK, LoopTypeOK
  <2>4. p + SeqMod > sent
    BY <2>3, LoopAssumption, SeqModAssumption
  <2>5. InitialSeq + p \in 1 .. AckMod - 1
    BY <2>3, LoopAssumption, TcpingAssumption
  <2>6. (InitialSeq + p) % AckMod = InitialSeq + p
    <3> DEFINE x == InitialSeq + p
    <3>1. x \in 1 .. AckMod - 1 /\ AckMod \in Nat
      BY <2>5, TcpingAssumption
    <3> HIDE DEF x
    <3>2. x % AckMod = x
      BY <3>1
    <3> QED BY <3>2 DEF x
  <2> QED BY <2>2, <2>4, <2>5, <2>6 DEF Fits
<1>3. GenuineInv /\ TypeInv /\ [Next]_vars => GenuineInv'
  BY GenuineStep
<1> QED BY <1>1, <1>2, <1>3, AccountsKept, GenuineInit, TcpingIsALedger, PTL DEF Spec

-------------------------------------------------------------------------------
(* Once a signal has come it is not forgotten, no SYN is sent and no       *)
(* answer is counted any more, and each step of the process brings it      *)
(* nearer to the end, which is at most five steps away.                    *)
WindsDown ==
  ~keep_running => Idle /\ StepsLeft' <= StepsLeft /\ (Process => StepsLeft' < StepsLeft)

(* Whatever arrives, and whenever the signal comes - while the socket is   *)
(* set up, too: tcping acts on it within five steps of the process, of     *)
(* which waiting in poll() is one.                                         *)
THEOREM SignalIsHeeded == Spec => [][WindsDown]_vars
<1>1. TypeInv /\ [Next]_vars => [WindsDown]_vars
  <2> SUFFICES ASSUME TypeInv, Next, ~keep_running
               PROVE  WindsDown
    BY DEF WindsDown
  <2>1. CASE SetupSocket
    <3>1. /\ pc = "setup" /\ pc' \in {"done", "head"}
          /\ UNCHANGED <<keep_running, sent, received, world, history>>
      BY <2>1 DEF SetupSocket, Exit
    <3> QED BY <3>1 DEF WindsDown, StepsLeft, Idle, world, history
  <2>2. CASE Sweep \/ LoopStep
    BY <2>2, LastLoopSteps DEF Sweep, LoopStep, WindsDown, StepsLeft
  <2>3. ~(HeadSend \/ DrainIgnore \/ DrainCredit)
    BY NoMoreWork DEF HeadSend, DrainIgnore, DrainCredit, IgnorePacket
  <2>4. CASE ~Process /\ Next
    <3>1. Idle /\ UNCHANGED pc
      BY <2>4, Bystanders DEF Next, Environment, HandleSigint, ArriveAnswer, ArriveStray, ArriveForeign,
                  Terminated, vars, loopvars, Idle, world, history
    <3> QED BY <2>4, <3>1 DEF WindsDown, StepsLeft
  <2> QED BY <2>1, <2>2, <2>3, <2>4 DEF Process
<1> QED BY <1>1, TypeInit, TypeStep, PTL DEF Spec

-------------------------------------------------------------------------------
(* Between two SYNs tcping does not go round in circles.                   *)

(* Whether the run goes on, probes in the window, packets still to be      *)
(* read, how often poll() may give up, steps to the next poll().           *)
Measure == <<Running, Dist(next_timeout_check_seq, tail), PacketsLeft, WaitLeft, Phase>>

Advances ==
  /\ Process => sent' > sent \/ Lower(Measure', Measure)
  /\ sent' > sent \/ Lower(Measure', Measure) \/ Measure' = Measure

LEMMA MeasureLowers ==
  ASSUME tail' = tail,
         Further(Dist(next_timeout_check_seq, tail), Dist(next_timeout_check_seq', tail))
  PROVE  Lower(Measure', Measure)
BY FurtherLowers DEF Measure

LEMMA StepAdvances ==
  ASSUME TypeInv, Process
  PROVE  sent' > sent \/ Lower(Measure', Measure)
<1> USE DEF TypeInv, TypeOK
<1>1. tail \in Slot
  BY TailFacts DEF LoopTypeOK
<1>2. CASE HeadSend
  BY <1>2 DEF HeadSend, CountSend, LoopTypeOK
<1>3. CASE Sweep
  <2>1. SweepTo(tail) /\ tail' = tail
    BY <1>3 DEF Sweep, own, tail
  <2> QED BY <1>1, <2>1, SweepFurther, MeasureLowers
<1>4. CASE LoopStep
  <2>1. (HeadExit \/ HeadIdle \/ PollBegins \/ PollReturns \/ DrainEnd) /\ tail' = tail
    BY <1>4 DEF LoopStep, own, tail
  <2> QED BY <2>1, LoopStepFurther, MeasureLowers
<1>5. CASE DrainIgnore \/ DrainCredit
  <2>1. TakePacket /\ tail' = tail
    BY <1>5 DEF DrainIgnore, DrainCredit, IgnorePacket, own, tail
  <2> QED BY <2>1, TakeFurther, MeasureLowers
<1>6. CASE SetupSocket
  <2>1. /\ pc = "setup" /\ pc' \in {"done", "head"} /\ tail' = tail /\ sockbuf' = sockbuf
        /\ UNCHANGED <<keep_running, arrivals, next_timeout_check_seq>>
    BY <1>6 DEF SetupSocket, Exit, slots, world, own, tail
  <2>2. Running' = Running /\ PacketsLeft' = PacketsLeft
    BY <2>1 DEF Running, PacketsLeft
  <2>3. CASE keep_running
    <3>1. Turns(Due' - clock') \in 0 .. 2
      BY <1>6, SetupFacts, DueInNext
    <3>2. WaitLeft = 5 /\ WaitLeft' < 5
      BY <2>1, <2>3, <3>1 DEF WaitLeft
    <3> QED BY <2>1, <2>2, <3>2, MeasureLowers DEF Further
  <2>4. CASE ~keep_running
    <3>1. WaitLeft' = WaitLeft /\ Phase' < Phase
      BY <2>1, <2>4 DEF WaitLeft, Phase, StepsLeft
    <3> QED BY <2>1, <2>2, <3>1, MeasureLowers DEF Further
  <2> QED BY <2>3, <2>4
<1> QED BY <1>2, <1>3, <1>4, <1>5, <1>6 DEF Process

LEMMA OthersAdvance ==
  ASSUME TypeInv, Environment \/ Terminated
  PROVE  Lower(Measure', Measure) \/ Measure' = Measure
<1> USE DEF TypeInv, TypeOK
<1>1. CASE Environment
  <2>1. /\ HandleSigint \/ Tick \/ \E p \in Packet : Enqueue(p)
        /\ tail' = tail
    <3>1. ArriveAnswer => \E p \in Packet : Enqueue(p)
      BY AnswerPacket
    <3>2. ArriveStray \/ ArriveForeign => \E p \in Packet : Enqueue(p)
      BY OtherPackets DEF ArriveStray, ArriveForeign
    <3> QED BY <1>1, <3>1, <3>2 DEF Environment, own, tail
  <2>2. /\ SameMeasures \/ Further(Dist(next_timeout_check_seq, tail), Dist(next_timeout_check_seq, tail))
        /\ next_timeout_check_seq' = next_timeout_check_seq
    BY <2>1, WorldFurther
  <2> QED BY <2>1, <2>2, MeasureLowers DEF SameMeasures, Measure
<1>2. CASE Terminated
  BY <1>2 DEF Terminated, vars, own, loopvars, slots, world, Measure, Running, PacketsLeft, WaitLeft,
              Phase, StepsLeft, SendDue, MaySend, Due, PollGaveUp, Forever, tail
<1> QED BY <1>1, <1>2

(* Without -c, too, whatever the timing and whatever arrives: from one SYN *)
(* to the next every step of the process lowers a tuple of natural         *)
(* numbers, and neither time nor packets nor the signal raise it.  So      *)
(* tcping never spins: the sweep makes headway or poll() waits, and poll() *)
(* gives up three times at the most before a probe is sent or filed,       *)
(* unless a packet wakes it up.                                            *)
THEOREM LoopAdvances ==
  Spec => [](\A k \in 1 .. 5 : Measure[k] \in Nat) /\ [][Advances]_vars
<1>1. TypeInv /\ [Next]_vars => [Advances]_vars
  <2> SUFFICES ASSUME TypeInv, Next
               PROVE  Advances
    OBVIOUS
  <2> QED BY StepAdvances, OthersAdvance DEF Next, Advances
<1>2. TypeInv => \A k \in 1 .. 5 : Measure[k] \in Nat
  <2> SUFFICES ASSUME TypeInv
               PROVE  \A k \in 1 .. 5 : Measure[k] \in Nat
    OBVIOUS
  <2>1. Running \in Nat /\ PacketsLeft \in Nat /\ WaitLeft \in Nat /\ Phase \in Nat
    BY MeasuresAreNatural DEF TypeInv, TypeOK
  <2>2. Dist(next_timeout_check_seq, tail) \in Nat
    BY TailFacts, SlotFacts DEF TypeInv, TypeOK, LoopTypeOK
  <2> QED BY <2>1, <2>2 DEF Measure
<1> QED BY <1>1, <1>2, TypeInit, TypeStep, PTL DEF Spec

===============================================================================
