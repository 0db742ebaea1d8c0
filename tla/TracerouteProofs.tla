----------------------------- MODULE TracerouteProofs -----------------------------
(****************************************************************************)
(* Proofs about Traceroute, for every path, -f, -m, -q and -w, both kinds   *)
(* of probes, and every delay, loss, duplication and reordering of the      *)
(* answers: its types, how long it waits, that a time printed belongs to    *)
(* the probe it is printed for, the order of the hops, that a signal is     *)
(* heeded, and that every step brings the search nearer to its end.         *)
(****************************************************************************)
EXTENDS Traceroute, ProbeWindowProofs

Request == [ttl : Nat, index : Nat, hops : Nat, number : Int]
Packet  == [kind : {"reply", "exceeded", "unreach"}, ours : BOOLEAN, number : Int,
            from : Nat, about : Nat \X Nat]

ProbeState == [sent_ok : BOOLEAN, received : BOOLEAN, answers : Nat \X Nat, from : Nat]

TypeInv == TypeOK /\ on_wire \subseteq Request /\ sockbuf \in Seq(Packet)

LEMMA ConstantTypes ==
  /\ TtlMod \in Nat /\ MaxTtl \in Nat /\ FirstTtl \in Nat \ {0} /\ Queries \in Nat
  /\ FirstTtl < TtlMod /\ MaxTtl < TtlMod
  /\ SeqMod \in Nat /\ SeqMod >= 2 /\ Queries < SeqMod /\ Timeout \in Nat
  /\ PortBase \in Nat /\ ClockEnd \in Nat
  /\ NsPerMs \in Nat \ {0} /\ Distance \in Nat /\ Scenarios \subseteq Scenario
BY TracerouteAssumption, SeqModAssumption, NsPerMsAssumption DEF Slot

LEMMA ConfigTypes ==
  ASSUME config \in Scenarios
  PROVE  /\ config.use_udp \in BOOLEAN /\ config.blocker \in Nat /\ config.signals \in BOOLEAN
         /\ config.max_arrivals \in Nat /\ config.max_lag \in Nat
BY ConstantTypes DEF Scenario

LEMMA NoProbeFacts == NoProbe \in ProbeState /\ [i \in Index |-> NoProbe] \in [Index -> ProbeState]
<1>1. NoProbe \in ProbeState
  BY DEF ProbeState, NoProbe
<1> QED BY <1>1

LEMMA SentState ==
  ASSUME NEW f \in [Index -> ProbeState], NEW i \in Index
  PROVE  [f EXCEPT ![i].sent_ok = TRUE] \in [Index -> ProbeState]
BY DEF ProbeState

LEMMA AnsweredState ==
  ASSUME NEW f \in [Index -> ProbeState], NEW i \in Index, NEW from \in Nat,
         NEW about \in Nat \X Nat
  PROVE  [f EXCEPT ![i].received = TRUE, ![i].from = from, ![i].answers = about]
           \in [Index -> ProbeState]
<1> DEFINE g == [f EXCEPT ![i].received = TRUE]
           h == [g EXCEPT ![i].from = from]
<1>1. g \in [Index -> ProbeState]
  BY DEF ProbeState
<1>2. h \in [Index -> ProbeState]
  <2> HIDE DEF g
  <2> QED BY <1>1 DEF ProbeState
<1>3. [h EXCEPT ![i].answers = about] \in [Index -> ProbeState]
  <2> HIDE DEF h
  <2> QED BY <1>2 DEF ProbeState
<1> QED BY <1>3

LEMMA RemainderIsInt ==
  ASSUME NEW x \in Int
  PROVE  x % SeqMod \in Int
<1>1. SeqMod \in Nat /\ SeqMod > 0
  BY ConstantTypes
<1> QED BY <1>1, Z3

LEMMA TimeoutFacts ==
  ASSUME NEW ns \in Int
  PROVE  /\ TimeoutMs(ns) \in Int /\ TimeoutMs(ns) * NsPerMs \in Int
         /\ ns > 0 => /\ TimeoutMs(ns) = RoundedMs(ns)
                      /\ TimeoutMs(ns) * NsPerMs < ns + NsPerMs
<1> DEFINE q == ns \div NsPerMs
<1>1. NsPerMs \in Nat \ {0}
  BY NsPerMsAssumption
<1>2. q \in Int /\ q * NsPerMs <= ns /\ ns < q * NsPerMs + NsPerMs
  BY <1>1, DivisionFacts
<1>3. TimeoutMs(ns) = (IF q > 0 THEN q ELSE 1) /\ RoundedMs(ns) = (IF q = 0 THEN 1 ELSE q)
  BY DEF TimeoutMs, RoundedMs
<1> HIDE DEF q
<1>4. TimeoutMs(ns) \in Int
  BY <1>2, <1>3
<1>5. TimeoutMs(ns) * NsPerMs \in Int
  BY <1>1, <1>4
<1>6. ASSUME ns > 0
      PROVE  TimeoutMs(ns) = RoundedMs(ns) /\ TimeoutMs(ns) * NsPerMs < ns + NsPerMs
  <2>1. q >= 0
    <3>1. CASE q <= -1
      <4>1. q * NsPerMs <= (-1) * NsPerMs
        BY <1>1, <1>2, <3>1
      <4> QED BY <1>1, <1>2, <1>6, <4>1
    <3> QED BY <1>2, <3>1
  <2>2. CASE q = 0
    BY <1>1, <1>3, <1>6, <2>2
  <2>3. CASE q > 0
    BY <1>1, <1>2, <1>3, <2>3
  <2> QED BY <1>2, <2>1, <2>2, <2>3
<1> QED BY <1>4, <1>5, <1>6

LEMMA NumbersAreInts ==
  ASSUME NEW t \in Nat, NEW i \in Nat
  PROVE  /\ DestPort(t, i) \in Int
         /\ ttl = t /\ base_seq \in Slot => Expected(i) \in Int
<1>1. PortBase + (t - 1) * Queries + i \in Int
  BY ConstantTypes
<1>2. DestPort(t, i) \in Int
  BY <1>1, RemainderIsInt DEF DestPort
<1>3. ASSUME base_seq \in Slot PROVE (base_seq + i) % SeqMod \in Int
  <2>1. base_seq + i \in Int
    BY <1>3 DEF Slot
  <2> QED BY <2>1, RemainderIsInt
<1> QED BY <1>2, <1>3 DEF Expected

-------------------------------------------------------------------------------
(* What the steps do. *)

LEMMA NextSplits ==
  ASSUME [Next]_vars
  PROVE  \/ HopBegin \/ RunEnds \/ SendProbe \/ VolleyEnds \/ WaitMore \/ WaitEnds
         \/ PollPrepared \/ TimeRunsOut \/ PollBegins \/ PollTimesOut \/ Receive \/ PrintHop
         \/ HandleSigint \/ Tick \/ ArriveAnswer \/ ArriveForeign \/ UNCHANGED vars
BY DEF Next, Process, Terminated

(* The answer taken from the socket is credited to at most one open probe. *)
LEMMA ReceiveFacts ==
  ASSUME TypeInv, Receive
  PROVE  /\ pc = "poll" /\ pc' = "wait" /\ lag' = 0
         /\ UNCHANGED <<config, keep_running, volley, global_wait_until, poll_until, printed,
                        clock, on_wire, arrivals>>
         /\ 1 \in 1 .. Len(sockbuf) /\ sockbuf[1] \in Packet
         /\ sockbuf' \in Seq(Packet)
         /\ \A k \in 1 .. Len(sockbuf') : k + 1 \in 1 .. Len(sockbuf) /\ sockbuf'[k] = sockbuf[k + 1]
         /\ \/ UNCHANGED <<probes, found>>
            \/ \E i \in Index :
                 /\ Open(i) /\ IsOurProbe(sockbuf[1], i)
                 /\ probes' = [probes EXCEPT ![i].received = TRUE, ![i].from = sockbuf[1].from,
                                             ![i].answers = sockbuf[1].about]
                 /\ target_reached' = (target_reached \/ IsTarget(sockbuf[1]))
                 /\ target_ttls' = IF IsTarget(sockbuf[1])
                                   THEN target_ttls \cup {sockbuf[1].about[1]} ELSE target_ttls
<1>1. /\ sockbuf # <<>> /\ sockbuf' = Tail(sockbuf) /\ sockbuf \in Seq(Packet)
      /\ pc = "poll" /\ pc' = "wait" /\ lag' = 0
      /\ UNCHANGED <<config, keep_running, volley, global_wait_until, poll_until, printed,
                     clock, on_wire, arrivals>>
  BY DEF Receive, TypeInv
<1>2. /\ 1 \in 1 .. Len(sockbuf) /\ sockbuf[1] \in Packet /\ Head(sockbuf) = sockbuf[1]
      /\ sockbuf' \in Seq(Packet)
      /\ \A k \in 1 .. Len(sockbuf') : k + 1 \in 1 .. Len(sockbuf) /\ sockbuf'[k] = sockbuf[k + 1]
  BY <1>1
<1> DEFINE p    == Head(sockbuf)
           mine == {k \in Index : Open(k) /\ IsOurProbe(p, k)}
           i    == CHOOSE k \in mine : \A j \in mine : k <= j
<1>3. CASE mine = {}
  <2>1. UNCHANGED <<probes, found>>
    BY <1>3 DEF Receive
  <2> QED BY <1>1, <1>2, <2>1
<1>4. CASE mine # {}
  <2>1. mine \in SUBSET Nat
    BY ConstantTypes DEF Index
  <2>2. \E k \in mine : \A j \in mine : k <= j
    BY <1>4, <2>1, LeastNumber
  <2>3. i \in mine
    BY <2>2
  <2>4. /\ probes' = [probes EXCEPT ![i].received = TRUE, ![i].from = p.from,
                                    ![i].answers = p.about]
        /\ target_reached' = (target_reached \/ IsTarget(p))
        /\ target_ttls' = IF IsTarget(p) THEN target_ttls \cup {p.about[1]} ELSE target_ttls
    BY <1>4 DEF Receive
  <2>5. i \in Index /\ Open(i) /\ IsOurProbe(p, i)
    BY <2>3
  <2> HIDE DEF i, mine
  <2>6. p = sockbuf[1]
    BY <1>2
  <2> HIDE DEF p
  <2> QED BY <1>1, <1>2, <2>4, <2>5, <2>6
<1> QED BY <1>3, <1>4

LEMMA EnqueueFacts ==
  ASSUME TypeInv, NEW p \in Packet, Enqueue(p)
  PROVE  /\ UNCHANGED <<config, pc, keep_running, volley, found, probes, global_wait_until,
                        poll_until, printed, clock, lag, on_wire>>
         /\ sockbuf' \in Seq(Packet) /\ arrivals' \in 0 .. config.max_arrivals
         /\ sockbuf' # <<>>
         /\ \A k \in 1 .. Len(sockbuf') :
              \/ k \in 1 .. Len(sockbuf) /\ sockbuf'[k] = sockbuf[k]
              \/ sockbuf'[k] = p
<1>1. sockbuf' = Append(sockbuf, p) /\ sockbuf \in Seq(Packet)
      /\ arrivals < config.max_arrivals /\ arrivals' = arrivals + 1
      /\ arrivals \in 0 .. config.max_arrivals /\ config \in Scenarios
      /\ UNCHANGED <<config, pc, keep_running, volley, found, probes, global_wait_until,
                     poll_until, printed, clock, lag, on_wire>>
  BY DEF Enqueue, TypeInv, TypeOK
<1>2. /\ sockbuf' \in Seq(Packet) /\ sockbuf' # <<>>
      /\ \A k \in 1 .. Len(sockbuf') :
           \/ k \in 1 .. Len(sockbuf) /\ sockbuf'[k] = sockbuf[k]
           \/ sockbuf'[k] = p
  BY <1>1
<1>3. arrivals' \in 0 .. config.max_arrivals
  BY <1>1, ConfigTypes
<1> QED BY <1>1, <1>2, <1>3

(* An answer is one to a probe that was sent. *)
Answer(r) == [kind |-> AnswerKind(r.hops), ours |-> TRUE, number |-> r.number,
              from |-> Answerer(r.hops), about |-> <<r.ttl, r.index>>]

LEMMA AnswerType ==
  ASSUME TypeInv, NEW r \in on_wire
  PROVE  Answer(r) \in Packet
<1>1. r \in Request /\ r.hops \in Nat /\ r.ttl \in Nat /\ r.index \in Nat /\ r.number \in Int
  BY DEF TypeInv, Request
<1>2. AnswerKind(r.hops) \in {"reply", "exceeded", "unreach"}
  BY DEF AnswerKind, Blocked
<1>3. Answerer(r.hops) \in Nat
  BY <1>1, ConstantTypes, ConfigTypes DEF Answerer, Blocked, TypeInv, TypeOK
<1> QED BY <1>1, <1>2, <1>3 DEF Answer, Packet

Foreign(k, i) == [kind |-> k, ours |-> FALSE, number |-> Expected(i), from |-> 0,
                  about |-> <<0, 0>>]

LEMMA ForeignType ==
  ASSUME TypeInv, NEW k \in {"reply", "exceeded"}, NEW i \in Index
  PROVE  Foreign(k, i) \in Packet
<1>1. ttl \in Nat /\ i \in Nat /\ base_seq \in Slot
  BY ConstantTypes DEF TypeInv, TypeOK, Index
<1>2. Expected(i) \in Int
  BY <1>1, NumbersAreInts
<1> QED BY <1>2 DEF Foreign, Packet
-------------------------------------------------------------------------------
(* Types. *)

LEMMA TypeInit == Init => TypeInv
<1> SUFFICES ASSUME Init PROVE TypeInv
  OBVIOUS
<1>1. probes = [i \in Index |-> NoProbe]
  BY DEF Init
<1>2. printed \in Seq(0 .. TtlMod - 1) /\ sockbuf \in Seq(Packet) /\ on_wire \subseteq Request
  BY DEF Init
<1>3. /\ ttl \in 0 .. TtlMod - 1 /\ probe \in 0 .. Queries /\ seq \in Slot /\ base_seq \in Slot
      /\ config \in Scenarios /\ arrivals \in 0 .. config.max_arrivals /\ lag \in 0 .. config.max_lag
  BY ConstantTypes, ConfigTypes DEF Init, Slot
<1>4. /\ keep_running \in BOOLEAN
      /\ pc \in {"hop", "volley", "wait", "timeout", "call", "poll", "print", "done"}
      /\ target_reached \in BOOLEAN
  BY Zenon DEF Init
<1>5. global_wait_until \in Nat /\ poll_until \in Int /\ clock \in Nat
  BY DEF Init
<1> QED BY <1>1, <1>2, <1>3, <1>4, <1>5, NoProbeFacts DEF TypeInv, TypeOK, ProbeState

LEMMA NextTtlFacts ==
  ASSUME ttl \in 0 .. TtlMod - 1
  PROVE  /\ NextTtl \in 0 .. TtlMod - 1
         /\ ttl < TtlMod - 1 => NextTtl = ttl + 1
<1>1. TtlMod \in Nat \ {0} /\ ttl \in Nat
  BY ConstantTypes
<1>2. ASSUME NEW x \in Nat, NEW m \in Nat \ {0}
      PROVE  x % m \in 0 .. m - 1 /\ (x < m => x % m = x)
  BY <1>2, Z3
<1>3. ttl + 1 \in Nat
  BY <1>1
<1>4. (ttl + 1) % TtlMod \in 0 .. TtlMod - 1 /\ (ttl + 1 < TtlMod => (ttl + 1) % TtlMod = ttl + 1)
  BY <1>1, <1>2, <1>3
<1> QED BY <1>1, <1>4 DEF NextTtl

LEMMA TypeSend ==
  ASSUME TypeInv, SendProbe
  PROVE  TypeInv'
<1>t. /\ ttl \in 0 .. TtlMod - 1 /\ probe \in 0 .. Queries /\ seq \in Slot
      /\ probes \in [Index -> ProbeState]
  BY DEF TypeInv, TypeOK, ProbeState
<1>s. probe < Queries /\ seq' = Succ(seq) /\ probe' = probe + 1
  BY DEF SendProbe, MoreToSend
<1>1. ttl \in Nat /\ probe \in 0 .. Queries /\ probe < Queries /\ seq \in Slot /\ ttl < TtlMod
  BY <1>t, <1>s, ConstantTypes
<1>2. probe' \in 0 .. Queries /\ seq' \in Slot /\ probe \in Index
  BY <1>1, <1>s, ConstantTypes, SlotFacts DEF Index
<1>3. WireTtl \in Nat /\ DestPort(ttl, probe) \in Int /\ seq \in Int
  BY <1>1, ConstantTypes, NumbersAreInts DEF WireTtl, Slot
<1> DEFINE r == [ttl |-> ttl, index |-> probe, hops |-> WireTtl,
                 number |-> IF config.use_udp THEN DestPort(ttl, probe) ELSE seq]
<1>4. r \in Request
  BY <1>1, <1>3 DEF Request
<1>5. on_wire' \in {on_wire \cup {r}, on_wire}
  BY DEF SendProbe
<1>6. on_wire' \subseteq Request
  BY <1>4, <1>5 DEF TypeInv
<1>7. [probes EXCEPT ![probe].sent_ok = TRUE] \in [Index -> ProbeState]
  BY <1>2, <1>t, SentState
<1>c. clock \in Nat /\ global_wait_until \in Nat /\ clock + Timeout \in Nat
  BY ConstantTypes DEF TypeInv, TypeOK
<1>d. /\ probes' \in {[probes EXCEPT ![probe].sent_ok = TRUE], probes}
      /\ global_wait_until' \in {clock + Timeout, global_wait_until}
  BY DEF SendProbe
<1>8. global_wait_until' \in Nat /\ probes' \in [Index -> ProbeState]
  BY <1>7, <1>t, <1>c, <1>d
<1>9. config' = config /\ lag' \in 0 .. config'.max_lag
  BY ConfigTypes DEF SendProbe, TypeInv, TypeOK
<1> QED BY <1>2, <1>6, <1>8, <1>9 DEF ProbeState, SendProbe, TypeInv, TypeOK, found

LEMMA TypeReceive ==
  ASSUME TypeInv, Receive
  PROVE  TypeInv'
<1>1. /\ pc' = "wait" /\ lag' = 0 /\ sockbuf' \in Seq(Packet)
      /\ UNCHANGED <<config, keep_running, volley, global_wait_until, poll_until, printed,
                     clock, on_wire, arrivals>>
      /\ sockbuf[1].from \in Nat /\ sockbuf[1].about \in Nat \X Nat
  BY ReceiveFacts DEF Packet
<1>z. 0 \in 0 .. config.max_lag
  BY ConfigTypes DEF TypeInv, TypeOK
<1>2. CASE UNCHANGED <<probes, found>>
  BY <1>1, <1>2, <1>z DEF TypeInv, TypeOK, volley, found
<1>3. CASE \E i \in Index :
             /\ probes' = [probes EXCEPT ![i].received = TRUE, ![i].from = sockbuf[1].from,
                                         ![i].answers = sockbuf[1].about]
             /\ target_reached' = (target_reached \/ IsTarget(sockbuf[1]))
  <2>1. PICK i \in Index :
          /\ probes' = [probes EXCEPT ![i].received = TRUE, ![i].from = sockbuf[1].from,
                                      ![i].answers = sockbuf[1].about]
          /\ target_reached' = (target_reached \/ IsTarget(sockbuf[1]))
    BY <1>3
  <2>p. probes \in [Index -> ProbeState]
    BY DEF TypeInv, TypeOK, ProbeState
  <2>2. probes' \in [Index -> ProbeState]
    BY <1>1, <2>1, <2>p, AnsweredState
  <2>3. target_reached' \in BOOLEAN
    BY <2>1, Zenon DEF TypeInv, TypeOK
  <2> QED BY <1>1, <1>z, <2>2, <2>3 DEF ProbeState, TypeInv, TypeOK, volley
<1> QED BY <1>2, <1>3, ReceiveFacts

LEMMA TypeStep == TypeInv /\ [Next]_vars => TypeInv'
<1> SUFFICES ASSUME TypeInv, [Next]_vars PROVE TypeInv'
  OBVIOUS
<1> USE DEF TypeInv, TypeOK
<1>z. 0 \in 0 .. config.max_lag /\ config.max_lag \in Nat
  BY ConfigTypes
<1>1. CASE HopBegin
  <2>1. /\ NoProbe \in [sent_ok : BOOLEAN, received : BOOLEAN, answers : Nat \X Nat, from : Nat]
        /\ 0 \in 0 .. Queries
    BY ConstantTypes DEF NoProbe
  <2> QED BY <1>1, <1>z, <2>1 DEF HopBegin, found, net
<1>2. CASE \/ RunEnds \/ VolleyEnds \/ WaitMore \/ WaitEnds
           \/ TimeRunsOut \/ PollBegins \/ PollTimesOut
  BY <1>2, <1>z DEF RunEnds, VolleyEnds, WaitMore, WaitEnds, TimeRunsOut, PollBegins,
                    PollTimesOut, volley, found, net
<1>3. CASE SendProbe
  BY <1>3, TypeSend
<1>4. CASE PollPrepared
  <2>1. global_wait_until - clock \in Int /\ clock \in Nat
    OBVIOUS
  <2>2. TimeoutMs(global_wait_until - clock) * NsPerMs \in Int
    BY <2>1, TimeoutFacts
  <2>3. clock + TimeoutMs(global_wait_until - clock) * NsPerMs \in Int
    BY <2>1, <2>2
  <2> QED BY <1>4, <1>z, <2>3 DEF PollPrepared, volley, found, net
<1>5. CASE Receive
  BY <1>5, TypeReceive
<1>6. CASE PrintHop
  <2>1. ttl' \in 0 .. TtlMod - 1 /\ printed' \in Seq(0 .. TtlMod - 1)
    BY <1>6, NextTtlFacts DEF PrintHop
  <2> QED BY <1>6, <1>z, <2>1 DEF PrintHop, found, net
<1>7. CASE HandleSigint
  BY <1>7 DEF HandleSigint, volley, found, net
<1>8. CASE Tick
  <2>1. clock' \in Nat /\ lag' \in 0 .. config.max_lag /\ poll_until' \in Int
    <3>1. /\ clock' \in {clock, clock + 1} /\ poll_until' \in {poll_until, poll_until + (clock' - clock)}
          /\ lag' = lag \/ (lag < config.max_lag /\ lag' = lag + 1)
      BY <1>8 DEF Tick
    <3>2. clock \in Nat /\ poll_until \in Int /\ lag \in 0 .. config.max_lag
      OBVIOUS
    <3>3. clock' \in Nat /\ clock' - clock \in Int
      BY <3>1, <3>2
    <3>4. lag' \in 0 .. config.max_lag
      BY <1>z, <3>1, <3>2
    <3> QED BY <3>1, <3>2, <3>3, <3>4
  <2> QED BY <1>8, <2>1 DEF Tick, volley, found, net
<1>9. CASE ArriveAnswer
  <2>1. PICK r \in on_wire : Enqueue(Answer(r))
    BY <1>9 DEF ArriveAnswer, Answer
  <2>2. Answer(r) \in Packet
    BY <2>1, AnswerType
  <2> QED BY <2>1, <2>2, EnqueueFacts DEF volley, found
<1>10. CASE ArriveForeign
  <2>1. PICK k \in {"reply", "exceeded"}, i \in Index : Enqueue(Foreign(k, i))
    BY <1>10 DEF ArriveForeign, Foreign
  <2>2. Foreign(k, i) \in Packet
    BY <2>1, ForeignType
  <2> QED BY <2>1, <2>2, EnqueueFacts DEF volley, found
<1>11. CASE UNCHANGED vars
  BY <1>11 DEF vars, volley, found, net
<1> QED BY <1>1, <1>2, <1>3, <1>4, <1>5, <1>6, <1>7, <1>8, <1>9, <1>10, <1>11, NextSplits

(* Every variable keeps its type, for any -f, -m, -q and -w, on any path.  *)
THEOREM TypeCorrect == Spec => []TypeOK
<1>1. TypeInv => TypeOK
  BY DEF TypeInv
<1> QED BY <1>1, TypeInit, TypeStep, PTL DEF Spec

-------------------------------------------------------------------------------
(* Waiting. *)

(* From the search for an open probe on one is open; about to call poll(), *)
(* what has delayed the process since the second clock read shows.         *)
WaitInv ==
  /\ pc \in {"timeout", "call", "poll"} => \E i \in Index : Open(i)
  /\ pc = "call" => poll_until < global_wait_until + NsPerMs + lag
  /\ pc = "poll" => poll_until < global_wait_until + NsPerMs + config.max_lag

LEMMA WaitInit == Init => WaitInv
BY DEF Init, WaitInv

LEMMA WaitStep == TypeInv /\ WaitInv /\ [Next]_vars => WaitInv'
<1> SUFFICES ASSUME TypeInv, WaitInv, [Next]_vars PROVE WaitInv'
  OBVIOUS
<1>t. /\ clock \in Nat /\ global_wait_until \in Nat /\ poll_until \in Int /\ NsPerMs \in Nat
      /\ lag \in Nat /\ lag <= config.max_lag /\ config.max_lag \in Nat
  BY ConstantTypes, ConfigTypes DEF TypeInv, TypeOK
<1>1. CASE pc' \notin {"timeout", "call", "poll"}
  BY <1>1 DEF WaitInv
<1>2. CASE UNCHANGED <<config, pc, probes, global_wait_until, poll_until, lag>>
  BY <1>2 DEF WaitInv, Open
<1>3. CASE HopBegin \/ RunEnds \/ VolleyEnds \/ WaitEnds \/ TimeRunsOut \/ PollTimesOut \/ PrintHop
  BY <1>1, <1>3 DEF HopBegin, RunEnds, VolleyEnds, WaitEnds, TimeRunsOut, PollTimesOut, PrintHop
<1>4. CASE SendProbe
  <2>1. pc' = "volley"
    BY <1>4 DEF SendProbe
  <2> QED BY <1>1, <2>1
<1>5. CASE WaitMore
  <2>1. pc' = "timeout" /\ probes' = probes /\ \E i \in Index : Open(i)
    BY <1>5 DEF WaitMore, StillWaiting
  <2> QED BY <2>1 DEF WaitInv, Open
<1>6. CASE PollPrepared
  <2> DEFINE rest == global_wait_until - clock
             wait == TimeoutMs(rest) * NsPerMs
  <2>1. /\ pc = "timeout" /\ pc' = "call" /\ lag' = 0 /\ poll_until' = clock + wait
        /\ UNCHANGED <<probes, global_wait_until>> /\ clock < global_wait_until
    BY <1>6 DEF PollPrepared, TimeIsLeft
  <2>2. rest \in Int /\ rest > 0 /\ clock + rest = global_wait_until
    BY <1>t, <2>1
  <2>3. wait \in Int /\ wait < rest + NsPerMs
    BY <2>2, TimeoutFacts
  <2> HIDE DEF rest, wait
  <2>4. poll_until' < global_wait_until' + NsPerMs + lag'
    BY <1>t, <2>1, <2>2, <2>3
  <2> QED BY <2>1, <2>4 DEF WaitInv, Open
<1>7. CASE PollBegins
  <2>1. /\ pc = "call" /\ pc' = "poll"
        /\ UNCHANGED <<config, probes, global_wait_until, poll_until>>
    BY <1>7 DEF PollBegins
  <2>2. poll_until < global_wait_until + NsPerMs + config.max_lag
    BY <1>t, <2>1 DEF WaitInv
  <2> QED BY <2>1, <2>2 DEF WaitInv, Open
<1>8. CASE Receive
  BY <1>1, <1>8, ReceiveFacts
<1>9. CASE HandleSigint
  <2>1. CASE pc = "poll"
    BY <1>1, <1>9, <2>1 DEF HandleSigint
  <2>2. CASE pc # "poll"
    BY <1>2, <1>9, <2>2 DEF HandleSigint
  <2> QED BY <2>1, <2>2
<1>10. CASE Tick
  <2>1. /\ UNCHANGED <<config, pc, probes, global_wait_until>>
        /\ clock' \in {clock, clock + 1}
        /\ pc # "call" => poll_until' = poll_until
        /\ pc = "call" => poll_until' = poll_until + (clock' - clock) /\ lag' = lag + 1
    BY <1>10 DEF Tick, Waiting
  <2>2. CASE pc = "call"
    <3>1. poll_until < global_wait_until + NsPerMs + lag
      BY <2>2 DEF WaitInv
    <3>2. poll_until' <= poll_until + 1 /\ poll_until' \in Int
      <4>1. CASE clock' = clock
        BY <1>t, <2>1, <2>2, <4>1
      <4>2. CASE clock' = clock + 1
        BY <1>t, <2>1, <2>2, <4>2
      <4> QED BY <2>1, <4>1, <4>2
    <3>3. poll_until' < global_wait_until + NsPerMs + lag'
      <4>1. lag' = lag + 1
        BY <2>1, <2>2
      <4> QED BY <1>t, <3>1, <3>2, <4>1
    <3> QED BY <2>1, <2>2, <3>3 DEF WaitInv, Open
  <2>3. CASE pc # "call"
    BY <2>1, <2>3 DEF WaitInv, Open
  <2> QED BY <2>2, <2>3
<1>11. CASE ArriveAnswer \/ ArriveForeign
  <2>1. UNCHANGED <<config, pc, probes, global_wait_until, poll_until, lag>>
    BY <1>11 DEF ArriveAnswer, ArriveForeign, Enqueue
  <2> QED BY <1>2, <2>1
<1>12. CASE UNCHANGED vars
  BY <1>2, <1>12 DEF vars
<1> QED BY <1>3, <1>4, <1>5, <1>6, <1>7, <1>8, <1>9, <1>10, <1>11, <1>12, NextSplits

(* However the process is delayed at and between its two clock reads,      *)
(* poll() is told to wait for less than a millisecond past the moment a    *)
(* hop's last probe expires, and only while an answer is outstanding; a    *)
(* delay just before poll() comes on top.                                  *)
THEOREM WaitsEndInTime == Spec => []WaitIsBounded
<1>1. WaitInv => WaitIsBounded
  BY DEF WaitInv, WaitIsBounded
<1> QED BY <1>1, TypeInit, TypeStep, WaitInit, WaitStep, PTL DEF Spec
-------------------------------------------------------------------------------
(* The numbers of the probes.  The i-th probe with TTL t is the            *)
(* Offset(t) + i + 1st of the run; while a run has fewer probes than there *)
(* are numbers, no two of them have the same.                              *)

Offset(t) == (t - FirstTtl) * Queries
SeqAt(n)  == (1 + n) % SeqMod
NumberOf(t, i) == IF config.use_udp THEN DestPort(t, i) ELSE SeqAt(Offset(t) + i)

LEMMA Products ==
  ASSUME NEW a \in Nat, NEW b \in Nat, NEW q \in Nat
  PROVE  /\ a * q \in Nat
         /\ (a + b) * q = a * q + b * q
         /\ (a + 1) * q = a * q + q
         /\ a * q <= (a + b) * q
OBVIOUS

LEMMA OffsetFacts ==
  ASSUME NEW t \in Nat, t >= FirstTtl
  PROVE  /\ Offset(t) \in Nat
         /\ Offset(t + 1) = Offset(t) + Queries
         /\ (t - 1) * Queries = (FirstTtl - 1) * Queries + Offset(t)
         /\ (FirstTtl - 1) * Queries \in Nat
<1>1. PICK a \in Nat, b \in Nat, c \in Nat, d \in Nat :
        /\ a = t - FirstTtl /\ b = FirstTtl - 1 /\ c = t - 1 /\ d = t + 1 - FirstTtl
        /\ c = b + a /\ d = a + 1
  BY ConstantTypes
<1>2. Queries \in Nat /\ FirstTtl \in Nat
  BY ConstantTypes
<1>o. /\ Offset(t) = a * Queries /\ Offset(t + 1) = d * Queries
      /\ (t - 1) * Queries = c * Queries /\ (FirstTtl - 1) * Queries = b * Queries
  BY <1>1, <1>2 DEF Offset
<1>3. /\ a * Queries \in Nat /\ b * Queries \in Nat
      /\ d * Queries = a * Queries + Queries
      /\ c * Queries = b * Queries + a * Queries
  BY <1>1, <1>2, Products
<1> QED BY <1>o, <1>3

LEMMA OffsetOrder ==
  ASSUME NEW t \in Nat, NEW u \in Nat, FirstTtl <= t, t < u
  PROVE  Offset(t) + Queries <= Offset(u)
<1>1. PICK a \in Nat, b \in Nat, c \in Nat :
        a = t + 1 - FirstTtl /\ b = u - t - 1 /\ c = u - FirstTtl /\ c = a + b
  BY ConstantTypes
<1>2. Queries \in Nat /\ FirstTtl \in Nat
  BY ConstantTypes
<1>3. Offset(t + 1) = a * Queries /\ Offset(u) = c * Queries
  BY <1>1, <1>2 DEF Offset
<1>4. a * Queries <= c * Queries
  BY <1>1, <1>2, Products
<1>5. Offset(t + 1) = Offset(t) + Queries
  BY OffsetFacts
<1> QED BY <1>3, <1>4, <1>5

LEMMA OffsetBound ==
  ASSUME MaxTtl * Queries < SeqMod, NEW t \in Nat, FirstTtl <= t, t <= MaxTtl,
         NEW i \in Index
  PROVE  Offset(t) + i \in 0 .. SeqMod - 1
<1>1. PICK a \in Nat, b \in Nat : a = t + 1 - FirstTtl /\ b = MaxTtl - a /\ MaxTtl = a + b
  BY ConstantTypes
<1>2. Queries \in Nat /\ FirstTtl \in Nat
  BY ConstantTypes
<1>3. Offset(t + 1) = a * Queries
  BY <1>1, <1>2 DEF Offset
<1>4. a * Queries <= MaxTtl * Queries /\ a * Queries \in Nat /\ MaxTtl * Queries \in Nat
  BY <1>1, <1>2, Products, ConstantTypes
<1>5. Offset(t + 1) = Offset(t) + Queries /\ Offset(t) \in Nat
  BY OffsetFacts
<1>6. Offset(t) + Queries < SeqMod
  BY <1>3, <1>4, <1>5, ConstantTypes
<1> QED BY <1>5, <1>6, ConstantTypes DEF Index

LEMMA SameNumber ==
  ASSUME NEW x \in Nat, NEW m \in 0 .. SeqMod - 1, NEW n \in 0 .. SeqMod - 1,
         (x + m) % SeqMod = (x + n) % SeqMod
  PROVE  m = n
<1> DEFINE r == x % SeqMod
<1>1. r \in Slot /\ SeqMod \in Nat
  BY SlotAfter, ConstantTypes
<1>2. (x + m) % SeqMod = IF r + m < SeqMod THEN r + m ELSE r + m - SeqMod
  BY SlotAfter
<1>3. (x + n) % SeqMod = IF r + n < SeqMod THEN r + n ELSE r + n - SeqMod
  BY SlotAfter
<1> DEFINE y == (x + m) % SeqMod
<1>4. /\ y = IF r + m < SeqMod THEN r + m ELSE r + m - SeqMod
      /\ y = IF r + n < SeqMod THEN r + n ELSE r + n - SeqMod
  BY <1>2, <1>3
<1> HIDE DEF r, y
<1> QED BY <1>1, <1>4 DEF Slot

LEMMA NumbersDiffer ==
  ASSUME MaxTtl * Queries < SeqMod,
         NEW t \in Nat, NEW u \in Nat, FirstTtl <= t, t <= MaxTtl, FirstTtl <= u, u <= MaxTtl,
         NEW i \in Index, NEW j \in Index, NumberOf(t, i) = NumberOf(u, j)
  PROVE  t = u /\ i = j
<1>1. /\ Offset(t) + i \in 0 .. SeqMod - 1 /\ Offset(u) + j \in 0 .. SeqMod - 1
      /\ Offset(t) \in Nat /\ Offset(u) \in Nat /\ i \in Nat /\ j \in Nat
  BY OffsetBound, OffsetFacts DEF Index
<1>2. Offset(t) + i = Offset(u) + j
  <2>1. CASE config.use_udp
    <3> DEFINE c == (FirstTtl - 1) * Queries
               p == (t - 1) * Queries
               q == (u - 1) * Queries
               x == PortBase + c
    <3>1. c \in Nat /\ p = c + Offset(t) /\ q = c + Offset(u)
      BY OffsetFacts
    <3>2. /\ NumberOf(t, i) = (PortBase + p + i) % SeqMod
          /\ NumberOf(u, j) = (PortBase + q + j) % SeqMod
      BY <2>1 DEF NumberOf, DestPort
    <3> HIDE DEF c, p, q
    <3>3. /\ x \in Nat
          /\ PortBase + p + i = x + (Offset(t) + i)
          /\ PortBase + q + j = x + (Offset(u) + j)
      BY <1>1, <3>1, ConstantTypes
    <3>4. /\ NumberOf(t, i) = (x + (Offset(t) + i)) % SeqMod
          /\ NumberOf(u, j) = (x + (Offset(u) + j)) % SeqMod
      BY <3>2, <3>3
    <3> HIDE DEF x
    <3> QED BY <1>1, <3>3, <3>4, SameNumber
  <2>2. CASE ~config.use_udp
    <3>1. /\ NumberOf(t, i) = (1 + (Offset(t) + i)) % SeqMod
          /\ NumberOf(u, j) = (1 + (Offset(u) + j)) % SeqMod
      BY <2>2 DEF NumberOf, SeqAt
    <3> QED BY <1>1, <3>1, SameNumber
  <2> QED BY <2>1, <2>2
<1>3. ~(t < u)
  <2>1. ASSUME t < u PROVE Offset(t) + Queries <= Offset(u)
    BY <2>1, OffsetOrder
  <2> QED BY <1>1, <1>2, <2>1, ConstantTypes DEF Index
<1>4. ~(u < t)
  <2>1. ASSUME u < t PROVE Offset(u) + Queries <= Offset(t)
    BY <2>1, OffsetOrder
  <2> QED BY <1>1, <1>2, <2>1, ConstantTypes DEF Index
<1>5. t = u
  BY <1>3, <1>4
<1> QED BY <1>1, <1>2, <1>5

LEMMA SeqAtFacts ==
  ASSUME NEW n \in Nat
  PROVE  /\ SeqAt(n) \in Slot /\ SeqAt(n + 1) = Succ(SeqAt(n))
         /\ \A i \in 0 .. SeqMod - 1 : (SeqAt(n) + i) % SeqMod = SeqAt(n + i)
<1> DEFINE r == (1 + n) % SeqMod
<1>1. r \in Slot /\ (1 + n) + 1 = 1 + (n + 1) /\ 1 + n \in Nat
  BY NumberToSlot
<1>2. (1 + (n + 1)) % SeqMod = Succ(r)
  <2>1. ((1 + n) + 1) % SeqMod = Succ((1 + n) % SeqMod)
    BY <1>1, NumberToSlot
  <2> QED BY <1>1, <2>1
<1>3. ASSUME NEW i \in 0 .. SeqMod - 1
      PROVE  (r + i) % SeqMod = (1 + (n + i)) % SeqMod
  <2>1. (1 + n) + i = 1 + (n + i) /\ r \in Nat
    BY <1>1, ConstantTypes DEF Slot
  <2>2. ((1 + n) + i) % SeqMod = IF r + i < SeqMod THEN r + i ELSE r + i - SeqMod
    BY <1>1, SlotAfter
  <2>3. (r + i) % SeqMod = IF (r % SeqMod) + i < SeqMod THEN (r % SeqMod) + i
                                                  ELSE (r % SeqMod) + i - SeqMod
    BY <2>1, SlotAfter
  <2>4. r % SeqMod = r
    <3> HIDE DEF r
    <3>1. r \in Nat /\ r < SeqMod /\ SeqMod \in Nat
      BY <1>1, ConstantTypes DEF Slot
    <3> QED BY <3>1, Z3
  <2> QED BY <2>1, <2>2, <2>3, <2>4
<1> QED BY <1>1, <1>2, <1>3 DEF SeqAt
-------------------------------------------------------------------------------
(* The hops follow one another. *)

InHop == pc \in {"volley", "wait", "timeout", "call", "poll", "print"}

OrderInv ==
  /\ ttl >= FirstTtl
  /\ InHop => ttl <= MaxTtl
  /\ Len(printed) = ttl - FirstTtl
  /\ \A k \in 1 .. Len(printed) : printed[k] = FirstTtl + k - 1

LEMMA SameHop ==
  ASSUME \/ RunEnds \/ VolleyEnds \/ WaitMore \/ WaitEnds
         \/ PollPrepared \/ TimeRunsOut \/ PollBegins \/ PollTimesOut
         \/ HandleSigint \/ Tick \/ UNCHANGED vars
  PROVE  /\ UNCHANGED <<config, volley, found, probes, printed, net>>
         /\ InHop' => InHop
         /\ keep_running' => keep_running
BY DEF RunEnds, VolleyEnds, WaitMore, WaitEnds, PollTimesOut, HandleSigint, Tick, vars,
       PollPrepared, TimeRunsOut, PollBegins, volley, found, net, InHop

LEMMA OrderInit == Init => OrderInv
<1> SUFFICES ASSUME Init PROVE OrderInv
  OBVIOUS
<1>1. ttl = FirstTtl /\ printed = <<>> /\ pc = "hop"
  BY DEF Init
<1>2. Len(printed) = 0
  BY <1>1
<1> QED BY <1>1, <1>2, ConstantTypes DEF OrderInv, InHop

LEMMA OrderStep ==
  ASSUME MaxTtl < TtlMod - 1
  PROVE  TypeInv /\ OrderInv /\ [Next]_vars => OrderInv'
<1> SUFFICES ASSUME TypeInv, OrderInv, [Next]_vars PROVE OrderInv'
  OBVIOUS
<1>1. CASE UNCHANGED <<ttl, printed>> /\ (InHop' => InHop)
  BY <1>1 DEF OrderInv
<1>2. CASE HopBegin
  <2>1. UNCHANGED <<ttl, printed>> /\ ttl <= MaxTtl
    BY <1>2 DEF HopBegin, GoesOn
  <2> QED BY <2>1 DEF OrderInv
<1>3. CASE PrintHop
  <2>1. ttl \in 0 .. TtlMod - 1 /\ printed \in Seq(0 .. TtlMod - 1) /\ ttl <= MaxTtl
    BY <1>3 DEF PrintHop, OrderInv, InHop, TypeInv, TypeOK
  <2>2. ttl' = ttl + 1 /\ ttl \in Nat
    BY <1>3, <2>1, NextTtlFacts, ConstantTypes DEF PrintHop
  <2>3. /\ Len(printed') = Len(printed) + 1 /\ Len(printed) \in Nat
        /\ \A k \in 1 .. Len(printed') :
             printed'[k] = IF k = Len(printed) + 1 THEN ttl ELSE printed[k]
    BY <1>3, <2>1 DEF PrintHop
  <2>4. /\ ttl >= FirstTtl /\ Len(printed) = ttl - FirstTtl
        /\ \A k \in 1 .. Len(printed) : printed[k] = FirstTtl + k - 1
    BY DEF OrderInv
  <2>5. ASSUME NEW k \in 1 .. Len(printed') PROVE printed'[k] = FirstTtl + k - 1
    BY <2>2, <2>3, <2>4, <2>5, ConstantTypes
  <2>6. ttl' >= FirstTtl /\ Len(printed') = ttl' - FirstTtl
    BY <2>2, <2>3, <2>4, ConstantTypes
  <2>7. ~InHop'
    BY <1>3 DEF PrintHop, InHop
  <2> QED BY <2>5, <2>6, <2>7 DEF OrderInv
<1>4. CASE SendProbe
  BY <1>1, <1>4 DEF SendProbe, InHop
<1>5. CASE Receive
  BY <1>1, <1>5, ReceiveFacts DEF InHop, volley
<1>6. CASE ArriveAnswer \/ ArriveForeign
  <2>1. UNCHANGED <<ttl, printed, pc>>
    BY <1>6 DEF ArriveAnswer, ArriveForeign, Enqueue, volley
  <2> QED BY <1>1, <2>1 DEF InHop
<1>7. CASE \/ RunEnds \/ VolleyEnds \/ WaitMore \/ WaitEnds
           \/ PollPrepared \/ TimeRunsOut \/ PollBegins \/ PollTimesOut
           \/ HandleSigint \/ Tick \/ UNCHANGED vars
  BY <1>1, <1>7, SameHop DEF volley
<1> QED BY <1>2, <1>3, <1>4, <1>5, <1>6, <1>7, NextSplits

-------------------------------------------------------------------------------
(* The sequence number tells where in the run traceroute is. *)

SeqInv ==
  /\ pc = "hop" /\ keep_running => seq = SeqAt(Offset(ttl))
  /\ InHop => base_seq = SeqAt(Offset(ttl))
  /\ pc = "volley" => seq = SeqAt(Offset(ttl) + probe)
  /\ pc \in {"wait", "timeout", "call", "poll", "print"} /\ keep_running => seq = SeqAt(Offset(ttl) + Queries)

LEMMA SeqInit == Init => SeqInv
<1> SUFFICES ASSUME Init PROVE SeqInv
  OBVIOUS
<1>1. Offset(FirstTtl) = 0
  <2>1. FirstTtl - FirstTtl = 0 /\ 0 * Queries = 0
    BY ConstantTypes
  <2> QED BY <2>1, ConstantTypes DEF Offset
<1>2. SeqAt(0) = 1
  <2>1. ASSUME NEW x \in Nat, NEW m \in Nat, x < m PROVE x % m = x
    BY <2>1, Z3
  <2>2. 1 % SeqMod = 1
    BY <2>1, ConstantTypes
  <2> QED BY <2>2 DEF SeqAt
<1> QED BY <1>1, <1>2 DEF Init, SeqInv, InHop

LEMMA SeqStep ==
  ASSUME MaxTtl < TtlMod - 1
  PROVE  TypeInv /\ OrderInv /\ SeqInv /\ [Next]_vars => SeqInv'
<1> SUFFICES ASSUME TypeInv, OrderInv, SeqInv, [Next]_vars PROVE SeqInv'
  OBVIOUS
<1>t. /\ ttl \in Nat /\ ttl \in 0 .. TtlMod - 1 /\ probe \in Nat /\ probe <= Queries
      /\ Offset(ttl) \in Nat /\ Offset(ttl + 1) = Offset(ttl) + Queries
  BY OffsetFacts, ConstantTypes DEF TypeInv, TypeOK, OrderInv
<1>1. CASE HopBegin
  <2>1. Offset(ttl) + 0 = Offset(ttl)
    BY <1>t
  <2> QED BY <1>1, <2>1 DEF HopBegin, GoesOn, SeqInv, InHop
<1>2. CASE SendProbe
  <2>1. /\ pc = "volley" /\ pc' = pc /\ seq' = Succ(seq) /\ probe' = probe + 1
        /\ UNCHANGED <<ttl, base_seq, keep_running>>
    BY <1>2 DEF SendProbe
  <2>2. Offset(ttl) + probe' = (Offset(ttl) + probe) + 1 /\ Offset(ttl) + probe \in Nat
    BY <1>t, <2>1
  <2>3. seq' = SeqAt(Offset(ttl) + probe')
    BY <2>1, <2>2, SeqAtFacts DEF SeqInv
  <2> QED BY <2>1, <2>3 DEF SeqInv, InHop
<1>3. CASE VolleyEnds
  <2>1. keep_running => probe = Queries
    BY <1>3, <1>t, ConstantTypes DEF VolleyEnds, MoreToSend
  <2> QED BY <1>3, <2>1 DEF VolleyEnds, SeqInv, InHop, volley
<1>4. CASE PrintHop
  <2>1. ttl' = ttl + 1
    BY <1>4, <1>t, NextTtlFacts, ConstantTypes DEF PrintHop, OrderInv, InHop
  <2> QED BY <1>4, <1>t, <2>1 DEF PrintHop, SeqInv, InHop
<1>5. CASE \/ RunEnds \/ WaitMore \/ WaitEnds \/ PollPrepared \/ TimeRunsOut \/ PollBegins
           \/ PollTimesOut
  BY <1>5 DEF RunEnds, WaitMore, WaitEnds, PollPrepared, TimeRunsOut, PollBegins, PollTimesOut,
              SeqInv, InHop, volley
<1>6. CASE HandleSigint
  BY <1>6 DEF HandleSigint, SeqInv, InHop, volley
<1>7. CASE Tick
  BY <1>7 DEF Tick, SeqInv, InHop, volley
<1>8. CASE Receive
  <2>1. pc = "poll" /\ pc' = "wait" /\ UNCHANGED <<volley, keep_running>>
    BY <1>8, ReceiveFacts
  <2> QED BY <2>1 DEF SeqInv, InHop, volley
<1>9. CASE ArriveAnswer \/ ArriveForeign
  <2>1. UNCHANGED <<volley, pc, keep_running>>
    BY <1>9 DEF ArriveAnswer, ArriveForeign, Enqueue
  <2> QED BY <2>1 DEF SeqInv, InHop, volley
<1>10. CASE UNCHANGED vars
  BY <1>10 DEF vars, SeqInv, InHop, volley
<1> QED BY <1>1, <1>2, <1>3, <1>4, <1>5, <1>6, <1>7, <1>8, <1>9, <1>10, NextSplits

(* What an answer to the i-th probe of this hop must quote is the number   *)
(* of that probe, and a probe is sent with its number.                     *)
LEMMA ExpectedNumber ==
  ASSUME TypeInv, OrderInv, SeqInv
  PROVE  /\ InHop => \A i \in Index : Expected(i) = NumberOf(ttl, i)
         /\ pc = "volley" =>
              (IF config.use_udp THEN DestPort(ttl, probe) ELSE seq) = NumberOf(ttl, probe)
<1>1. ASSUME InHop, NEW i \in Index PROVE Expected(i) = NumberOf(ttl, i)
  <2>1. ttl \in Nat /\ ttl >= FirstTtl /\ i \in 0 .. SeqMod - 1 /\ Offset(ttl) \in Nat
    BY OffsetFacts, ConstantTypes DEF TypeInv, TypeOK, OrderInv, Index
  <2>2. (SeqAt(Offset(ttl)) + i) % SeqMod = SeqAt(Offset(ttl) + i)
    BY <2>1, SeqAtFacts
  <2> QED BY <1>1, <2>2 DEF Expected, NumberOf, SeqInv
<1> QED BY <1>1 DEF NumberOf, SeqInv
-------------------------------------------------------------------------------
(* Every answer carries the number of the probe it is about, so it is      *)
(* credited to no other.                                                   *)

Numbered(t, i, n) ==
  t \in Nat /\ FirstTtl <= t /\ t <= MaxTtl /\ i \in Index /\ n = NumberOf(t, i)

SentInv == \A r \in on_wire : Numbered(r.ttl, r.index, r.number) /\ r.ttl <= ttl

AnswersInv ==
  \A k \in 1 .. Len(sockbuf) :
    IF sockbuf[k].ours
    THEN Numbered(sockbuf[k].about[1], sockbuf[k].about[2], sockbuf[k].number)
    ELSE ~config.use_udp

GenuineInv == SeqInv /\ SentInv /\ AnswersInv /\ HopGenuine

LEMMA CreditIsGenuine ==
  ASSUME MaxTtl * Queries < SeqMod, TypeInv, OrderInv, GenuineInv,
         pc = "poll", 1 \in 1 .. Len(sockbuf), sockbuf[1] \in Packet,
         NEW i \in Index, IsOurProbe(sockbuf[1], i)
  PROVE  sockbuf[1].about = <<ttl, i>>
<1> DEFINE p == sockbuf[1]
<1>1. p.ours
  BY DEF GenuineInv, AnswersInv, IsOurProbe
<1>2. Numbered(p.about[1], p.about[2], p.number) /\ p.about \in Nat \X Nat
  BY <1>1 DEF GenuineInv, AnswersInv, Packet
<1>3. p.number = NumberOf(ttl, i)
  BY ExpectedNumber DEF IsOurProbe, GenuineInv, InHop
<1>4. ttl \in Nat /\ FirstTtl <= ttl /\ ttl <= MaxTtl
  BY ConstantTypes DEF TypeInv, TypeOK, OrderInv, InHop
<1> HIDE DEF p
<1>5. /\ p.about[1] \in Nat /\ FirstTtl <= p.about[1] /\ p.about[1] <= MaxTtl
      /\ p.about[2] \in Index /\ NumberOf(p.about[1], p.about[2]) = NumberOf(ttl, i)
  BY <1>2, <1>3 DEF Numbered
<1>6. p.about[1] = ttl /\ p.about[2] = i
  BY <1>4, <1>5, NumbersDiffer
<1> QED BY <1>2, <1>6 DEF p

LEMMA SentStep ==
  ASSUME MaxTtl < TtlMod - 1
  PROVE  TypeInv /\ OrderInv /\ SeqInv /\ SentInv /\ [Next]_vars => SentInv'
<1> SUFFICES ASSUME TypeInv, OrderInv, SeqInv, SentInv, [Next]_vars PROVE SentInv'
  OBVIOUS
<1>1. CASE UNCHANGED <<config, ttl, on_wire>>
  BY <1>1 DEF SentInv, Numbered, NumberOf
<1>2. CASE SendProbe
  <2>1. /\ pc = "volley" /\ probe \in Index /\ ttl \in Nat /\ FirstTtl <= ttl /\ ttl <= MaxTtl
        /\ config' = config /\ ttl' = ttl
    <3>1. pc = "volley" /\ probe < Queries /\ config' = config /\ ttl' = ttl
      BY <1>2 DEF SendProbe, MoreToSend
    <3>2. probe \in 0 .. Queries /\ ttl \in Nat
      BY ConstantTypes DEF TypeInv, TypeOK
    <3>3. probe \in Index
      BY <3>1, <3>2, ConstantTypes DEF Index
    <3>4. FirstTtl <= ttl /\ ttl <= MaxTtl
      BY <3>1, <3>2, ConstantTypes DEF OrderInv, InHop
    <3> QED BY <3>1, <3>2, <3>3, <3>4
  <2> DEFINE n == IF config.use_udp THEN DestPort(ttl, probe) ELSE seq
             q == [ttl |-> ttl, index |-> probe, hops |-> WireTtl, number |-> n]
  <2>2. n = NumberOf(ttl, probe)
    BY <2>1, ExpectedNumber
  <2>3. on_wire' \in {on_wire \cup {q}, on_wire}
    BY <1>2 DEF SendProbe
  <2>4. Numbered(q.ttl, q.index, q.number) /\ q.ttl <= ttl
    BY <2>1, <2>2 DEF Numbered
  <2> HIDE DEF q
  <2> QED BY <2>1, <2>3, <2>4 DEF SentInv, Numbered, NumberOf
<1>3. CASE PrintHop
  <2>1. ttl' = ttl + 1 /\ ttl \in Nat /\ UNCHANGED <<config, on_wire>>
    BY <1>3, NextTtlFacts, ConstantTypes
    DEF PrintHop, TypeInv, TypeOK, OrderInv, InHop, net
  <2> QED BY <2>1 DEF SentInv, Numbered, NumberOf
<1>4. CASE HopBegin
  BY <1>1, <1>4 DEF HopBegin, net
<1>5. CASE Receive
  BY <1>1, <1>5, ReceiveFacts DEF volley
<1>6. CASE ArriveAnswer \/ ArriveForeign
  <2>1. UNCHANGED <<config, ttl, on_wire>>
    BY <1>6 DEF ArriveAnswer, ArriveForeign, Enqueue, volley
  <2> QED BY <1>1, <2>1
<1>7. CASE \/ RunEnds \/ VolleyEnds \/ WaitMore \/ WaitEnds
           \/ PollPrepared \/ TimeRunsOut \/ PollBegins \/ PollTimesOut
           \/ HandleSigint \/ Tick \/ UNCHANGED vars
  BY <1>1, <1>7, SameHop DEF volley, net
<1> QED BY <1>2, <1>3, <1>4, <1>5, <1>6, <1>7, NextSplits

LEMMA AnswersStep == TypeInv /\ SentInv /\ AnswersInv /\ [Next]_vars => AnswersInv'
<1> SUFFICES ASSUME TypeInv, SentInv, AnswersInv, [Next]_vars PROVE AnswersInv'
  OBVIOUS
<1>1. CASE UNCHANGED <<config, sockbuf>>
  BY <1>1 DEF AnswersInv, Numbered, NumberOf
<1>2. CASE Receive
  <2>1. /\ config' = config
        /\ \A k \in 1 .. Len(sockbuf') :
             k + 1 \in 1 .. Len(sockbuf) /\ sockbuf'[k] = sockbuf[k + 1]
    BY <1>2, ReceiveFacts
  <2> QED BY <2>1 DEF AnswersInv, Numbered, NumberOf
<1>3. CASE ArriveAnswer
  <2>1. PICK r \in on_wire : Enqueue(Answer(r))
    BY <1>3 DEF ArriveAnswer, Answer
  <2>2. Answer(r) \in Packet
    BY <2>1, AnswerType
  <2> DEFINE p == Answer(r)
  <2>3. p.ours /\ Numbered(p.about[1], p.about[2], p.number)
    BY DEF SentInv, Answer
  <2> HIDE DEF p
  <2>4. /\ config' = config
        /\ \A k \in 1 .. Len(sockbuf') :
             \/ k \in 1 .. Len(sockbuf) /\ sockbuf'[k] = sockbuf[k]
             \/ sockbuf'[k] = p
    BY <2>1, <2>2, EnqueueFacts DEF p
  <2> QED BY <2>3, <2>4 DEF AnswersInv, Numbered, NumberOf
<1>4. CASE ArriveForeign
  <2>1. PICK j \in {"reply", "exceeded"}, i \in Index : Enqueue(Foreign(j, i)) /\ ~config.use_udp
    BY <1>4 DEF ArriveForeign, Foreign
  <2>2. Foreign(j, i) \in Packet
    BY <2>1, ForeignType
  <2> DEFINE p == Foreign(j, i)
  <2>3. ~p.ours
    BY DEF Foreign
  <2> HIDE DEF p
  <2>4. /\ config' = config
        /\ \A k \in 1 .. Len(sockbuf') :
             \/ k \in 1 .. Len(sockbuf) /\ sockbuf'[k] = sockbuf[k]
             \/ sockbuf'[k] = p
    BY <2>1, <2>2, EnqueueFacts DEF p
  <2> QED BY <2>1, <2>3, <2>4 DEF AnswersInv, Numbered, NumberOf
<1>5. CASE HopBegin \/ SendProbe \/ PrintHop
  BY <1>1, <1>5 DEF HopBegin, SendProbe, PrintHop, net
<1>6. CASE \/ RunEnds \/ VolleyEnds \/ WaitMore \/ WaitEnds
           \/ PollPrepared \/ TimeRunsOut \/ PollBegins \/ PollTimesOut
           \/ HandleSigint \/ Tick \/ UNCHANGED vars
  BY <1>1, <1>6, SameHop DEF net
<1> QED BY <1>2, <1>3, <1>4, <1>5, <1>6, NextSplits

LEMMA HopGenuineStep ==
  ASSUME MaxTtl * Queries < SeqMod
  PROVE  TypeInv /\ OrderInv /\ GenuineInv /\ [Next]_vars => HopGenuine'
<1> SUFFICES ASSUME TypeInv, OrderInv, GenuineInv, [Next]_vars PROVE HopGenuine'
  OBVIOUS
<1>g. InHop => \A i \in Index : probes[i].received => probes[i].answers = <<ttl, i>>
  BY DEF GenuineInv, HopGenuine, InHop
<1>p. probes \in [Index -> ProbeState]
  BY DEF TypeInv, TypeOK, ProbeState
<1>1. CASE UNCHANGED <<ttl, probes>> /\ (InHop' => InHop)
  BY <1>1, <1>g DEF HopGenuine, InHop
<1>2. CASE HopBegin
  <2>1. \A i \in Index : ~probes'[i].received
    BY <1>2 DEF HopBegin, NoProbe
  <2> QED BY <2>1 DEF HopGenuine
<1>3. CASE SendProbe
  <2>1. pc = "volley" /\ ttl' = ttl
        /\ probes' \in {[probes EXCEPT ![probe].sent_ok = TRUE], probes}
    BY <1>3 DEF SendProbe
  <2>2. \A i \in Index : /\ probes'[i].received = probes[i].received
                         /\ probes'[i].answers = probes[i].answers
    BY <1>p, <2>1 DEF ProbeState
  <2> QED BY <1>g, <2>1, <2>2 DEF HopGenuine, InHop
<1>4. CASE Receive
  <2>1. /\ pc = "poll" /\ 1 \in 1 .. Len(sockbuf) /\ sockbuf[1] \in Packet
        /\ pc' = "wait" /\ ttl' = ttl
    BY <1>4, ReceiveFacts DEF volley
  <2>2. CASE UNCHANGED <<probes, found>>
    BY <1>1, <2>1, <2>2 DEF InHop
  <2>3. CASE \E i \in Index :
               /\ IsOurProbe(sockbuf[1], i)
               /\ probes' = [probes EXCEPT ![i].received = TRUE, ![i].from = sockbuf[1].from,
                                           ![i].answers = sockbuf[1].about]
    <3>1. PICK i \in Index :
            /\ IsOurProbe(sockbuf[1], i)
            /\ probes' = [probes EXCEPT ![i].received = TRUE, ![i].from = sockbuf[1].from,
                                        ![i].answers = sockbuf[1].about]
      BY <2>3
    <3>2. sockbuf[1].about = <<ttl, i>>
      BY <2>1, <3>1, CreditIsGenuine
    <3>3. \A j \in Index : IF j = i THEN probes'[j].answers = <<ttl, i>>
                                    ELSE probes'[j] = probes[j]
      BY <1>p, <3>1, <3>2 DEF ProbeState
    <3> QED BY <1>g, <2>1, <3>3 DEF HopGenuine, InHop
  <2> QED BY <1>4, <2>2, <2>3, ReceiveFacts
<1>5. CASE PrintHop
  BY <1>5 DEF PrintHop, HopGenuine
<1>6. CASE ArriveAnswer \/ ArriveForeign
  <2>1. UNCHANGED <<ttl, probes, pc>>
    BY <1>6 DEF ArriveAnswer, ArriveForeign, Enqueue, volley
  <2> QED BY <1>1, <2>1 DEF InHop
<1>7. CASE \/ RunEnds \/ VolleyEnds \/ WaitMore \/ WaitEnds
           \/ PollPrepared \/ TimeRunsOut \/ PollBegins \/ PollTimesOut
           \/ HandleSigint \/ Tick \/ UNCHANGED vars
  BY <1>1, <1>7, SameHop DEF volley
<1> QED BY <1>2, <1>3, <1>4, <1>5, <1>6, <1>7, NextSplits

LEMMA GenuineInit == Init => GenuineInv
<1> SUFFICES ASSUME Init PROVE GenuineInv
  OBVIOUS
<1>1. SentInv /\ AnswersInv /\ HopGenuine
  BY DEF Init, SentInv, AnswersInv, HopGenuine
<1> QED BY <1>1, SeqInit DEF GenuineInv

LEMMA GenuineStep ==
  ASSUME MaxTtl < TtlMod - 1, MaxTtl * Queries < SeqMod
  PROVE  TypeInv /\ OrderInv /\ GenuineInv /\ [Next]_vars => GenuineInv'
BY SeqStep, SentStep, AnswersStep, HopGenuineStep DEF GenuineInv

(* As long as the run has fewer probes than there are numbers and -m is    *)
(* below 255, a time printed for a probe is that of an answer to it, not   *)
(* of a late one to another hop's probe or to a neighbour.                 *)
THEOREM TimesAreGenuine ==
  ASSUME MaxTtl < TtlMod - 1, MaxTtl * Queries < SeqMod
  PROVE  Spec => []HopGenuine
<1>1. Init => TypeInv /\ OrderInv /\ GenuineInv
  BY TypeInit, OrderInit, GenuineInit
<1>2. TypeInv /\ OrderInv /\ GenuineInv /\ [Next]_vars => (TypeInv /\ OrderInv /\ GenuineInv)'
  BY TypeStep, OrderStep, GenuineStep
<1>3. GenuineInv => HopGenuine
  BY DEF GenuineInv
<1> QED BY <1>1, <1>2, <1>3, PTL DEF Spec

-------------------------------------------------------------------------------
(* The search ends at the target.                                          *)

RouteInv ==
  /\ target_reached => target_ttls # {}
  /\ target_ttls # {} => target_reached
  /\ pc = "volley" => ~target_reached
  /\ \A t \in target_ttls, r \in on_wire : r.ttl <= t
  /\ ttl <= MaxTtl + 1
  /\ pc = "done" /\ keep_running => target_ttls # {} \/ ttl = MaxTtl + 1

LEMMA RouteInit ==
  ASSUME FirstTtl <= MaxTtl + 1
  PROVE  Init => RouteInv
BY DEF Init, RouteInv

LEMMA RouteStep ==
  ASSUME MaxTtl < TtlMod - 1, MaxTtl * Queries < SeqMod
  PROVE  TypeInv /\ OrderInv /\ GenuineInv /\ RouteInv /\ [Next]_vars => RouteInv'
<1> SUFFICES ASSUME TypeInv, OrderInv, GenuineInv, RouteInv, [Next]_vars PROVE RouteInv'
  OBVIOUS
<1>t. ttl \in Nat /\ MaxTtl \in Nat
  BY ConstantTypes DEF TypeInv, TypeOK
<1>1. CASE /\ UNCHANGED <<found, ttl, on_wire>>
           /\ pc' # "volley" \/ pc' = pc
           /\ pc' # "done" \/ pc' = pc
           /\ keep_running' => keep_running
  BY <1>1 DEF RouteInv, found
<1>2. CASE HopBegin
  BY <1>2 DEF HopBegin, GoesOn, RouteInv, found, net
<1>3. CASE RunEnds
  BY <1>3, <1>t DEF RunEnds, GoesOn, RouteInv, found, net, volley
<1>4. CASE SendProbe
  <2>1. target_ttls = {} /\ UNCHANGED <<target_reached, target_ttls, ttl, pc>> /\ pc = "volley"
    BY <1>4 DEF SendProbe, RouteInv, found
  <2> QED BY <2>1 DEF RouteInv
<1>5. CASE Receive
  <2>1. /\ pc = "poll" /\ 1 \in 1 .. Len(sockbuf) /\ sockbuf[1] \in Packet
        /\ pc' = "wait" /\ UNCHANGED <<ttl, on_wire, keep_running>>
    BY <1>5, ReceiveFacts DEF volley
  <2>2. CASE UNCHANGED <<probes, found>>
    BY <1>1, <2>1, <2>2
  <2>3. CASE \E i \in Index :
               /\ IsOurProbe(sockbuf[1], i)
               /\ target_reached' = (target_reached \/ IsTarget(sockbuf[1]))
               /\ target_ttls' = IF IsTarget(sockbuf[1])
                                 THEN target_ttls \cup {sockbuf[1].about[1]} ELSE target_ttls
    <3>1. PICK i \in Index :
            /\ IsOurProbe(sockbuf[1], i)
            /\ target_reached' = (target_reached \/ IsTarget(sockbuf[1]))
            /\ target_ttls' = IF IsTarget(sockbuf[1])
                              THEN target_ttls \cup {sockbuf[1].about[1]} ELSE target_ttls
      BY <2>3
    <3>2. sockbuf[1].about = <<ttl, i>>
      BY <2>1, <3>1, CreditIsGenuine
    <3>3. /\ target_reached' => target_ttls' # {}
          /\ target_ttls' # {} => target_reached'
      BY <3>1 DEF RouteInv
    <3>4. target_ttls' \subseteq target_ttls \cup {ttl}
      BY <3>1, <3>2
    <3>5. \A r \in on_wire : r.ttl <= ttl
      BY DEF GenuineInv, SentInv
    <3>6. \A t \in target_ttls', r \in on_wire' : r.ttl <= t
      BY <2>1, <3>4, <3>5 DEF RouteInv
    <3> QED BY <2>1, <3>3, <3>6 DEF RouteInv
  <2> QED BY <1>5, <2>2, <2>3, ReceiveFacts
<1>6. CASE PrintHop
  <2>1. ttl' = ttl + 1 /\ ttl <= MaxTtl /\ pc' = "hop" /\ UNCHANGED <<found, on_wire>>
    BY <1>6, <1>t, NextTtlFacts, ConstantTypes DEF PrintHop, TypeInv, TypeOK, OrderInv, InHop, net
  <2> QED BY <1>t, <2>1 DEF RouteInv, found
<1>7. CASE ArriveAnswer \/ ArriveForeign
  <2>1. UNCHANGED <<found, ttl, pc, on_wire, keep_running>>
    BY <1>7 DEF ArriveAnswer, ArriveForeign, Enqueue, volley
  <2> QED BY <1>1, <2>1
<1>8. CASE \/ VolleyEnds \/ WaitMore \/ WaitEnds \/ PollPrepared \/ TimeRunsOut \/ PollBegins
           \/ PollTimesOut
  BY <1>1, <1>8 DEF VolleyEnds, WaitMore, WaitEnds, PollPrepared, TimeRunsOut, PollBegins,
                    PollTimesOut, volley, net
<1>9. CASE HandleSigint \/ Tick \/ UNCHANGED vars
  <2>1. UNCHANGED <<found, ttl, on_wire>> /\ (keep_running' => keep_running)
        /\ (pc' = pc \/ pc' = "wait")
    BY <1>9 DEF HandleSigint, Tick, vars, volley, net
  <2> QED BY <1>1, <2>1
<1> QED BY <1>2, <1>3, <1>4, <1>5, <1>6, <1>7, <1>8, <1>9, NextSplits

(* The hops are printed in order, none twice and none left out, no probe   *)
(* goes past a hop taken for the target, and a run that is not interrupted *)
(* ends only at the target or after -m hops.                               *)
THEOREM HopsInOrder ==
  ASSUME FirstTtl <= MaxTtl + 1, MaxTtl < TtlMod - 1, MaxTtl * Queries < SeqMod
  PROVE  Spec => []RouteInOrder
<1>1. Init => TypeInv /\ OrderInv /\ GenuineInv /\ RouteInv
  BY TypeInit, OrderInit, GenuineInit, RouteInit
<1>2. TypeInv /\ OrderInv /\ GenuineInv /\ RouteInv /\ [Next]_vars
        => (TypeInv /\ OrderInv /\ GenuineInv /\ RouteInv)'
  BY TypeStep, OrderStep, GenuineStep, RouteStep
<1>3. OrderInv /\ RouteInv => RouteInOrder
  BY DEF OrderInv, RouteInv, RouteInOrder
<1> QED BY <1>1, <1>2, <1>3, PTL DEF Spec

-------------------------------------------------------------------------------
(* What is left to do after a signal.                                      *)

StepsLeft ==
  CASE pc = "done" -> 0 [] pc = "hop" -> 1 [] pc = "print" -> 2 [] pc = "wait" -> 3
    [] pc = "call" -> 5 [] pc = "timeout" -> 6 [] OTHER -> 4

(* Lines that may still be printed. *)
LinesLeft == IF InHop THEN 1 ELSE 0

(* Once a signal has come it is not forgotten, no probe is sent any more,  *)
(* no line is printed but that of the hop under way, and each step of the  *)
(* process brings it nearer to the end, which is at most six steps away.   *)
WindsDown ==
  ~keep_running =>
    /\ ~keep_running' /\ UNCHANGED <<on_wire, seq>>
    /\ StepsLeft' <= StepsLeft
    /\ Len(printed') + LinesLeft' <= Len(printed) + LinesLeft
    /\ Process => StepsLeft' < StepsLeft

LEMMA LastSteps ==
  ASSUME TypeInv, Process, ~keep_running
  PROVE  /\ ~keep_running' /\ UNCHANGED <<on_wire, seq>> /\ StepsLeft' < StepsLeft
         /\ Len(printed') + LinesLeft' <= Len(printed) + LinesLeft
<1> USE DEF StepsLeft, LinesLeft, InHop
<1>n. Len(printed) \in Nat
  BY DEF TypeInv, TypeOK
<1>1. CASE \/ RunEnds \/ VolleyEnds \/ WaitEnds \/ PollPrepared \/ TimeRunsOut \/ PollBegins
           \/ PollTimesOut
  <2>1. /\ UNCHANGED <<keep_running, on_wire, seq, printed>>
        /\ \/ pc = "hop" /\ pc' = "done"
           \/ pc = "volley" /\ pc' = "wait"
           \/ pc = "wait" /\ pc' = "print"
           \/ pc = "timeout" /\ pc' = "call"
           \/ pc = "timeout" /\ pc' = "print"
           \/ pc = "call" /\ pc' = "poll"
           \/ pc = "poll" /\ pc' = "wait"
    BY <1>1 DEF RunEnds, VolleyEnds, WaitEnds, PollPrepared, TimeRunsOut, PollBegins, PollTimesOut,
                net, volley
  <2> QED BY <2>1, <1>n
<1>2. CASE Receive
  <2>1. pc = "poll" /\ pc' = "wait" /\ UNCHANGED <<keep_running, on_wire, seq, printed>>
    BY <1>2 DEF Receive, volley
  <2> QED BY <2>1, <1>n
<1>3. CASE PrintHop
  <2>1. pc = "print" /\ pc' = "hop" /\ UNCHANGED <<keep_running, on_wire, seq>>
        /\ printed' = Append(printed, ttl)
    BY <1>3 DEF PrintHop, net
  <2>2. Len(printed') = Len(printed) + 1
    BY <2>1 DEF TypeInv, TypeOK
  <2> QED BY <2>1, <2>2, <1>n
<1>4. ~(HopBegin \/ SendProbe \/ WaitMore)
  BY DEF HopBegin, GoesOn, SendProbe, MoreToSend, WaitMore, StillWaiting
<1> QED BY <1>1, <1>2, <1>3, <1>4 DEF Process

(* Whenever the signal comes - in the middle of a volley, between the loop *)
(* test and poll() - traceroute acts on it within six steps, one of which  *)
(* may be waiting in poll(); the hop under way is printed with what is     *)
(* known.                                                                  *)
THEOREM SignalIsHeeded == Spec => [][WindsDown]_vars
<1>1. TypeInv /\ [Next]_vars => [WindsDown]_vars
  <2> SUFFICES ASSUME TypeInv, Next, ~keep_running
               PROVE  WindsDown
    BY DEF WindsDown
  <2>n. StepsLeft \in Nat
    BY DEF StepsLeft
  <2>1. CASE Process
    <3>1. StepsLeft' \in Nat
      BY DEF StepsLeft
    <3> QED BY <2>1, <2>n, <3>1, LastSteps DEF WindsDown
  <2>2. CASE ~Process /\ ~HandleSigint
    <3>1. UNCHANGED <<pc, keep_running, on_wire, seq, printed>>
      BY <2>2 DEF Next, Tick, ArriveAnswer, ArriveForeign, Enqueue, Terminated, vars, volley, net
    <3>2. StepsLeft' = StepsLeft /\ LinesLeft' = LinesLeft /\ Len(printed') = Len(printed)
      BY <3>1 DEF StepsLeft, LinesLeft, InHop
    <3>3. Len(printed) \in Nat /\ LinesLeft \in Nat
      BY DEF TypeInv, TypeOK, LinesLeft
    <3> QED BY <2>2, <2>n, <3>1, <3>2, <3>3 DEF WindsDown
  <2> QED BY <2>1, <2>2 DEF HandleSigint
<1> QED BY <1>1, TypeInit, TypeStep, PTL DEF Spec

-------------------------------------------------------------------------------
(* The search does not go round in circles.                                *)

HopsLeft == IF ttl <= MaxTtl THEN MaxTtl + 1 - ttl ELSE 0

Phase ==
  CASE pc = "done" -> 0 [] pc = "print" -> 1 [] pc \in {"wait", "timeout", "call", "poll"} -> 2
    [] pc = "volley" -> 3 [] OTHER -> 4

(* How many packets may still be read; how often the receiving loop may     *)
(* still turn, at each of its four points.                                 *)
PacketsLeft == config.max_arrivals - arrivals + Len(sockbuf)
TurnsLeft(due) == IF keep_running THEN Turns(global_wait_until - due) ELSE 0
WaitLeft ==
  CASE pc = "timeout" -> IF TurnsLeft(clock) > 0 THEN 4 * TurnsLeft(clock) - 1 ELSE 3
    [] pc = "call"    -> 4 * TurnsLeft(poll_until) + 2
    [] pc = "poll"    -> 4 * TurnsLeft(poll_until) + 1
    [] OTHER          -> 4 * TurnsLeft(clock)

Measure == <<HopsLeft, Phase, Queries - probe, PacketsLeft, WaitLeft>>

(* Every step of the process lowers the measure, and nothing that happens  *)
(* outside raises it.                                                      *)
Advances ==
  /\ Process => Lower(Measure', Measure)
  /\ Measure' = Measure \/ Lower(Measure', Measure)

LEMMA TurnsLeftFacts ==
  ASSUME global_wait_until \in Nat, NEW due \in Int
  PROVE  TurnsLeft(due) \in 0 .. 2
<1>1. global_wait_until - due \in Int
  OBVIOUS
<1>2. Turns(global_wait_until - due) \in 0 .. 2
  BY <1>1, TurnsOrder
<1> QED BY <1>2 DEF TurnsLeft

LEMMA LaterTurns ==
  ASSUME NEW due \in Int, NEW from \in Int, NEW to \in Int, to >= from
  PROVE  /\ Turns(due - from) \in 0 .. 2 /\ Turns(due - to) \in 0 .. 2
         /\ Turns(due - to) <= Turns(due - from)
<1>1. due - from \in Int /\ due - to \in Int /\ due - to <= due - from /\ due - from <= due - from
  OBVIOUS
<1> QED BY <1>1, TurnsOrder

(* WaitLeft of a state that the loop is in at the given point. *)
WaitAt(at, a, b) ==
  CASE at = "timeout" -> IF a > 0 THEN 4 * a - 1 ELSE 3
    [] at = "call"    -> 4 * b + 2
    [] at = "poll"    -> 4 * b + 1
    [] OTHER          -> 4 * a

LEMMA WaitLeftIs ==
  /\ WaitLeft  = WaitAt(pc, TurnsLeft(clock), TurnsLeft(poll_until))
  /\ WaitLeft' = WaitAt(pc', TurnsLeft(clock)', TurnsLeft(poll_until)')
BY DEF WaitLeft, WaitAt

LEMMA WaitAtFalls ==
  ASSUME NEW at, NEW at2, NEW a \in 0 .. 2, NEW b \in 0 .. 2, NEW a2 \in 0 .. 2, NEW b2 \in 0 .. 2,
         \/ at = "wait"    /\ at2 = "timeout" /\ a > 0 /\ a2 = a
         \/ at = "timeout" /\ at2 = "call"    /\ (a > b2 \/ (a = 0 /\ b2 = 0))
         \/ at = "call"    /\ at2 = "poll"    /\ b2 = b
         \/ at = "poll"    /\ at2 = "wait"    /\ a2 <= b
  PROVE  WaitAt(at2, a2, b2) < WaitAt(at, a, b)
<1>1. CASE at = "wait"    /\ at2 = "timeout" /\ a > 0 /\ a2 = a
  BY <1>1 DEF WaitAt
<1>2. CASE at = "timeout" /\ at2 = "call"    /\ (a > b2 \/ (a = 0 /\ b2 = 0))
  BY <1>2 DEF WaitAt
<1>3. CASE at = "call"    /\ at2 = "poll"    /\ b2 = b
  BY <1>3 DEF WaitAt
<1>4. CASE at = "poll"    /\ at2 = "wait"    /\ a2 <= b
  BY <1>4 DEF WaitAt
<1> QED BY <1>1, <1>2, <1>3, <1>4

LEMMA WaitAtKeeps ==
  ASSUME NEW at, NEW at2, NEW a \in 0 .. 2, NEW b \in 0 .. 2, NEW a2 \in 0 .. 2, NEW b2 \in 0 .. 2,
         a2 <= a, b2 <= b,
         at2 = at \/ (at = "poll" /\ at2 = "wait" /\ a2 = 0)
  PROVE  /\ WaitAt(at, a, b) \in Nat /\ WaitAt(at2, a2, b2) \in Nat
         /\ WaitAt(at2, a2, b2) <= WaitAt(at, a, b)
<1>1. CASE at2 = at
  <2>1. CASE at = "timeout"
    BY <1>1, <2>1 DEF WaitAt
  <2>2. CASE at = "call"
    BY <1>1, <2>2 DEF WaitAt
  <2>3. CASE at = "poll"
    BY <1>1, <2>3 DEF WaitAt
  <2>4. CASE at \notin {"timeout", "call", "poll"}
    BY <1>1, <2>4 DEF WaitAt
  <2> QED BY <2>1, <2>2, <2>3, <2>4
<1>2. CASE at = "poll" /\ at2 = "wait" /\ a2 = 0
  BY <1>2 DEF WaitAt
<1> QED BY <1>1, <1>2

LEMMA MeasureIsNatural == ASSUME TypeInv PROVE \A k \in 1 .. 5 : Measure[k] \in Nat
<1>1. HopsLeft \in Nat /\ Phase \in Nat /\ Queries - probe \in Nat
  <2>1. /\ ttl \in Nat /\ MaxTtl \in Nat /\ Queries \in Nat /\ probe \in 0 .. Queries
    BY ConstantTypes DEF TypeInv, TypeOK
  <2>2. HopsLeft \in Nat /\ Queries - probe \in Nat
    BY <2>1 DEF HopsLeft
  <2>3. Phase \in Nat
    BY DEF Phase
  <2> QED BY <2>2, <2>3
<1>2. PacketsLeft \in Nat
  <2>1. /\ config.max_arrivals \in Nat /\ arrivals \in 0 .. config.max_arrivals
        /\ Len(sockbuf) \in Nat
    BY ConfigTypes DEF TypeInv, TypeOK
  <2> QED BY <2>1 DEF PacketsLeft
<1>3. WaitLeft \in Nat
  <2>1. TurnsLeft(clock) \in 0 .. 2 /\ TurnsLeft(poll_until) \in 0 .. 2
    BY TurnsLeftFacts DEF TypeInv, TypeOK
  <2> DEFINE a == TurnsLeft(clock)
             b == TurnsLeft(poll_until)
  <2>2. WaitLeft = CASE pc = "timeout" -> IF a > 0 THEN 4 * a - 1 ELSE 3
                     [] pc = "call"    -> 4 * b + 2
                     [] pc = "poll"    -> 4 * b + 1
                     [] OTHER          -> 4 * a
    BY DEF WaitLeft
  <2>3. a \in 0 .. 2 /\ b \in 0 .. 2
    BY <2>1
  <2> HIDE DEF a, b
  <2> QED BY <2>2, <2>3
<1> QED BY <1>1, <1>2, <1>3 DEF Measure

LEMMA Lowered ==
  ASSUME \/ HopsLeft' < HopsLeft
         \/ HopsLeft' = HopsLeft /\ Phase' < Phase
         \/ HopsLeft' = HopsLeft /\ Phase' = Phase /\ (Queries - probe)' < Queries - probe
         \/ /\ HopsLeft' = HopsLeft /\ Phase' = Phase /\ (Queries - probe)' = Queries - probe
            /\ PacketsLeft' < PacketsLeft
         \/ /\ HopsLeft' = HopsLeft /\ Phase' = Phase /\ (Queries - probe)' = Queries - probe
            /\ PacketsLeft' = PacketsLeft /\ WaitLeft' < WaitLeft
  PROVE  Lower(Measure', Measure)
<1> DEFINE a1 == HopsLeft'
           a2 == Phase'
           a3 == (Queries - probe)'
           a4 == PacketsLeft'
           a5 == WaitLeft'
           b1 == HopsLeft
           b2 == Phase
           b3 == Queries - probe
           b4 == PacketsLeft
           b5 == WaitLeft
<1>1. /\ Measure' = <<a1, a2, a3, a4, a5>> /\ Measure = <<b1, b2, b3, b4, b5>>
      /\ \/ a1 < b1
         \/ a1 = b1 /\ a2 < b2
         \/ a1 = b1 /\ a2 = b2 /\ a3 < b3
         \/ a1 = b1 /\ a2 = b2 /\ a3 = b3 /\ a4 < b4
         \/ a1 = b1 /\ a2 = b2 /\ a3 = b3 /\ a4 = b4 /\ a5 < b5
  BY DEF Measure
<1> HIDE DEF a1, a2, a3, a4, a5, b1, b2, b3, b4, b5
<1> QED BY <1>1, LowerFive

LEMMA ProcessLowers ==
  ASSUME MaxTtl < TtlMod - 1, TypeInv, OrderInv, Process
  PROVE  Lower(Measure', Measure)
<1>t. /\ ttl \in Nat /\ MaxTtl \in Nat /\ clock \in Nat /\ probe \in Nat /\ Queries \in Nat
      /\ global_wait_until \in Nat /\ poll_until \in Int
  BY ConstantTypes DEF TypeInv, TypeOK
<1>w. /\ TurnsLeft(clock) \in 0 .. 2 /\ TurnsLeft(poll_until) \in 0 .. 2
      /\ TurnsLeft(clock)' \in 0 .. 2 /\ TurnsLeft(poll_until)' \in 0 .. 2
  <2>1. TypeInv'
    BY TypeStep DEF Next
  <2>2. global_wait_until' \in Nat /\ clock' \in Int /\ poll_until' \in Int
    BY <2>1 DEF TypeInv, TypeOK
  <2>3. Turns(global_wait_until' - clock') \in 0 .. 2 /\ Turns(global_wait_until' - poll_until') \in 0 .. 2
    <3>1. global_wait_until' - clock' \in Int /\ global_wait_until' - poll_until' \in Int
      BY <2>2
    <3> QED BY <3>1, TurnsOrder
  <2>4. TurnsLeft(clock)' \in 0 .. 2 /\ TurnsLeft(poll_until)' \in 0 .. 2
    BY <2>3 DEF TurnsLeft
  <2> QED BY <1>t, <2>4, TurnsLeftFacts
<1>1. CASE HopBegin \/ RunEnds \/ VolleyEnds \/ WaitEnds \/ TimeRunsOut
  <2>1. /\ ttl' = ttl
        /\ \/ pc = "hop" /\ pc' = "volley"
           \/ pc = "hop" /\ pc' = "done"
           \/ pc = "volley" /\ pc' = "wait"
           \/ pc = "wait" /\ pc' = "print"
           \/ pc = "timeout" /\ pc' = "print"
    BY <1>1 DEF HopBegin, RunEnds, VolleyEnds, WaitEnds, TimeRunsOut, volley
  <2>2. HopsLeft' = HopsLeft /\ Phase' < Phase
    BY <2>1 DEF HopsLeft, Phase
  <2> QED BY <2>2, Lowered
<1>2. CASE SendProbe
  <2>1. ttl' = ttl /\ pc' = pc /\ probe' = probe + 1
    BY <1>2 DEF SendProbe
  <2>2. HopsLeft' = HopsLeft /\ Phase' = Phase /\ (Queries - probe)' < Queries - probe
    BY <2>1, <1>t DEF HopsLeft, Phase
  <2> QED BY <2>2, Lowered
<1>3. CASE PrintHop
  <2>1. ttl <= MaxTtl /\ ttl' = ttl + 1
    BY <1>3, <1>t, NextTtlFacts, ConstantTypes DEF PrintHop, TypeInv, TypeOK, OrderInv, InHop
  <2>2. HopsLeft' < HopsLeft
    BY <2>1, <1>t DEF HopsLeft
  <2> QED BY <2>2, Lowered
<1>4. CASE WaitMore \/ PollPrepared \/ PollBegins \/ PollTimesOut
  <2>1. /\ UNCHANGED <<config, ttl, probe, keep_running, clock, global_wait_until, arrivals, sockbuf>>
        /\ pc \in {"wait", "timeout", "call", "poll"} /\ pc' \in {"wait", "timeout", "call", "poll"}
    BY <1>4 DEF WaitMore, PollPrepared, PollBegins, PollTimesOut, volley, net
  <2>2. HopsLeft' = HopsLeft /\ Phase' = Phase /\ (Queries - probe)' = Queries - probe
    BY <2>1, <1>t DEF HopsLeft, Phase
  <2>3. PacketsLeft' = PacketsLeft
    BY <2>1 DEF PacketsLeft
  <2>c. TurnsLeft(clock)' = TurnsLeft(clock)
    BY <2>1 DEF TurnsLeft
  <2>4. /\ WaitLeft = WaitAt(pc, TurnsLeft(clock), TurnsLeft(poll_until))
        /\ WaitLeft' = WaitAt(pc', TurnsLeft(clock)', TurnsLeft(poll_until)')
    BY WaitLeftIs
  <2> DEFINE a  == TurnsLeft(clock)
             a2 == TurnsLeft(clock)'
             b  == TurnsLeft(poll_until)
             b2 == TurnsLeft(poll_until)'
  <2>5. \/ pc = "wait"    /\ pc' = "timeout" /\ a > 0 /\ a2 = a
        \/ pc = "timeout" /\ pc' = "call"    /\ (a > b2 \/ (a = 0 /\ b2 = 0))
        \/ pc = "call"    /\ pc' = "poll"    /\ b2 = b
        \/ pc = "poll"    /\ pc' = "wait"    /\ a2 <= b
    <3>1. CASE WaitMore
      <4>1. pc = "wait" /\ pc' = "timeout" /\ keep_running /\ clock < global_wait_until
        BY <3>1 DEF WaitMore, StillWaiting
      <4>2. Turns(global_wait_until - clock) > 0
        <5>1. global_wait_until - clock \in Int /\ global_wait_until - clock > 0
          BY <1>t, <4>1
        <5> QED BY <5>1, NsPerMsAssumption DEF Turns
      <4> QED BY <2>c, <4>1, <4>2 DEF TurnsLeft
    <3>2. CASE PollPrepared
      <4>1. /\ pc = "timeout" /\ pc' = "call" /\ clock < global_wait_until
            /\ poll_until' = clock + TimeoutMs(global_wait_until - clock) * NsPerMs
        BY <3>2 DEF PollPrepared, TimeIsLeft
      <4>2. /\ global_wait_until - clock \in Int /\ global_wait_until - clock > 0
        BY <1>t, <4>1
      <4>3. poll_until' = PollUntil(clock, RoundedMs(global_wait_until - clock))
        <5>1. RoundedMs(global_wait_until - clock) \in Int /\ RoundedMs(global_wait_until - clock) >= 1
          BY <4>2, RoundedMsFacts
        <5>2. TimeoutMs(global_wait_until - clock) = RoundedMs(global_wait_until - clock)
          BY <4>2, TimeoutFacts
        <5>3. ~(RoundedMs(global_wait_until - clock) < 0)
          BY <5>1
        <5> QED BY <4>1, <5>2, <5>3 DEF PollUntil
      <4>4. Turns(global_wait_until - poll_until') < Turns(global_wait_until - clock)
        BY <1>t, <4>1, <4>3, TurnsPass
      <4>5. CASE keep_running
        BY <2>1, <4>1, <4>4, <4>5 DEF TurnsLeft
      <4>6. CASE ~keep_running
        BY <2>1, <4>1, <4>6 DEF TurnsLeft
      <4> QED BY <4>5, <4>6
    <3>3. CASE PollBegins
      <4>1. pc = "call" /\ pc' = "poll" /\ poll_until' = poll_until
        BY <3>3 DEF PollBegins
      <4> QED BY <2>1, <4>1 DEF TurnsLeft
    <3>4. CASE PollTimesOut
      <4>1. pc = "poll" /\ pc' = "wait" /\ clock >= poll_until
        BY <3>4 DEF PollTimesOut
      <4>2. /\ Turns(global_wait_until - clock) <= Turns(global_wait_until - poll_until)
        <5>1. /\ global_wait_until - poll_until \in Int /\ global_wait_until - clock \in Int
              /\ global_wait_until - clock <= global_wait_until - poll_until
          BY <4>1, <1>t
        <5> QED BY <5>1, TurnsOrder
      <4>3. TurnsLeft(clock) <= TurnsLeft(poll_until)
        BY <4>2 DEF TurnsLeft
      <4> QED BY <2>c, <4>1, <4>3
    <3> QED BY <1>4, <3>1, <3>2, <3>3, <3>4
  <2>6. a \in 0 .. 2 /\ b \in 0 .. 2 /\ a2 \in 0 .. 2 /\ b2 \in 0 .. 2
    BY <1>w
  <2>7. WaitLeft = WaitAt(pc, a, b) /\ WaitLeft' = WaitAt(pc', a2, b2)
    BY <2>4
  <2> HIDE DEF a, b, a2, b2
  <2>8. WaitAt(pc', a2, b2) < WaitAt(pc, a, b)
    BY <2>5, <2>6, WaitAtFalls
  <2>9. WaitLeft' < WaitLeft
    BY <2>7, <2>8
  <2> QED BY <2>2, <2>3, <2>9, Lowered
<1>5. CASE Receive
  <2>1. /\ UNCHANGED <<config, ttl, probe, arrivals>>
        /\ pc \in {"wait", "poll"} /\ pc' \in {"wait", "poll"}
    BY <1>5 DEF Receive, volley
  <2>2. HopsLeft' = HopsLeft /\ Phase' = Phase /\ (Queries - probe)' = Queries - probe
    BY <2>1, <1>t DEF HopsLeft, Phase
  <2>3. sockbuf # <<>> /\ sockbuf' = Tail(sockbuf) /\ sockbuf \in Seq(Packet)
    BY <1>5 DEF Receive, TypeInv
  <2>4. Len(sockbuf') = Len(sockbuf) - 1 /\ Len(sockbuf) \in Nat
    BY <2>3
  <2>5. config.max_arrivals \in Nat /\ arrivals \in Nat
    BY ConfigTypes DEF TypeInv, TypeOK
  <2>6. PacketsLeft' < PacketsLeft
    BY <2>1, <2>4, <2>5 DEF PacketsLeft
  <2> QED BY <2>2, <2>6, Lowered
<1> QED BY <1>1, <1>2, <1>3, <1>4, <1>5 DEF Process

LEMMA WorldKeepsMeasure ==
  ASSUME TypeInv, HandleSigint \/ Tick \/ ArriveAnswer \/ ArriveForeign \/ Terminated
  PROVE  Measure' = Measure \/ Lower(Measure', Measure)
<1>t. clock \in Nat /\ global_wait_until \in Nat /\ poll_until \in Int
  BY DEF TypeInv, TypeOK
<1>1. CASE HandleSigint \/ Tick
  <2>1. /\ UNCHANGED <<config, ttl, probe, global_wait_until, arrivals, sockbuf>>
        /\ clock' = clock \/ clock' = clock + 1
        /\ poll_until' = poll_until \/ poll_until' = poll_until + (clock' - clock)
        /\ \/ UNCHANGED <<pc, keep_running>>
           \/ /\ keep_running /\ ~keep_running' /\ clock' = clock
              /\ pc' = IF pc = "poll" THEN "wait" ELSE pc
    BY <1>1 DEF HandleSigint, Tick, volley, net
  <2>2. HopsLeft' = HopsLeft /\ (Queries - probe)' = Queries - probe /\ PacketsLeft' = PacketsLeft
    BY <2>1 DEF HopsLeft, PacketsLeft
  <2>3. Phase' = Phase
    BY <2>1 DEF Phase
  <2>4. /\ clock' \in Int /\ clock' >= clock
        /\ poll_until' \in Int /\ poll_until' >= poll_until
    <3>1. CASE clock' = clock
      BY <1>t, <2>1, <3>1
    <3>2. CASE clock' = clock + 1
      BY <1>t, <2>1, <3>2
    <3> QED BY <2>1, <3>1, <3>2
  <2>5. /\ Turns(global_wait_until - clock') \in 0 .. 2
        /\ Turns(global_wait_until - poll_until') \in 0 .. 2
        /\ Turns(global_wait_until - clock) \in 0 .. 2
        /\ Turns(global_wait_until - poll_until) \in 0 .. 2
        /\ Turns(global_wait_until - clock') <= Turns(global_wait_until - clock)
        /\ Turns(global_wait_until - poll_until') <= Turns(global_wait_until - poll_until)
    <3>1. /\ global_wait_until \in Int /\ clock \in Int /\ poll_until \in Int
          /\ clock' \in Int /\ poll_until' \in Int
      BY <1>t, <2>4
    <3> QED BY <2>4, <3>1, LaterTurns
  <2> DEFINE a  == TurnsLeft(clock)
             a2 == TurnsLeft(clock)'
             b  == TurnsLeft(poll_until)
             b2 == TurnsLeft(poll_until)'
  <2>6. /\ a \in 0 .. 2 /\ b \in 0 .. 2 /\ a2 \in 0 .. 2 /\ b2 \in 0 .. 2 /\ a2 <= a /\ b2 <= b
        /\ ~keep_running' => a2 = 0
    <3>1. /\ a = IF keep_running THEN Turns(global_wait_until - clock) ELSE 0
          /\ a2 = IF keep_running' THEN Turns(global_wait_until - clock') ELSE 0
          /\ b = IF keep_running THEN Turns(global_wait_until - poll_until) ELSE 0
          /\ b2 = IF keep_running' THEN Turns(global_wait_until - poll_until') ELSE 0
      BY <2>1 DEF TurnsLeft
    <3>2. keep_running' => keep_running
      BY <2>1
    <3> HIDE DEF a, b, a2, b2
    <3>3. CASE keep_running'
      BY <2>5, <3>1, <3>2, <3>3
    <3>4. CASE ~keep_running'
      BY <2>5, <3>1, <3>4
    <3> QED BY <3>3, <3>4
  <2>7. WaitLeft = WaitAt(pc, a, b) /\ WaitLeft' = WaitAt(pc', a2, b2)
    BY WaitLeftIs
  <2>8. pc' = pc \/ (pc = "poll" /\ pc' = "wait" /\ a2 = 0)
    BY <2>1, <2>6
  <2> HIDE DEF a, b, a2, b2
  <2>9. WaitLeft \in Nat /\ WaitLeft' \in Nat /\ WaitLeft' <= WaitLeft
    BY <2>6, <2>7, <2>8, WaitAtKeeps
  <2>10. CASE WaitLeft' = WaitLeft
    BY <2>2, <2>3, <2>10 DEF Measure
  <2>11. CASE WaitLeft' < WaitLeft
    BY <2>2, <2>3, <2>11, Lowered
  <2> QED BY <2>9, <2>10, <2>11
<1>2. CASE ArriveAnswer \/ ArriveForeign
  <2>1. PICK p : Enqueue(p)
    BY <1>2 DEF ArriveAnswer, ArriveForeign
  <2>2. /\ sockbuf' = Append(sockbuf, p) /\ arrivals' = arrivals + 1 /\ sockbuf \in Seq(Packet)
        /\ UNCHANGED <<config, pc, keep_running, ttl, probe, global_wait_until, poll_until, clock>>
    BY <2>1 DEF Enqueue, volley, TypeInv
  <2>3. Len(sockbuf') = Len(sockbuf) + 1 /\ Len(sockbuf) \in Nat
    BY <2>2
  <2>4. PacketsLeft' = PacketsLeft
    <3>1. config.max_arrivals \in Nat /\ arrivals \in Nat
      BY ConfigTypes DEF TypeInv, TypeOK
    <3>2. /\ PacketsLeft = config.max_arrivals - arrivals + Len(sockbuf)
          /\ PacketsLeft' = config.max_arrivals - arrivals' + Len(sockbuf')
      BY <2>2 DEF PacketsLeft
    <3> DEFINE m == config.max_arrivals
               n == Len(sockbuf)
               n2 == Len(sockbuf')
    <3>3. /\ m \in Nat /\ n \in Nat /\ n2 = n + 1 /\ arrivals \in Nat /\ arrivals' = arrivals + 1
          /\ PacketsLeft = m - arrivals + n /\ PacketsLeft' = m - arrivals' + n2
      BY <2>2, <2>3, <3>1, <3>2
    <3> HIDE DEF m, n, n2
    <3>4. PacketsLeft' = m - (arrivals + 1) + (n + 1)
      BY <3>3
    <3> QED BY <3>3, <3>4
  <2>5. HopsLeft' = HopsLeft /\ Phase' = Phase /\ WaitLeft' = WaitLeft
        /\ (Queries - probe)' = Queries - probe
    BY <2>2 DEF HopsLeft, Phase, WaitLeft, TurnsLeft
  <2> QED BY <2>4, <2>5 DEF Measure
<1>3. CASE Terminated
  <2>1. UNCHANGED <<config, pc, keep_running, ttl, probe, global_wait_until, poll_until, clock,
                    arrivals, sockbuf>>
    BY <1>3 DEF Terminated, vars, volley, net
  <2> QED BY <2>1 DEF Measure, HopsLeft, Phase, PacketsLeft, WaitLeft, TurnsLeft
<1> QED BY <1>1, <1>2, <1>3

(* With -m below 255 the search never goes round in circles: every step of *)
(* the process lowers a tuple of natural numbers - hops left, phase of the *)
(* hop, probes left to send, packets left to read, turns of waiting left - *)
(* and neither time nor packets nor signals raise it.  So poll() gives up  *)
(* at most twice for a hop beside the packets it wakes up for.             *)
THEOREM SearchAdvances ==
  ASSUME MaxTtl < TtlMod - 1
  PROVE  Spec => [](\A k \in 1 .. 5 : Measure[k] \in Nat) /\ [][Advances]_vars
<1>1. TypeInv /\ OrderInv /\ [Next]_vars => [Advances]_vars
  <2> SUFFICES ASSUME TypeInv, OrderInv, Next
               PROVE  Advances
    OBVIOUS
  <2> QED BY ProcessLowers, WorldKeepsMeasure DEF Next, Advances
<1>2. TypeInv => \A k \in 1 .. 5 : Measure[k] \in Nat
  BY MeasureIsNatural
<1> QED BY <1>1, <1>2, TypeInit, TypeStep, OrderInit, OrderStep, PTL DEF Spec

===============================================================================
