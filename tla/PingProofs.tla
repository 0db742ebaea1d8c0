------------------------------- MODULE PingProofs -------------------------------
(****************************************************************************)
(* Proofs about Ping, for every number of slots, every -c, -W, -i and -w,   *)
(* and every delay, loss, duplication and reordering of packets: its types, *)
(* the two halves of its accounting, that the slots are enough, what        *)
(* another process of the same id may do to it, the timeouts of poll(), the *)
(* statistics, that a run is a ProbeLedger, that a signal is heeded, and    *)
(* that the loop does not spin.                                             *)
(****************************************************************************)
EXTENDS Ping, ProbeWindowProofs, FiniteSetTheorems, TLAPS

-------------------------------------------------------------------------------
(* Which probe a slot belongs to.                                          *)

LEMMA OwnerFacts ==
  ASSUME seq \in Slot, sent \in Nat
  PROVE  /\ \A s \in Slot : Owner(s) \in Int /\ Owner(s) <= sent
         /\ \A s \in Slot : Owner(s) >= sent + 1 - SeqMod
         /\ \A s \in Slot : Owner(s) = sent + 1 - SeqMod <=> s = seq
         /\ \A s, t \in Slot : Owner(s) = Owner(t) => s = t
BY SeqModAssumption DEF Slot, Owner, Age, Dist

(* Sending hands one slot to the new probe and leaves the others alone.    *)
LEMMA OwnerAfterSend ==
  ASSUME seq \in Slot, sent \in Nat, seq' = Succ(seq), sent' = sent + 1
  PROVE  \A s \in Slot : Owner(s)' = IF s = seq THEN sent + 1 ELSE Owner(s)
BY SeqModAssumption DEF Slot, Owner, Age, Dist, Succ

LEMMA OwnerInWindow ==
  ASSUME seq \in Slot, sent \in Nat, NEW head \in Slot, Dist(head, seq) <= sent
  PROVE  \A s \in Window(head, seq) : Owner(s) >= 1
BY SeqModAssumption DEF Slot, Owner, Age, Dist, Window

LEMMA OwnerOnto ==
  ASSUME seq \in Slot, sent \in Nat, NEW p \in 1 .. sent, p > sent - SeqMod
  PROVE  \E s \in Slot : Owner(s) = p
<1>1. CASE p = sent + 1 - SeqMod
  BY <1>1 DEF Owner, Age
<1>2. CASE p # sent + 1 - SeqMod
  <2>1. sent + 1 - p \in 1 .. SeqMod - 1
    BY <1>2, SeqModAssumption
  <2>2. PICK s \in Slot : s # seq /\ Dist(s, seq) = sent + 1 - p
    BY <2>1, SlotBefore
  <2> QED BY <2>2, SeqModAssumption DEF Owner, Age, Slot
<1> QED BY <1>1, <1>2

-------------------------------------------------------------------------------
(* Type correctness.  That only probes that were sent are filed needs the  *)
(* relation between a slot's send time and its owner.                      *)

SlotsInUse ==
  /\ \A s \in Slot : sent_times[s] > 0 <=> Owner(s) >= 1
  /\ \A s \in Slot : sent_times[s] <= clock
  /\ Dist(next_timeout_check_seq, seq) <= sent

TypeInv == TypeOK /\ SlotsInUse

LEMMA StatsType ==
  ASSUME NEW st \in Stats, NEW rtt \in Nat
  PROVE  UpdateStats(st, rtt) \in Stats
<1> DEFINE us == rtt \div NsPerUs
<1>1. us \in Nat
  BY NsPerUsAssumption
<1>2. us * us \in Nat
  <2> HIDE DEF us
  <2> QED BY <1>1
<1>3. st.sum_us + us \in Nat /\ st.sum_squares_us + us * us \in Nat
  <2> HIDE DEF us
  <2> QED BY <1>1, <1>2 DEF Stats
<1>4. st.min \in Nat /\ st.max \in Nat /\ st.sum + rtt \in Nat
  BY DEF Stats
<1> HIDE DEF us
<1>5. UpdateStats(st, rtt) =
       [min |-> IF st.min = 0 \/ rtt < st.min THEN rtt ELSE st.min,
        max |-> IF rtt > st.max THEN rtt ELSE st.max,
        sum |-> st.sum + rtt, sum_us |-> st.sum_us + us,
        sum_squares_us |-> st.sum_squares_us + us * us, last |-> rtt]
  BY DEF UpdateStats, us
<1> QED BY <1>3, <1>4, <1>5 DEF Stats

LEMMA PollUntilType ==
  ASSUME NEW now \in Nat, NEW maySend \in BOOLEAN, NEW next \in Int, NEW expiry \in Int
  PROVE  PollUntil(now, ClampToDeadline(WaitMs(now, maySend, next, expiry), now))
           \in Nat \cup {Forever}
<1>1. WaitMs(now, maySend, next, expiry) \in Int
  BY NsPerMsAssumption DEF WaitMs, RoundedMs
<1>2. ASSUME NEW ms \in Int PROVE ClampToDeadline(ms, now) \in Int
  BY NsPerMsAssumption, CountAssumption DEF ClampToDeadline, Forever, StartTime
<1>3. ASSUME NEW ms \in Int PROVE PollUntil(now, ms) \in Nat \cup {Forever}
  <2>1. ms * NsPerMs \in Int /\ (ms >= 0 => ms * NsPerMs >= 0)
    BY NsPerMsAssumption
  <2> QED BY <2>1 DEF PollUntil
<1> QED BY <1>1, <1>2, <1>3

LEMMA TypeInit == Init => TypeInv
<1> SUFFICES ASSUME Init PROVE TypeInv
  OBVIOUS
<1>1. TypeOK
  BY SeqModAssumption, BoundsAssumption
     DEF Init, TypeOK, Slot, Stats, NoStats, StartTime, Packet, Request
<1>2. SlotsInUse
  BY SeqModAssumption DEF Init, SlotsInUse, Owner, Age, Dist, Slot, StartTime
<1> QED BY <1>1, <1>2 DEF TypeInv

LEMMA TypeNext == TypeInv /\ [Next]_vars => TypeInv'
<1> SUFFICES ASSUME TypeInv, [Next]_vars PROVE TypeInv'
  OBVIOUS
<1>l. 0 \in 0 .. MaxLag
  BY BoundsAssumption
<1> USE <1>l, SlotFacts DEF TypeInv
<1>s. ASSUME UNCHANGED <<seq, sent, next_timeout_check_seq, sent_times>>
      PROVE  clock' \in Nat /\ clock' >= clock => SlotsInUse'
  BY <1>s DEF TypeOK, SlotsInUse, Owner, Age
<1>k. ASSUME TypeOK', UNCHANGED <<seq, sent, next_timeout_check_seq, sent_times, clock>>
      PROVE  TypeInv'
  <2>1. clock \in Nat
    BY DEF TypeOK
  <2>2. clock' \in Nat /\ clock' >= clock
    BY <1>k, <2>1
  <2> QED BY <1>k, <1>s, <2>2
<1>1. CASE HeadExit
  <2>a. /\ pc' = "done" /\ exit_by' \in {"signal", "deadline"} /\ lag' = 0
        /\ UNCHANGED <<keep_running, window, results, next_send_time, poll_until, world, history>>
    BY <1>1 DEF HeadExit, Leave
  <2>1. TypeOK'
    BY <2>a DEF TypeOK, window, results, world, history
  <2> QED BY <2>a, <1>k, <2>1 DEF window, world
<1>2. CASE HeadSend
  <2>1. NextSend(clock, stats.last) \in Nat
    <3>1. clock \in Nat /\ stats.last \in Nat
      BY DEF TypeOK, Stats
    <3>2. 2 * NsPerMs \in Nat /\ Interval \in Nat
      BY NsPerMsAssumption, TimesAssumption
    <3> QED BY <3>1, <3>2 DEF NextSend
  <2>2. [probe |-> sent + 1, seq |-> seq, at |-> clock] \in Request
    BY DEF TypeOK, Request
  <2>3. on_wire' \subseteq Request
    BY <1>2, <2>2 DEF TypeOK, HeadSend
  <2>4. replied_or_timeout' \in [Slot -> BOOLEAN] /\ sent_times' \in [Slot -> Nat]
    BY <1>2 DEF TypeOK, HeadSend, Reopen
  <2>5. answered' \subseteq 1 .. sent' /\ expired' \subseteq 1 .. sent'
    BY <1>2 DEF TypeOK, HeadSend, history
  <2>6. TypeOK'
    <3>1. /\ pc' = "sweep" /\ lag' = 0 /\ seq' = Succ(seq) /\ sent' = sent + 1
          /\ next_send_time' = NextSend(clock, stats.last)
          /\ UNCHANGED <<exit_by, keep_running, next_timeout_check_seq, received, stats, poll_until,
                         clock, sockbuf, arrivals, heard, answered, expired, misfits>>
      BY <1>2 DEF HeadSend, results, history
    <3>2. seq' \in Slot /\ sent' \in Nat
      BY <3>1 DEF TypeOK
    <3> QED BY <2>1, <2>3, <2>4, <2>5, <3>1, <3>2 DEF TypeOK
  <2>7. seq' = Succ(seq) /\ sent' = sent + 1
    BY <1>2 DEF HeadSend
  <2>8. \A s \in Slot : Owner(s)' = IF s = seq THEN sent + 1 ELSE Owner(s)
    BY <2>7, OwnerAfterSend DEF TypeOK
  <2>9. \A s \in Slot : sent_times'[s] = IF s = seq THEN clock ELSE sent_times[s]
    <3>1. sent_times \in [Slot -> Nat] /\ sent_times' = [sent_times EXCEPT ![seq] = clock]
      BY <1>2 DEF HeadSend, TypeOK
    <3> QED BY <3>1
  <2>10. \A s \in Slot : sent_times'[s] > 0 <=> Owner(s)' >= 1
    <3>1. clock > 0 /\ sent + 1 >= 1 /\ \A s \in Slot : sent_times[s] > 0 <=> Owner(s) >= 1
      BY DEF SlotsInUse, TypeOK
    <3> QED BY <2>8, <2>9, <3>1
  <2>11. Dist(next_timeout_check_seq, seq)' <= sent'
    <3>1. next_timeout_check_seq' = next_timeout_check_seq
      BY <1>2 DEF HeadSend
    <3>2. Dist(next_timeout_check_seq, seq') <= sent + 1
      <4>1. seq \in Slot /\ next_timeout_check_seq \in Slot /\ sent \in Nat
            /\ Dist(next_timeout_check_seq, seq) <= sent
            /\ Dist(next_timeout_check_seq, seq) \in Int
        BY DEF SlotsInUse, TypeOK
      <4>2. Dist(next_timeout_check_seq, Succ(seq))
              \in {0, Dist(next_timeout_check_seq, seq) + 1}
        BY <4>1, DistToSucc
      <4> QED BY <2>7, <4>1, <4>2
    <3> QED BY <2>7, <3>1, <3>2
  <2>12. \A s \in Slot : sent_times'[s] <= clock'
    BY <1>2, <2>9 DEF HeadSend, SlotsInUse, TypeOK
  <2>13. SlotsInUse'
    BY <2>10, <2>11, <2>12 DEF SlotsInUse
  <2> QED BY <2>6, <2>13
<1>3. CASE HeadIdle
  <2>1. TypeOK'
    BY <1>3 DEF TypeOK, HeadIdle, window, results, world, history
  <2> QED BY <1>3, <1>s, <2>1 DEF TypeOK, HeadIdle, window, world
<1>4. CASE Sweep
  <2>1. PICK h \in Slot :
          /\ SweepStopsAt(next_timeout_check_seq, h, seq, replied_or_timeout,
                          sent_times, clock, Timeout)
          /\ next_timeout_check_seq' = h
          /\ replied_or_timeout' = Resolve(replied_or_timeout, Lost(h))
          /\ expired' = expired \cup {Owner(s) : s \in Lost(h)}
          /\ IF AllDone(h)
             THEN /\ pc' = "done" /\ exit_by' = "count"
                  /\ UNCHANGED poll_until
             ELSE /\ pc' = "call"
                  /\ poll_until' = PollUntil(clock,
                       ClampToDeadline(WaitMs(clock, MaySend, next_send_time,
                                              sent_times[h] + Timeout), clock))
                  /\ UNCHANGED exit_by
    BY <1>4 DEF Sweep
  <2>2. poll_until' \in Nat \cup {Forever}
    <3>1. MaySend \in BOOLEAN /\ sent_times[h] + Timeout \in Int
      BY TimesAssumption DEF MaySend, TypeOK
    <3>2. PollUntil(clock, ClampToDeadline(WaitMs(clock, MaySend, next_send_time,
                                                  sent_times[h] + Timeout), clock))
            \in Nat \cup {Forever}
      BY <3>1, PollUntilType DEF TypeOK
    <3>3. poll_until \in Nat \cup {Forever}
      BY DEF TypeOK
    <3>4. \/ poll_until' = poll_until
          \/ poll_until' = PollUntil(clock, ClampToDeadline(WaitMs(clock, MaySend, next_send_time,
                                                              sent_times[h] + Timeout), clock))
      BY <2>1
    <3> HIDE DEF TypeInv
    <3> QED BY <3>2, <3>3, <3>4, Zenon
  <2>3. h \in Window(next_timeout_check_seq, seq) \cup {seq}
    BY <2>1 DEF SweepStopsAt
  <2>4. Lost(h) \subseteq Window(next_timeout_check_seq, seq)
    BY <2>3, WindowSplits DEF Lost, TypeOK, Window
  <2>5. \A s \in Lost(h) : Owner(s) \in 1 .. sent
    BY <2>4, OwnerInWindow, OwnerFacts DEF SlotsInUse, TypeOK, Window
  <2>6. expired' \subseteq 1 .. sent
    <3>1. {Owner(s) : s \in Lost(h)} \subseteq 1 .. sent
      BY <2>5
    <3> QED BY <2>1, <3>1 DEF TypeOK
  <2>7. replied_or_timeout' \in [Slot -> BOOLEAN]
    BY <2>1 DEF TypeOK, Resolve
  <2>8. UNCHANGED <<keep_running, seq, sent, sent_times, results, next_send_time, world, answered,
                    misfits>>
        /\ lag' = 0
    BY <1>4 DEF Sweep
  <2>9. pc' \in {"done", "call"} /\ exit_by' \in {exit_by, "count"}
    BY <2>1
  <2>10. TypeOK'
    BY <2>1, <2>2, <2>6, <2>7, <2>8, <2>9 DEF TypeOK, results, world
  <2>11. Dist(h, seq) <= Dist(next_timeout_check_seq, seq)
    BY <2>3, SeqModAssumption DEF Window, Dist, Slot, TypeOK
  <2>12. SlotsInUse'
    <3>1. Dist(h, seq) <= sent
      BY <2>11 DEF SlotsInUse, TypeOK
    <3>2. \A s \in Slot : Owner(s)' = Owner(s)
      BY <2>8 DEF Owner, Age
    <3> QED BY <2>1, <2>8, <3>1, <3>2 DEF SlotsInUse, world
  <2> QED BY <2>10, <2>12
<1>5. CASE PollBegins \/ PollReturns
  <2>a. /\ pc' \in {"poll", "drain", "head"} /\ lag' = 0
        /\ UNCHANGED <<exit_by, keep_running, window, results, next_send_time, poll_until,
                       world, history>>
    BY <1>5 DEF PollBegins, PollReturns
  <2>1. TypeOK'
    BY <2>a DEF TypeOK, window, results, world, history
  <2> QED BY <2>a, <1>k, <2>1 DEF window, world
<1>t. ASSUME AtPacket
      PROVE  Tail(sockbuf) \in Seq(Packet) /\ Len(Tail(sockbuf)) <= QueueLen
             /\ Head(sockbuf) \in Packet
  BY <1>t, BoundsAssumption DEF AtPacket, TypeOK
<1>6. CASE DrainIgnore
  <2>1. TypeOK'
    BY <1>6, <1>t DEF TypeOK, DrainIgnore, window, results, history
  <2> QED BY <1>6, <1>k, <2>1 DEF DrainIgnore, window
<1>7. CASE DrainCredit
  <2> DEFINE s == Head(sockbuf).seq
  <2>1. s \in Slot
    BY <1>7, <1>t DEF DrainCredit, Packet
  <2>2. PICK rtt \in Rtts(s) : stats' = UpdateStats(stats, rtt)
    BY <1>7 DEF DrainCredit
  <2>3. rtt \in Nat
    <3>1. clock \in Nat /\ sent_times[s] \in Nat /\ sent_times[s] <= clock
      BY <2>1 DEF TypeOK, SlotsInUse
    <3> HIDE DEF s
    <3> QED BY <2>2, <3>1 DEF Rtts
  <2>4. stats' \in Stats
    BY <2>2, <2>3, StatsType DEF TypeOK
  <2>5. answered' = IF sent_times[s] > 0 THEN answered \cup {Owner(s)} ELSE answered
    BY <1>7 DEF DrainCredit
  <2>6. answered' \subseteq 1 .. sent
    <3>1. sent_times[s] > 0 => Owner(s) \in 1 .. sent
      BY <2>1, OwnerFacts DEF TypeOK, SlotsInUse
    <3> QED BY <2>5, <3>1 DEF TypeOK
  <2>7. replied_or_timeout' \in [Slot -> BOOLEAN]
    BY <1>7, <2>1 DEF DrainCredit, TypeOK
  <2>8. UNCHANGED <<pc, exit_by, keep_running, seq, sent, next_timeout_check_seq, sent_times,
                    next_send_time, poll_until, clock, on_wire, arrivals, heard, expired>>
        /\ received' = received + 1 /\ lag' = 0 /\ sockbuf' = Tail(sockbuf)
    BY <1>7 DEF DrainCredit
  <2>9. AtPacket /\ misfits' \in Nat
    BY <1>7 DEF DrainCredit, TypeOK
  <2>10. TypeOK'
    BY <1>t, <2>4, <2>6, <2>7, <2>8, <2>9 DEF TypeOK
  <2> QED BY <1>s, <2>8, <2>10 DEF TypeOK
<1>8. CASE DrainEnd
  <2>1. TypeOK'
    BY <1>8 DEF TypeOK, DrainEnd, window, results, world, history
  <2> QED BY <1>8, <1>s, <2>1 DEF TypeOK, DrainEnd, window, world
<1>9. CASE HandleSigint
  <2>1. TypeOK'
    BY <1>9 DEF TypeOK, HandleSigint, window, results, world, history
  <2> QED BY <1>9, <1>k, <2>1 DEF HandleSigint, window, world
<1>10. CASE Tick
  <2>1. /\ clock \in Nat \ {0} /\ clock' \in Nat \ {0} /\ clock' - clock \in Nat
        /\ poll_until' \in {poll_until, poll_until + (clock' - clock)}
        /\ poll_until = Forever => poll_until' = poll_until
    BY <1>10 DEF TypeOK, Tick
  <2>2. poll_until' \in Nat \cup {Forever}
    <3>1. poll_until \in Nat \cup {Forever}
      BY DEF TypeOK
    <3>2. CASE poll_until = Forever
      BY <2>1, <3>2
    <3>3. CASE poll_until \in Nat
      <4> DEFINE d == clock' - clock
      <4>1. d \in Nat /\ poll_until' \in {poll_until, poll_until + d}
        BY <2>1
      <4> HIDE DEF d
      <4>2. CASE poll_until' = poll_until
        BY <3>3, <4>2
      <4>3. CASE poll_until' = poll_until + d
        BY <3>3, <4>1, <4>3
      <4> QED BY <4>1, <4>2, <4>3
    <3> QED BY <3>1, <3>2, <3>3
  <2>3. lag' \in 0 .. MaxLag
    BY <1>10, BoundsAssumption DEF TypeOK, Tick
  <2>4. TypeOK'
    BY <1>10, <2>1, <2>2, <2>3 DEF TypeOK, Tick, window, results, history
  <2>5. UNCHANGED <<seq, sent, next_timeout_check_seq, sent_times>>
    BY <1>10 DEF Tick, window
  <2>6. clock' \in Nat /\ clock' >= clock
    <3>1. clock \in Nat
      BY DEF TypeOK
    <3>2. clock' = clock \/ clock' = clock + 1
      BY <1>10 DEF Tick
    <3> QED BY <3>1, <3>2
  <2> QED BY <1>s, <2>4, <2>5, <2>6
<1>e. ASSUME NEW p \in Packet, Enqueue(p), heard' \subseteq Nat
      PROVE  TypeInv'
  <2>1. sockbuf' \in Seq(Packet) /\ Len(sockbuf') <= QueueLen
    BY <1>e, BoundsAssumption DEF Enqueue, TypeOK
  <2>2. TypeOK'
    BY <1>e, <2>1 DEF TypeOK, Enqueue, window, results, history
  <2> QED BY <1>e, <1>k, <2>2 DEF Enqueue, window
<1>11. CASE ArriveReply
  <2>1. PICK r \in on_wire : /\ Enqueue([mine |-> TRUE, seq |-> r.seq, probe |-> r.probe])
                             /\ heard' = heard \cup {r.probe}
    BY <1>11 DEF ArriveReply
  <2>2. [mine |-> TRUE, seq |-> r.seq, probe |-> r.probe] \in Packet /\ heard' \subseteq Nat
    <3>1. r \in Request
      BY DEF TypeOK
    <3>2. r.probe \in Nat /\ r.seq \in Slot
      BY <3>1 DEF Request
    <3> QED BY <2>1, <3>2 DEF TypeOK, Packet
  <2> QED BY <1>e, <2>1, <2>2
<1>12. CASE ArriveForeign
  <2>1. Foreign \in Packet
    BY SeqModAssumption DEF Foreign, Packet, Slot
  <2> QED BY <1>e, <1>12, <2>1 DEF ArriveForeign, TypeOK
<1>13. CASE ArriveStray
  <2>1. PICK s \in StraySeqs : Enqueue([mine |-> TRUE, seq |-> s, probe |-> 0])
                               /\ UNCHANGED heard
    BY <1>13 DEF ArriveStray
  <2>2. [mine |-> TRUE, seq |-> s, probe |-> 0] \in Packet
    BY StrayAssumption DEF Packet
  <2> QED BY <1>e, <2>1, <2>2 DEF TypeOK
<1>14. CASE UNCHANGED vars
  <2>1. TypeOK'
    BY <1>14 DEF TypeOK, vars, window, results, world, history
  <2> QED BY <1>14, <1>s, <2>1 DEF TypeOK, vars, window, world
<1> QED
  BY <1>1, <1>2, <1>3, <1>4, <1>5, <1>6, <1>7, <1>8, <1>9, <1>10, <1>11, <1>12, <1>13, <1>14
     DEF Next, Process, Terminated

(* Every reachable state is well typed: in particular only probes that     *)
(* were sent are ever counted as answered or as timed out, even when slots *)
(* are reused and replies of another process come in.                      *)
THEOREM TypeCorrect == Spec => []TypeOK
<1>1. TypeInv => TypeOK
  BY DEF TypeInv
<1> QED BY TypeInit, TypeNext, <1>1, PTL DEF Spec

-------------------------------------------------------------------------------
(* No probe is filed twice, and none without being counted.                *)

FiledOnce == answered \cap expired = {}

Tally ==
  /\ IsFiniteSet(answered) /\ Cardinality(answered) <= received
  /\ StraySeqs = {} => received = Cardinality(answered)

(* A slot still open belongs to a probe that has not been filed. *)
OpenUnfiled ==
  \A s \in Slot : sent_times[s] > 0 /\ ~replied_or_timeout[s]
                  => Owner(s) \notin answered \cup expired

(* Replies are for used slots, or meant for another process. *)
Expected(s) == sent_times[s] > 0 \/ s \in StraySeqs

PacketsOurs ==
  /\ \A r \in on_wire : sent_times[r.seq] > 0
  /\ \A i \in 1 .. Len(sockbuf) : sockbuf[i].mine => Expected(sockbuf[i].seq)

ReportedInv == FiledOnce /\ Tally /\ OpenUnfiled /\ PacketsOurs

LEMMA ReportedInit == Init => ReportedInv
<1> SUFFICES ASSUME Init PROVE ReportedInv
  OBVIOUS
<1>1. FiledOnce /\ Tally
  BY FS_EmptySet DEF Init, FiledOnce, Tally
<1>2. OpenUnfiled /\ PacketsOurs
  BY DEF Init, OpenUnfiled, PacketsOurs
<1> QED BY <1>1, <1>2 DEF ReportedInv

LEMMA ReportedNext == TypeInv /\ ReportedInv /\ [Next]_vars => ReportedInv'
<1> SUFFICES ASSUME TypeInv, ReportedInv, [Next]_vars PROVE ReportedInv'
  OBVIOUS
<1> USE DEF TypeInv, ReportedInv
<1>s. ASSUME UNCHANGED <<window, results, on_wire, sockbuf, history>>
      PROVE  ReportedInv'
  BY <1>s DEF window, results, history, FiledOnce, Tally, OpenUnfiled, PacketsOurs,
              Expected, Owner, Age
<1>1. CASE HeadExit
  BY <1>1, <1>s DEF HeadExit, Leave, world
<1>2. CASE HeadSend
  <2>1. FiledOnce'
    BY <1>2 DEF HeadSend, FiledOnce, history
  <2>2. \A s \in Slot : Owner(s)' = IF s = seq THEN sent + 1 ELSE Owner(s)
    BY <1>2, OwnerAfterSend DEF HeadSend, TypeOK
  <2>3. \A s \in Slot : /\ sent_times'[s] = IF s = seq THEN clock ELSE sent_times[s]
                        /\ replied_or_timeout'[s] = IF s = seq THEN FALSE
                                                               ELSE replied_or_timeout[s]
    BY <1>2 DEF HeadSend, Reopen, TypeOK
  <2>4. sent + 1 \notin answered \cup expired
    BY DEF TypeOK
  <2>5. OpenUnfiled'
    BY <1>2, <2>2, <2>3, <2>4 DEF OpenUnfiled, HeadSend, history
  <2>t. Tally'
    BY <1>2 DEF HeadSend, history, results, Tally
  <2>k. \A s \in Slot : sent_times[s] > 0 \/ s = seq => sent_times'[s] > 0
    <3>1. clock > 0
      BY DEF TypeOK
    <3> QED BY <2>3, <3>1
  <2>6. \A r \in on_wire' : sent_times'[r.seq] > 0
    <3> SUFFICES ASSUME NEW r \in on_wire' PROVE sent_times'[r.seq] > 0
      OBVIOUS
    <3>1. CASE r \in on_wire
      <4>1. r.seq \in Slot /\ sent_times[r.seq] > 0
        BY <3>1 DEF TypeOK, Request, PacketsOurs
      <4> QED BY <2>k, <4>1
    <3>2. CASE r = [probe |-> sent + 1, seq |-> seq, at |-> clock]
      <4>1. r.seq = seq /\ seq \in Slot
        BY <3>2 DEF TypeOK
      <4> QED BY <2>k, <4>1
    <3> QED BY <1>2, <3>1, <3>2 DEF HeadSend
  <2>7. \A i \in 1 .. Len(sockbuf) :
          sockbuf[i].mine => sent_times'[sockbuf[i].seq] > 0 \/ sockbuf[i].seq \in StraySeqs
    <3> SUFFICES ASSUME NEW i \in 1 .. Len(sockbuf), sockbuf[i].mine
                 PROVE  sent_times'[sockbuf[i].seq] > 0 \/ sockbuf[i].seq \in StraySeqs
      OBVIOUS
    <3>1. sockbuf[i] \in Packet
      BY DEF TypeOK
    <3>2. sockbuf[i].seq \in Slot /\ Expected(sockbuf[i].seq)
      BY <3>1 DEF Packet, PacketsOurs
    <3> QED BY <2>k, <3>2 DEF Expected
  <2>8. PacketsOurs'
    BY <1>2, <2>6, <2>7 DEF PacketsOurs, Expected, HeadSend
  <2> QED BY <2>1, <2>t, <2>5, <2>8
<1>3. CASE HeadIdle
  BY <1>3, <1>s DEF HeadIdle, world
<1>4. CASE Sweep
  <2>1. PICK h \in Slot :
          /\ SweepStopsAt(next_timeout_check_seq, h, seq, replied_or_timeout,
                          sent_times, clock, Timeout)
          /\ replied_or_timeout' = Resolve(replied_or_timeout, Lost(h))
          /\ expired' = expired \cup {Owner(s) : s \in Lost(h)}
    BY <1>4 DEF Sweep
  <2>2. UNCHANGED <<seq, sent, sent_times, received, on_wire, sockbuf, answered>>
    BY <1>4 DEF Sweep, results, world
  <2>t. Tally'
    BY <2>2 DEF Tally
  <2>3. \A s \in Lost(h) : s \in Slot /\ sent_times[s] > 0 /\ ~replied_or_timeout[s]
    <3>1. Lost(h) \subseteq Window(next_timeout_check_seq, seq)
      BY <2>1, WindowSplits DEF SweepStopsAt, Lost, TypeOK, Window
    <3>2. \A s \in Lost(h) : s \in Slot /\ Owner(s) >= 1
      BY <3>1, OwnerInWindow DEF SlotsInUse, TypeOK, Window
    <3> QED BY <3>2 DEF SlotsInUse, Lost
  <2>4. \A s \in Lost(h) : Owner(s) \notin answered
    BY <2>3 DEF OpenUnfiled
  <2>5. FiledOnce'
    BY <2>1, <2>2, <2>4 DEF FiledOnce
  <2>6. OpenUnfiled'
    <3> SUFFICES ASSUME NEW s \in Slot, sent_times[s] > 0, ~replied_or_timeout'[s]
                 PROVE  Owner(s) \notin answered \cup expired'
      BY <2>2 DEF OpenUnfiled, Owner, Age
    <3>1. ~replied_or_timeout[s] /\ s \notin Lost(h)
      BY <2>1 DEF Resolve
    <3>2. Owner(s) \notin answered \cup expired
      BY <3>1 DEF OpenUnfiled
    <3>3. \A t \in Lost(h) : Owner(t) # Owner(s)
      BY <2>3, <3>1, OwnerFacts DEF TypeOK
    <3> QED BY <2>1, <3>2, <3>3
  <2>7. PacketsOurs'
    BY <2>2 DEF PacketsOurs, Expected
  <2> QED BY <2>t, <2>5, <2>6, <2>7
<1>5. CASE PollBegins \/ PollReturns
  BY <1>5, <1>s DEF PollBegins, PollReturns, world
<1>t. ASSUME sockbuf # <<>>, sockbuf' = Tail(sockbuf),
             UNCHANGED <<on_wire, sent_times>>
      PROVE  PacketsOurs'
  <2>1. \A i \in 1 .. Len(sockbuf') : sockbuf'[i] = sockbuf[i + 1] /\ i + 1 \in 1 .. Len(sockbuf)
    BY <1>t DEF TypeOK
  <2> QED BY <1>t, <2>1 DEF PacketsOurs, Expected
<1>6. CASE DrainIgnore
  <2>1. PacketsOurs'
    BY <1>6, <1>t DEF DrainIgnore, AtPacket, window
  <2>2. FiledOnce' /\ Tally' /\ OpenUnfiled'
    BY <1>6 DEF DrainIgnore, window, results, history, FiledOnce, Tally, OpenUnfiled,
                Owner, Age
  <2> QED BY <2>1, <2>2
<1>7. CASE DrainCredit
  <2> DEFINE s == Head(sockbuf).seq
  <2>1. sockbuf # <<>> /\ Head(sockbuf) = sockbuf[1] /\ 1 \in 1 .. Len(sockbuf)
    BY <1>7 DEF DrainCredit, AtPacket, TypeOK
  <2>2. sockbuf[1] \in Packet /\ s \in Slot
    <3>1. sockbuf[1] \in Packet
      BY <2>1 DEF TypeOK
    <3> QED BY <2>1, <3>1 DEF Packet
  <2>3. ~replied_or_timeout[s] /\ Expected(s)
    BY <1>7, <2>1 DEF DrainCredit, Credits, PacketsOurs
  <2>4. sent_times[s] > 0 => Owner(s) \notin answered \cup expired
    BY <2>2, <2>3 DEF OpenUnfiled
  <2>5. /\ answered' = IF sent_times[s] > 0 THEN answered \cup {Owner(s)} ELSE answered
        /\ received' = received + 1
        /\ replied_or_timeout' = [replied_or_timeout EXCEPT ![s] = TRUE]
        /\ sockbuf' = Tail(sockbuf)
        /\ UNCHANGED <<seq, sent, sent_times, on_wire, expired>>
    BY <1>7 DEF DrainCredit
  <2>6. FiledOnce'
    BY <2>4, <2>5 DEF FiledOnce
  <2>n. /\ received \in Nat /\ IsFiniteSet(answered) /\ Cardinality(answered) \in Nat
        /\ Cardinality(answered) <= received
        /\ StraySeqs = {} => received = Cardinality(answered)
    BY FS_CardinalityType DEF Tally, TypeOK
  <2>r. \A t \in Slot : replied_or_timeout'[t] <=> t = s \/ replied_or_timeout[t]
    BY <2>2, <2>5 DEF TypeOK
  <2> HIDE DEF s
  <2>t. Tally'
    <3>1. CASE sent_times[s] > 0
      <4>1. IsFiniteSet(answered') /\ Cardinality(answered') = Cardinality(answered) + 1
        BY <2>4, <2>5, <2>n, <3>1, FS_AddElement
      <4> QED BY <2>5, <2>n, <4>1 DEF Tally
    <3>2. CASE ~(sent_times[s] > 0)
      <4>1. s \in StraySeqs /\ answered' = answered
        BY <2>3, <2>5, <3>2 DEF Expected
      <4>2. StraySeqs # {}
        BY <4>1
      <4>3. received' = received + 1 /\ Cardinality(answered) <= received + 1
        BY <2>5, <2>n
      <4> QED BY <2>n, <4>1, <4>2, <4>3 DEF Tally
    <3> QED BY <3>1, <3>2
  <2>7. OpenUnfiled'
    <3> SUFFICES ASSUME NEW t \in Slot, sent_times[t] > 0, ~replied_or_timeout'[t]
                 PROVE  Owner(t) \notin answered' \cup expired
      BY <2>5 DEF OpenUnfiled, Owner, Age
    <3>1. t # s /\ ~replied_or_timeout[t]
      BY <2>r
    <3>2. Owner(t) \notin answered \cup expired
      BY <3>1 DEF OpenUnfiled
    <3>3. Owner(t) # Owner(s)
      BY <2>2, <3>1, OwnerFacts DEF TypeOK
    <3> QED BY <2>5, <3>2, <3>3
  <2>8. PacketsOurs'
    BY <1>t, <2>1, <2>5
  <2> QED BY <2>6, <2>t, <2>7, <2>8
<1>8. CASE DrainEnd
  BY <1>8, <1>s DEF DrainEnd, world
<1>9. CASE HandleSigint
  BY <1>9, <1>s DEF HandleSigint, world
<1>10. CASE Tick
  BY <1>10, <1>s DEF Tick
<1>e. ASSUME NEW p \in Packet, Enqueue(p), p.mine => Expected(p.seq)
      PROVE  ReportedInv'
  <2>1. \A i \in 1 .. Len(sockbuf') :
          \/ i \in 1 .. Len(sockbuf) /\ sockbuf'[i] = sockbuf[i]
          \/ sockbuf'[i] = p
    BY <1>e DEF Enqueue, TypeOK
  <2>2. PacketsOurs'
    BY <1>e, <2>1 DEF PacketsOurs, Expected, Enqueue, window
  <2>3. FiledOnce' /\ Tally' /\ OpenUnfiled'
    BY <1>e DEF Enqueue, window, results, history, FiledOnce, Tally, OpenUnfiled,
                Owner, Age
  <2> QED BY <2>2, <2>3
<1>11. CASE ArriveReply
  <2>1. PICK r \in on_wire : Enqueue([mine |-> TRUE, seq |-> r.seq, probe |-> r.probe])
    BY <1>11 DEF ArriveReply
  <2>2. r \in Request
    BY DEF TypeOK
  <2>3. [mine |-> TRUE, seq |-> r.seq, probe |-> r.probe] \in Packet
    BY <2>2 DEF Request, Packet
  <2>4. Expected(r.seq)
    BY DEF PacketsOurs, Expected
  <2> QED BY <1>e, <2>1, <2>3, <2>4
<1>12. CASE ArriveForeign
  <2>1. Foreign \in Packet /\ ~Foreign.mine
    BY SeqModAssumption DEF Foreign, Packet, Slot
  <2> QED BY <1>e, <1>12, <2>1 DEF ArriveForeign
<1>13. CASE ArriveStray
  <2>1. PICK s \in StraySeqs : Enqueue([mine |-> TRUE, seq |-> s, probe |-> 0])
    BY <1>13 DEF ArriveStray
  <2>2. [mine |-> TRUE, seq |-> s, probe |-> 0] \in Packet /\ Expected(s)
    BY StrayAssumption DEF Packet, Expected
  <2> QED BY <1>e, <2>1, <2>2
<1>14. CASE UNCHANGED vars
  BY <1>14, <1>s DEF vars, world
<1> QED
  BY <1>1, <1>2, <1>3, <1>4, <1>5, <1>6, <1>7, <1>8, <1>9, <1>10, <1>11, <1>12, <1>13, <1>14
     DEF Next, Process, Terminated

(* As long as no other process has the same 16-bit id, no probe is ever    *)
(* counted as received and reported as timed out as well, nor counted      *)
(* twice: also when slots are reused while replies are still under way.    *)
THEOREM ReportedOnce ==
  ASSUME StraySeqs = {}
  PROVE  Spec => []EachProbeReportedOnce
<1>1. TypeInv /\ ReportedInv => EachProbeReportedOnce
  <2> SUFFICES ASSUME TypeInv, FiledOnce, Tally PROVE EachProbeReportedOnce
    BY DEF ReportedInv
  <2> QED BY DEF FiledOnce, Tally, EachProbeReportedOnce
<1> QED BY TypeInit, TypeNext, ReportedInit, ReportedNext, <1>1, PTL DEF Spec

(* No probe is both counted as received and reported as timed out, however *)
(* often the slots are reused and whatever another process does.           *)
THEOREM FatesStayApart == Spec => []FiledOnce
<1>1. ReportedInv => FiledOnce
  BY DEF ReportedInv
<1> QED BY TypeInit, TypeNext, ReportedInit, ReportedNext, <1>1, PTL DEF Spec

-------------------------------------------------------------------------------
(* The slots are enough.  Requests are at least Pace apart, with -A as well. *)

Pace == IF Adaptive /\ 2 * NsPerMs < Interval THEN 2 * NsPerMs ELSE Interval

(* Either there are fewer probes than slots, or those of one timeout leave *)
(* room for the next.                                                      *)
EnoughSlots == Count \in 1 .. SeqMod - 1 \/ RingLasts(Pace, Timeout)

PaceInv ==
  /\ Spaced(sent_times, next_timeout_check_seq, seq, Pace, next_send_time)
  /\ pc # "sweep" => Fresh(sent_times, next_timeout_check_seq, seq, Timeout)

LEMMA PaceFacts ==
  ASSUME NEW now \in Nat, NEW last \in Nat
  PROVE  Pace \in Nat /\ NextSend(now, last) \in Nat /\ now + Pace <= NextSend(now, last)
BY NsPerMsAssumption, TimesAssumption DEF Pace, NextSend

LEMMA PaceInit == Init => PaceInv
<1> SUFFICES ASSUME Init PROVE PaceInv
  OBVIOUS
<1>1. Window(1, 1) = {}
  BY SeqModAssumption, SlotFacts DEF Window, Slot
<1> QED BY <1>1 DEF Init, PaceInv, Spaced, Fresh

(* There is a free slot when a request is sent. *)
LEMMA Room ==
  ASSUME EnoughSlots, TypeInv, PaceInv, HeadSend
  PROVE  Dist(next_timeout_check_seq, seq) < SeqMod - 1
<1>1. /\ next_timeout_check_seq \in Slot /\ seq \in Slot /\ sent_times \in [Slot -> Nat]
      /\ sent \in Nat /\ Dist(next_timeout_check_seq, seq) <= sent
  BY DEF TypeInv, TypeOK, SlotsInUse
<1>2. pc = "head" /\ (Count = 0 \/ sent < Count)
  BY DEF HeadSend, AtSend, MaySend
<1>3. CASE Count \in 1 .. SeqMod - 1
  <2>1. Dist(next_timeout_check_seq, seq) \in Int
    BY <1>1, SlotFacts
  <2> QED BY <1>1, <1>2, <1>3, <2>1, SeqModAssumption
<1>4. CASE RingLasts(Pace, Timeout)
  <2>1. Pace \in Nat /\ Timeout \in Nat \ {0}
    BY NsPerMsAssumption, TimesAssumption DEF Pace
  <2> QED BY <1>1, <1>2, <1>4, <2>1, RoomToSend DEF PaceInv
<1> QED BY <1>3, <1>4 DEF EnoughSlots

LEMMA PaceStep == EnoughSlots /\ TypeInv /\ PaceInv /\ [Next]_vars => PaceInv'
<1> SUFFICES ASSUME EnoughSlots, TypeInv, PaceInv, [Next]_vars PROVE PaceInv'
  OBVIOUS
<1>a. /\ next_timeout_check_seq \in Slot /\ seq \in Slot /\ sent_times \in [Slot -> Nat]
      /\ clock \in Nat /\ next_send_time \in Nat /\ stats.last \in Nat /\ Timeout \in Nat
      /\ \A s \in Slot : sent_times[s] <= clock
  BY TimesAssumption DEF TypeInv, TypeOK, SlotsInUse, Stats
<1>s. ASSUME UNCHANGED <<seq, sent_times, next_timeout_check_seq, next_send_time>>,
             pc = "sweep" => pc' = "sweep"
      PROVE  PaceInv'
  BY <1>s DEF PaceInv, Spaced, Fresh
<1>1. CASE HeadSend
  <2> DEFINE later == NextSend(clock, stats.last)
  <2>1. /\ sent_times' = [sent_times EXCEPT ![seq] = clock] /\ seq' = Succ(seq)
        /\ next_send_time <= clock /\ next_send_time' = later /\ pc' = "sweep"
        /\ UNCHANGED next_timeout_check_seq
    BY <1>1, <1>a DEF HeadSend
  <2>2. Pace \in Nat /\ later \in Nat /\ clock + Pace <= later
    BY <1>a, PaceFacts
  <2>3. Dist(next_timeout_check_seq, seq) < SeqMod - 1
    BY <1>1, Room
  <2> HIDE DEF later
  <2>4. Spaced(sent_times, next_timeout_check_seq, seq, Pace, next_send_time)
    BY DEF PaceInv
  <2>5. Spaced([sent_times EXCEPT ![seq] = clock], next_timeout_check_seq, Succ(seq), Pace, later)
    BY <1>a, <2>1, <2>2, <2>3, <2>4, SpacedAfterSend
  <2> QED BY <2>1, <2>5 DEF PaceInv, Spaced, Pace
<1>2. CASE Sweep
  <2>1. PICK h \in Slot :
          /\ SweepStopsAt(next_timeout_check_seq, h, seq, replied_or_timeout,
                          sent_times, clock, Timeout)
          /\ next_timeout_check_seq' = h
    BY <1>2 DEF Sweep
  <2>2. UNCHANGED <<seq, sent_times, next_send_time>>
    BY <1>2 DEF Sweep
  <2>3. h \in Window(next_timeout_check_seq, seq) \cup {seq}
    BY <2>1 DEF SweepStopsAt
  <2>4. Spaced(sent_times, h, seq, Pace, next_send_time)
    BY <1>a, <2>3, SpacedAfterSweep DEF PaceInv
  <2>5. Fresh(sent_times, h, seq, Timeout)
    BY <1>a, <2>1, FreshAfterSweep
  <2> QED BY <2>1, <2>2, <2>4, <2>5 DEF PaceInv, Spaced, Fresh
<1>3. CASE HeadExit \/ HeadIdle \/ PollBegins \/ PollReturns \/ DrainIgnore \/ DrainCredit \/ DrainEnd
           \/ HandleSigint \/ Tick \/ ArriveReply \/ ArriveForeign \/ ArriveStray
           \/ UNCHANGED vars
  <2>1. UNCHANGED <<seq, sent_times, next_timeout_check_seq, next_send_time>>
        /\ (pc = "sweep" => pc' = "sweep")
    BY <1>3 DEF HeadExit, Leave, HeadIdle, AtSend, PollBegins, PollReturns, DrainIgnore, DrainCredit,
                AtPacket,
                DrainEnd, HandleSigint, Tick, ArriveReply, ArriveForeign, ArriveStray, Enqueue,
                vars, window
  <2> QED BY <1>s, <2>1
<1> QED BY <1>1, <1>2, <1>3 DEF Next, Process, Terminated

-------------------------------------------------------------------------------
(* No probe is forgotten.                                                  *)

(* A slot in use is open and will be swept, or its probe has been filed;   *)
(* and so have the probes whose slot another one has now.                  *)
NoneForgotten ==
  /\ Count > 0 => sent <= Count
  /\ 1 .. sent - SeqMod \subseteq answered \cup expired
  /\ \A s \in Slot :
       sent_times[s] > 0 => IF replied_or_timeout[s]
                            THEN Owner(s) \in answered \cup expired
                            ELSE s \in Window(next_timeout_check_seq, seq)

ExitFiled ==
  exit_by = "count" => pc = "done" /\ sent = Count /\ 1 .. sent \subseteq answered \cup expired

CompleteInv == NoneForgotten /\ ExitFiled

LEMMA CompleteInit == Init => CompleteInv
<1> SUFFICES ASSUME Init PROVE CompleteInv
  OBVIOUS
<1>1. 1 .. sent - SeqMod = {} /\ (Count > 0 => sent <= Count)
  BY CountAssumption, SeqModAssumption DEF Init
<1> QED BY <1>1 DEF Init, CompleteInv, NoneForgotten, ExitFiled

LEMMA CompleteNext == EnoughSlots /\ TypeInv /\ PaceInv /\ CompleteInv /\ [Next]_vars => CompleteInv'
<1> SUFFICES ASSUME EnoughSlots, TypeInv, PaceInv, CompleteInv, [Next]_vars PROVE CompleteInv'
  OBVIOUS
<1> USE CountAssumption DEF TypeInv, CompleteInv
<1>s. ASSUME UNCHANGED <<window, history>>
      PROVE  NoneForgotten'
  BY <1>s DEF window, history, NoneForgotten, Owner, Age
<1>p. ASSUME pc # "done", exit_by' # "count" \/ exit_by' = exit_by
      PROVE  ExitFiled'
  BY <1>p DEF ExitFiled
<1>1. CASE HeadExit
  <2>1. pc # "done" /\ exit_by' # "count" /\ UNCHANGED <<window, history>>
    BY <1>1 DEF HeadExit, Leave
  <2> QED BY <1>s, <1>p, <2>1
<1>2. CASE HeadSend
  <2>1. /\ sent' = sent + 1 /\ (Count = 0 \/ sent < Count)
        /\ UNCHANGED <<next_timeout_check_seq, exit_by, answered, expired>>
        /\ pc = "head" /\ seq' = Succ(seq)
    BY <1>2 DEF HeadSend, AtSend, MaySend, history
  <2>2. \A s \in Slot : Owner(s)' = IF s = seq THEN sent + 1 ELSE Owner(s)
    BY <2>1, OwnerAfterSend DEF TypeOK
  <2>3. \A s \in Slot : /\ s # seq => sent_times'[s] = sent_times[s]
                        /\ replied_or_timeout'[s] = IF s = seq THEN FALSE
                                                               ELSE replied_or_timeout[s]
    BY <1>2 DEF HeadSend, Reopen, TypeOK
  <2>4. \A s \in Slot : s \in Window(next_timeout_check_seq, seq') <=>
                          s \in Window(next_timeout_check_seq, seq) \/ s = seq
    <3>1. Dist(next_timeout_check_seq, seq) < SeqMod - 1
      BY <1>2, Room
    <3> QED BY <2>1, <3>1, WindowGrows DEF TypeOK
  <2>5. NoneForgotten'
    <3>1. Count > 0 => sent' <= Count
      BY <2>1 DEF TypeOK
    <3>p. ASSUME NEW p \in 1 .. sent' - SeqMod
          PROVE  p \in answered \cup expired
      <4>1. CASE p \in 1 .. sent - SeqMod
        BY <4>1 DEF NoneForgotten
      <4>2. CASE p = sent + 1 - SeqMod
        <5>1. Owner(seq) = p
          BY <4>2 DEF Owner, Age
        <5>2. sent_times[seq] > 0
          BY <3>p, <5>1 DEF SlotsInUse, TypeOK
        <5>3. seq \notin Window(next_timeout_check_seq, seq)
          BY SlotFacts DEF Window, TypeOK
        <5> QED BY <5>1, <5>2, <5>3 DEF NoneForgotten, TypeOK
      <4> QED BY <2>1, <4>1, <4>2, SeqModAssumption DEF TypeOK
    <3>2. ASSUME NEW s \in Slot, sent_times'[s] > 0
          PROVE  IF replied_or_timeout'[s]
                 THEN Owner(s)' \in answered \cup expired
                 ELSE s \in Window(next_timeout_check_seq, seq')
      <4>1. CASE s = seq
        BY <2>3, <2>4, <4>1
      <4>2. CASE s # seq
        BY <2>2, <2>3, <2>4, <3>2, <4>2 DEF NoneForgotten
      <4> QED BY <4>1, <4>2
    <3> QED BY <2>1, <3>1, <3>p, <3>2 DEF NoneForgotten
  <2> QED BY <1>p, <2>1, <2>5
<1>3. CASE HeadIdle
  BY <1>3, <1>s, <1>p DEF HeadIdle, AtSend, world
<1>4. CASE Sweep
  <2>1. PICK h \in Slot :
          /\ SweepStopsAt(next_timeout_check_seq, h, seq, replied_or_timeout,
                          sent_times, clock, Timeout)
          /\ next_timeout_check_seq' = h
          /\ replied_or_timeout' = Resolve(replied_or_timeout, Lost(h))
          /\ expired' = expired \cup {Owner(s) : s \in Lost(h)}
          /\ IF AllDone(h) THEN pc' = "done" ELSE UNCHANGED exit_by
    BY <1>4 DEF Sweep
  <2>2. pc = "sweep" /\ UNCHANGED <<seq, sent, sent_times, answered>>
    BY <1>4 DEF Sweep
  <2>3. h \in Window(next_timeout_check_seq, seq) \cup {seq}
    BY <2>1 DEF SweepStopsAt
  <2>4. NoneForgotten'
    <3>1. ASSUME NEW s \in Slot, sent_times[s] > 0
          PROVE  IF replied_or_timeout'[s]
                 THEN Owner(s) \in answered \cup expired'
                 ELSE s \in Window(h, seq)
      <4>1. CASE replied_or_timeout[s]
        BY <2>1, <3>1, <4>1 DEF NoneForgotten, Resolve
      <4>2. CASE s \in Lost(h)
        BY <2>1, <4>2 DEF Resolve
      <4>3. CASE ~replied_or_timeout[s] /\ s \notin Lost(h)
        <5>1. s \in Window(next_timeout_check_seq, seq) /\ s \notin Window(next_timeout_check_seq, h)
          BY <3>1, <4>3 DEF NoneForgotten, Lost
        <5>2. s \in Window(h, seq)
          BY <2>3, <5>1, WindowSplits DEF TypeOK
        <5>3. ~replied_or_timeout'[s]
          BY <2>1, <4>3 DEF Resolve
        <5> QED BY <5>2, <5>3
      <4> QED BY <4>1, <4>2, <4>3
    <3>2. \A s \in Slot : Owner(s)' = Owner(s)
      BY <2>2 DEF Owner, Age
    <3> QED BY <2>1, <2>2, <3>1, <3>2 DEF NoneForgotten
  <2>5. ExitFiled'
    <3>1. CASE ~AllDone(h)
      BY <1>p, <2>1, <2>2, <3>1
    <3>2. CASE AllDone(h)
      <4>1. sent' = Count /\ seq' = next_timeout_check_seq' /\ pc' = "done"
        BY <2>1, <2>2, <3>2 DEF AllDone, NoneForgotten, TypeOK
      <4>2. Window(next_timeout_check_seq', seq') = {}
        BY <2>1, <2>2, <4>1, SlotFacts DEF Window, TypeOK
      <4>3. \A s \in Slot : sent_times[s] > 0 => Owner(s) \in answered' \cup expired'
        <5>1. \A s \in Slot : Owner(s)' = Owner(s)
          BY <2>2 DEF Owner, Age
        <5> QED BY <2>2, <2>4, <4>2, <5>1 DEF NoneForgotten
      <4>4. ASSUME NEW p \in 1 .. sent PROVE p \in answered' \cup expired'
        <5>1. CASE p > sent - SeqMod
          <6>1. PICK s \in Slot : Owner(s) = p
            BY <5>1, OwnerOnto DEF TypeOK
          <6>2. sent_times[s] > 0
            BY <6>1 DEF SlotsInUse
          <6> QED BY <4>3, <6>1, <6>2
        <5>2. CASE p <= sent - SeqMod
          <6>1. sent \in Nat /\ sent - SeqMod \in Int
            BY SeqModAssumption DEF TypeOK
          <6>2. p \in 1 .. sent - SeqMod
            BY <5>2, <6>1
          <6>3. p \in answered \cup expired
            BY <6>2 DEF NoneForgotten
          <6> QED BY <2>1, <2>2, <6>3
        <5> QED BY <5>1, <5>2, SeqModAssumption DEF TypeOK
      <4> QED BY <2>2, <4>1, <4>4 DEF ExitFiled
    <3> QED BY <3>1, <3>2
  <2> QED BY <2>4, <2>5
<1>5. CASE PollBegins \/ PollReturns
  BY <1>5, <1>s, <1>p DEF PollBegins, PollReturns
<1>6. CASE DrainIgnore
  BY <1>6, <1>s, <1>p DEF DrainIgnore, AtPacket
<1>7. CASE DrainCredit
  <2> DEFINE s == Head(sockbuf).seq
  <2>1. /\ pc = "drain" /\ UNCHANGED <<seq, sent, next_timeout_check_seq, sent_times, exit_by, expired>>
        /\ replied_or_timeout' = [replied_or_timeout EXCEPT ![s] = TRUE]
        /\ answered' = IF sent_times[s] > 0 THEN answered \cup {Owner(s)} ELSE answered
    BY <1>7 DEF DrainCredit, AtPacket
  <2>2. NoneForgotten'
    <3>1. ASSUME NEW t \in Slot, sent_times[t] > 0
          PROVE  IF replied_or_timeout'[t]
                 THEN Owner(t) \in answered' \cup expired
                 ELSE t \in Window(next_timeout_check_seq, seq)
      <4>1. CASE t = s
        BY <2>1, <3>1, <4>1 DEF TypeOK
      <4>2. CASE t # s
        <5>1. replied_or_timeout'[t] = replied_or_timeout[t]
          BY <2>1, <4>2 DEF TypeOK
        <5>2. answered \subseteq answered'
          BY <2>1
        <5> QED BY <3>1, <5>1, <5>2 DEF NoneForgotten
      <4> QED BY <4>1, <4>2
    <3>2. \A t \in Slot : Owner(t)' = Owner(t)
      BY <2>1 DEF Owner, Age
    <3> QED BY <2>1, <3>1, <3>2 DEF NoneForgotten
  <2> QED BY <1>p, <2>1, <2>2
<1>8. CASE DrainEnd
  BY <1>8, <1>s, <1>p DEF DrainEnd
<1>9. CASE HandleSigint
  BY <1>9, <1>s, <1>p DEF HandleSigint
<1>10. CASE Tick
  BY <1>10, <1>s, <1>p DEF Tick
<1>e. ASSUME NEW p, Enqueue(p)
      PROVE  CompleteInv'
  BY <1>e, <1>s, <1>p DEF Enqueue
<1>11. CASE ArriveReply
  BY <1>e, <1>11 DEF ArriveReply
<1>12. CASE ArriveForeign
  BY <1>e, <1>12 DEF ArriveForeign
<1>13. CASE ArriveStray
  BY <1>e, <1>13 DEF ArriveStray
<1>14. CASE UNCHANGED vars
  BY <1>14, <1>s DEF vars, window, history, ExitFiled
<1> QED
  BY <1>1, <1>2, <1>3, <1>4, <1>5, <1>6, <1>7, <1>8, <1>9, <1>10, <1>11, <1>12, <1>13, <1>14
     DEF Next, Process, Terminated

LEMMA AccountsKept ==
  ASSUME EnoughSlots
  PROVE  Spec => [](TypeInv /\ ReportedInv /\ PaceInv /\ CompleteInv)
BY TypeInit, TypeNext, ReportedInit, ReportedNext, PaceInit, PaceStep, CompleteInit, CompleteNext,
   PTL DEF Spec

(* If the slots are enough, ping does not leave its loop by the count      *)
(* before every probe was answered or has expired, however many there are  *)
(* and whatever another process with the same id does to the open slots.   *)
THEOREM CountExitComplete ==
  ASSUME EnoughSlots
  PROVE  Spec => []CountExitIsComplete
<1>1. TypeInv /\ CompleteInv => CountExitIsComplete
  BY DEF TypeInv, TypeOK, CompleteInv, ExitFiled, CountExitIsComplete
<1> QED BY AccountsKept, <1>1, PTL

(* At any time in a run of any length: a probe that is neither counted as  *)
(* received nor reported as timed out has an open slot that the sweep is   *)
(* yet to come to.                                                         *)
NoProbeForgotten ==
  \A p \in 1 .. sent \ (answered \cup expired) :
    \E s \in Window(next_timeout_check_seq, seq) : ~replied_or_timeout[s] /\ Owner(s) = p

LEMMA OutstandingInWindow == TypeInv /\ NoneForgotten => NoProbeForgotten
<1> SUFFICES ASSUME TypeInv, NoneForgotten,
                    NEW p \in 1 .. sent, p \notin answered \cup expired
             PROVE  \E s \in Window(next_timeout_check_seq, seq) :
                      ~replied_or_timeout[s] /\ Owner(s) = p
  BY DEF NoProbeForgotten
<1>1. seq \in Slot /\ sent \in Nat
  BY DEF TypeInv, TypeOK
<1>2. p > sent - SeqMod
  BY <1>1, SeqModAssumption DEF NoneForgotten
<1>3. PICK s \in Slot : Owner(s) = p
  BY <1>1, <1>2, OwnerOnto
<1>4. sent_times[s] > 0
  BY <1>3 DEF TypeInv, SlotsInUse
<1> QED BY <1>3, <1>4 DEF NoneForgotten

(* If the slots are enough, ping forgets no probe, however long it runs:   *)
(* each is answered, has expired or is still to be swept.                  *)
THEOREM NoneIsForgotten ==
  ASSUME EnoughSlots
  PROVE  Spec => []NoProbeForgotten
<1>1. TypeInv /\ CompleteInv => NoProbeForgotten
  BY OutstandingInWindow DEF CompleteInv
<1> QED BY AccountsKept, <1>1, PTL

-------------------------------------------------------------------------------
(* How long poll() is told to sleep.                                       *)

Alarm == <<next_timeout_check_seq, seq, sent, sent_times, next_send_time>>

(* What has delayed the call of poll(), or may have.                       *)
Late == IF pc = "call" THEN lag ELSE MaxLag

(* A wait that is over already is no wait. *)
WaitInv ==
  /\ Deadline > 0 /\ poll_until # Forever => poll_until <= StartTime + Deadline + Late
  /\ Deadline = 0 =>
       /\ poll_until # Forever
       /\ pc = "call" => poll_until > clock \/ (MaySend /\ clock >= next_send_time)
       /\ MaySend  => poll_until <= clock \/ poll_until <= next_send_time + NsPerMs + Late
       /\ ~MaySend =>
            /\ next_timeout_check_seq # seq
            /\ poll_until <= sent_times[next_timeout_check_seq] + Timeout + NsPerMs + Late

PollInv == pc \in {"call", "poll"} => WaitInv

(* The wait that ping asks for, before the deadline is looked at.          *)
LEMMA WaitFacts ==
  ASSUME NEW now \in Nat \ {0}, NEW next \in Int, NEW expiry \in Int, NEW may \in BOOLEAN,
         ~may => expiry > now
  PROVE  LET ms == WaitMs(now, may, next, expiry)
         IN  /\ ms \in Int /\ ms >= 0
             /\ PollUntil(now, ms) \in Int /\ PollUntil(now, ms) # Forever
             /\ PollUntil(now, ms) > now \/ (may /\ now >= next)
             /\ may  => PollUntil(now, ms) <= now \/ PollUntil(now, ms) <= next + NsPerMs
             /\ ~may => PollUntil(now, ms) <= expiry + NsPerMs
<1>1. NsPerMs \in Nat \ {0}
  BY NsPerMsAssumption
<1> DEFINE ms == WaitMs(now, may, next, expiry)
<1> SUFFICES /\ ms \in Int /\ ms >= 0
             /\ PollUntil(now, ms) \in Int /\ PollUntil(now, ms) # Forever
             /\ PollUntil(now, ms) > now \/ (may /\ now >= next)
             /\ may  => PollUntil(now, ms) <= now \/ PollUntil(now, ms) <= next + NsPerMs
             /\ ~may => PollUntil(now, ms) <= expiry + NsPerMs
  OBVIOUS
<1> HIDE DEF ms
<1>2. ASSUME NEW k \in Int, k >= 0
      PROVE  PollUntil(now, k) = now + k * NsPerMs /\ now + k * NsPerMs \in Nat
             /\ now + k * NsPerMs # Forever /\ (k >= 1 => now + k * NsPerMs > now)
  <2>1. k * NsPerMs \in Nat /\ (k >= 1 => k * NsPerMs > 0)
    BY <1>1, <1>2
  <2> QED BY <1>2, <2>1 DEF PollUntil, Forever
<1>3. CASE may /\ next > now
  <2>1. ms = RoundedMs(next - now) /\ next - now \in Int /\ next - now > 0
    BY <1>3 DEF WaitMs, ms
  <2>2. ms \in Int /\ ms >= 1 /\ ms * NsPerMs <= (next - now) + NsPerMs
    BY <2>1, RoundedMsFacts
  <2>3. PollUntil(now, ms) = now + ms * NsPerMs /\ PollUntil(now, ms) \in Nat
        /\ PollUntil(now, ms) # Forever /\ ms * NsPerMs \in Int /\ PollUntil(now, ms) > now
    BY <1>1, <1>2, <2>2
  <2>4. PollUntil(now, ms) <= next + NsPerMs
    BY <1>1, <2>2, <2>3
  <2> QED BY <1>3, <2>2, <2>3, <2>4
<1>4. CASE may /\ ~(next > now)
  <2>1. ms = 0
    BY <1>4 DEF WaitMs, ms
  <2>2. PollUntil(now, ms) = now + ms * NsPerMs /\ ms * NsPerMs = 0
    BY <1>1, <1>2, <2>1
  <2>3. PollUntil(now, ms) = now
    BY <2>2
  <2> QED BY <1>4, <2>1, <2>3 DEF Forever
<1>5. CASE ~may
  <2>1. ms = RoundedMs(expiry - now) /\ expiry - now \in Int /\ expiry - now > 0
    BY <1>5 DEF WaitMs, ms
  <2>2. ms \in Int /\ ms >= 1 /\ ms * NsPerMs <= (expiry - now) + NsPerMs
    BY <2>1, RoundedMsFacts
  <2>3. PollUntil(now, ms) = now + ms * NsPerMs /\ PollUntil(now, ms) \in Nat
        /\ PollUntil(now, ms) # Forever /\ ms * NsPerMs \in Int /\ PollUntil(now, ms) > now
    BY <1>1, <1>2, <2>2
  <2>4. PollUntil(now, ms) <= expiry + NsPerMs
    BY <1>1, <2>2, <2>3
  <2> QED BY <1>5, <2>2, <2>3, <2>4
<1> QED BY <1>3, <1>4, <1>5

(* With -w the wait ends by the deadline, if it ends at all.               *)
LEMMA ClampFacts ==
  ASSUME NEW now \in Nat \ {0}, NEW ms \in Int, Deadline > 0,
         PollUntil(now, ClampToDeadline(ms, now)) # Forever
  PROVE  PollUntil(now, ClampToDeadline(ms, now)) <= StartTime + Deadline
<1> DEFINE left == StartTime + Deadline - now
           d    == IF left < 0 THEN Forever ELSE left \div NsPerMs
           c    == ClampToDeadline(ms, now)
<1>1. NsPerMs \in Nat \ {0} /\ left \in Int /\ Deadline \in Nat
  BY NsPerMsAssumption, CountAssumption DEF StartTime
<1>2. c = IF d < ms THEN d ELSE ms
  BY DEF ClampToDeadline
<1>3. left \div NsPerMs \in Int /\ (left \div NsPerMs) * NsPerMs <= left
  BY <1>1, DivisionFacts
<1>4. d \in Int
  BY <1>3 DEF Forever
<1>5. now + left = StartTime + Deadline
  BY <1>1 DEF StartTime
<1> HIDE DEF left, d, c
<1>6. c \in Int /\ c <= d
  BY <1>2, <1>4
<1>7. c >= 0 /\ PollUntil(now, c) = now + c * NsPerMs
  BY <1>6 DEF PollUntil, c
<1>8. d = left \div NsPerMs
  BY <1>4, <1>6, <1>7 DEF d, Forever
<1>9. c * NsPerMs <= d * NsPerMs
  BY <1>1, <1>4, <1>6
<1>10. c * NsPerMs \in Int /\ d * NsPerMs \in Int /\ d * NsPerMs <= left
  BY <1>1, <1>3, <1>4, <1>6, <1>8
<1>11. now + c * NsPerMs <= now + left
  BY <1>1, <1>9, <1>10
<1> QED BY <1>5, <1>7, <1>11 DEF c

(* A bound that grows by at least as much as the value does still holds.   *)
LEMMA SlideUnder ==
  ASSUME NEW a \in Int, NEW a2 \in Int, NEW b \in Int, NEW d \in Int,
         NEW l \in Int, NEW l2 \in Int,
         a2 <= a + d, a <= b + l, d + l <= l2
  PROVE  a2 <= b + l2
  OBVIOUS


LEMMA PollStep == TypeInv /\ PollInv /\ [Next]_vars => PollInv'
<1> SUFFICES ASSUME TypeInv, PollInv, [Next]_vars PROVE PollInv'
  OBVIOUS
<1>1. ASSUME pc' \notin {"call", "poll"} PROVE PollInv'
  BY <1>1 DEF PollInv
<1>t. /\ clock \in Nat \ {0} /\ lag \in 0 .. MaxLag /\ MaxLag \in Nat /\ next_send_time \in Nat
      /\ poll_until \in Nat \cup {Forever} /\ poll_until \in Int /\ NsPerMs \in Nat
      /\ Timeout \in Nat /\ Deadline \in Nat
  BY BoundsAssumption, NsPerMsAssumption, TimesAssumption, CountAssumption
     DEF TypeInv, TypeOK, Forever
<1>u. sent_times[next_timeout_check_seq] \in Nat
  BY DEF TypeInv, TypeOK
(* Nothing is undone, and what delays poll() shows. *)
<1>2. ASSUME UNCHANGED Alarm, pc' \in {"call", "poll"},
             pc' = pc \/ (pc = "call" /\ poll_until' = poll_until /\ clock' = clock),
             pc' = "call" => lag' \in Nat,
             NEW d \in Nat, NEW e \in Nat, clock' = clock + e, e >= d,
             \/ poll_until' = poll_until /\ d = 0
             \/ poll_until # Forever /\ poll_until' = poll_until + d /\ d = e,
             d + Late <= Late',
             pc = "call" => d = e
      PROVE  PollInv'
  <2>1. MaySend' = MaySend
    BY <1>2 DEF Alarm, MaySend
  <2>2. WaitInv
    BY <1>2 DEF PollInv
  <2>3. Late \in Nat /\ Late' \in Nat
    BY <1>2, <1>t DEF Late
  <2>4. poll_until # Forever => poll_until' # Forever
    BY <1>2, <1>t DEF Forever
  <2>5. poll_until' # Forever => poll_until # Forever
    BY <1>2
  <2>6. poll_until' \in Int /\ poll_until' <= poll_until + d
    BY <1>2, <1>t
  <2>7. Deadline > 0 /\ poll_until' # Forever => poll_until' <= StartTime + Deadline + Late'
    <3> SUFFICES ASSUME Deadline > 0, poll_until' # Forever
                 PROVE  poll_until' <= StartTime + Deadline + Late'
      OBVIOUS
    <3>1. poll_until <= StartTime + Deadline + Late
      BY <2>2, <2>5 DEF WaitInv
    <3>2. StartTime \in Nat
      BY DEF StartTime
    <3>3. Late \in Int /\ Late' \in Int /\ d \in Int /\ poll_until \in Int /\ d + Late <= Late'
          /\ StartTime + Deadline \in Int
      BY <1>2, <1>t, <2>3, <3>2
    <3> QED BY <2>6, <3>1, <3>3, SlideUnder
  <2>8. ASSUME Deadline = 0
        PROVE  /\ poll_until' # Forever
               /\ pc' = "call" => poll_until' > clock' \/ (MaySend /\ clock' >= next_send_time)
               /\ MaySend  => poll_until' <= clock'
                              \/ poll_until' <= next_send_time + NsPerMs + Late'
               /\ ~MaySend =>
                    /\ next_timeout_check_seq # seq
                    /\ poll_until' <= sent_times[next_timeout_check_seq] + Timeout + NsPerMs + Late'
    <3>1. poll_until' # Forever
      BY <2>2, <2>4, <2>8 DEF WaitInv
    <3>2. pc' = "call" => poll_until' > clock' \/ (MaySend /\ clock' >= next_send_time)
      <4> SUFFICES ASSUME pc' = "call"
                   PROVE  poll_until' > clock' \/ (MaySend /\ clock' >= next_send_time)
        OBVIOUS
      <4>1. pc = "call" /\ d = e /\ poll_until' = poll_until + d
        BY <1>2, <1>t
      <4>2. poll_until > clock \/ (MaySend /\ clock >= next_send_time)
        BY <2>2, <2>8, <4>1 DEF WaitInv
      <4> QED BY <1>2, <1>t, <4>1, <4>2
    <3>3. MaySend  => poll_until' <= clock' \/ poll_until' <= next_send_time + NsPerMs + Late'
      <4> SUFFICES ASSUME MaySend
                   PROVE  poll_until' <= clock' \/ poll_until' <= next_send_time + NsPerMs + Late'
        OBVIOUS
      <4>1. poll_until <= clock \/ poll_until <= next_send_time + NsPerMs + Late
        BY <2>2, <2>8 DEF WaitInv
      <4>2. clock \in Nat /\ next_send_time \in Nat /\ NsPerMs \in Nat /\ poll_until \in Int
        BY <1>t
      <4>3. CASE poll_until <= clock
        BY <1>2, <2>6, <4>2, <4>3
      <4>4. CASE poll_until <= next_send_time + NsPerMs + Late
        <5>1. d + Late <= Late' /\ poll_until' <= poll_until + d /\ d \in Nat
          BY <1>2, <2>6
        <5>2. next_send_time + NsPerMs \in Int /\ Late \in Int /\ Late' \in Int /\ d \in Int
          BY <2>3, <4>2
        <5> QED BY <2>6, <4>2, <4>4, <5>1, <5>2, SlideUnder
      <4> QED BY <4>1, <4>3, <4>4
    <3>4. ~MaySend =>
            /\ next_timeout_check_seq # seq
            /\ poll_until' <= sent_times[next_timeout_check_seq] + Timeout + NsPerMs + Late'
      <4> SUFFICES ASSUME ~MaySend
                   PROVE  /\ next_timeout_check_seq # seq
                          /\ poll_until' <= sent_times[next_timeout_check_seq] + Timeout
                                             + NsPerMs + Late'
        OBVIOUS
      <4>1. /\ next_timeout_check_seq # seq
            /\ poll_until <= sent_times[next_timeout_check_seq] + Timeout + NsPerMs + Late
        BY <2>2, <2>8 DEF WaitInv
      <4> QED BY <1>2, <1>t, <1>u, <2>3, <2>6, <4>1
    <3> QED BY <3>1, <3>2, <3>3, <3>4
  <2>9. WaitInv'
    BY <1>2, <2>1, <2>7, <2>8 DEF WaitInv, Alarm
  <2> QED BY <2>9 DEF PollInv
<1>q. ASSUME UNCHANGED <<pc, Alarm, clock, lag, poll_until>> PROVE PollInv'
  <2>1. CASE pc \in {"call", "poll"}
    <3>1. Late' = Late /\ Late \in Nat
      BY <1>q, <1>t DEF Late
    <3>2. /\ clock' = clock + 0 /\ 0 + Late <= Late' /\ 0 \in Nat /\ lag' \in Nat
      BY <1>q, <1>t, <3>1
    <3>3. pc' = pc /\ pc' \in {"call", "poll"} /\ UNCHANGED Alarm /\ poll_until' = poll_until
      BY <1>q, <2>1
    <3> QED BY <1>2, <3>2, <3>3
  <2>2. CASE pc \notin {"call", "poll"}
    BY <1>q, <1>1, <2>2
  <2> QED BY <2>1, <2>2
<1>3. HeadExit \/ HeadSend \/ HeadIdle \/ PollReturns \/ DrainEnd => pc' \notin {"call", "poll"}
  BY DEF HeadExit, Leave, HeadSend, HeadIdle, PollReturns, DrainEnd
<1>4. DrainIgnore \/ DrainCredit => pc' \notin {"call", "poll"}
  BY DEF DrainIgnore, DrainCredit, AtPacket
<1>5. CASE Sweep
  <2>1. PICK h \in Slot :
          /\ SweepStopsAt(next_timeout_check_seq, h, seq, replied_or_timeout,
                          sent_times, clock, Timeout)
          /\ next_timeout_check_seq' = h
          /\ IF AllDone(h)
             THEN pc' = "done"
             ELSE /\ pc' = "call"
                  /\ poll_until' = PollUntil(clock,
                       ClampToDeadline(WaitMs(clock, MaySend, next_send_time,
                                              sent_times[h] + Timeout), clock))
    BY <1>5 DEF Sweep
  <2>2. UNCHANGED <<seq, sent, sent_times, next_send_time, clock>> /\ MaySend' = MaySend /\ lag' = 0
    BY <1>5 DEF Sweep, world, MaySend
  <2>3. CASE AllDone(h)
    BY <1>1, <2>1, <2>3
  <2>4. CASE ~AllDone(h)
    <3> DEFINE ms == WaitMs(clock, MaySend, next_send_time, sent_times[h] + Timeout)
    <3>0. sent_times[h] \in Nat
      BY DEF TypeInv, TypeOK
    <3>1. /\ clock \in Nat \ {0} /\ next_send_time \in Int
          /\ sent_times[h] + Timeout \in Int /\ MaySend \in BOOLEAN
      BY <1>t, <3>0 DEF MaySend
    <3>2. ~MaySend => h # seq
      BY <2>4, CountAssumption DEF AllDone, MaySend, TypeInv, TypeOK
    <3>3. ~MaySend => sent_times[h] + Timeout > clock
      BY <1>t, <2>1, <3>0, <3>1, <3>2 DEF SweepStopsAt, Passes
    <3>4. /\ ms \in Int /\ PollUntil(clock, ms) \in Int /\ PollUntil(clock, ms) # Forever
          /\ PollUntil(clock, ms) > clock \/ (MaySend /\ clock >= next_send_time)
          /\ MaySend => PollUntil(clock, ms) <= clock
                        \/ PollUntil(clock, ms) <= next_send_time + NsPerMs
          /\ ~MaySend => PollUntil(clock, ms) <= sent_times[h] + Timeout + NsPerMs
      BY <3>1, <3>3, WaitFacts
    <3>5. poll_until' = PollUntil(clock, ClampToDeadline(ms, clock)) /\ pc' = "call"
      BY <2>1, <2>4
    <3> HIDE DEF ms
    <3>6. Deadline = 0 => ClampToDeadline(ms, clock) = ms
      BY DEF ClampToDeadline
    <3>7. Deadline > 0 /\ poll_until' # Forever => poll_until' <= StartTime + Deadline
      BY <3>1, <3>4, <3>5, ClampFacts
    <3>8. Deadline = 0 =>
            /\ poll_until' # Forever /\ poll_until' \in Int
            /\ poll_until' > clock \/ (MaySend /\ clock >= next_send_time)
            /\ MaySend  => poll_until' <= clock \/ poll_until' <= next_send_time + NsPerMs
            /\ ~MaySend => h # seq /\ poll_until' <= sent_times[h] + Timeout + NsPerMs
      BY <3>2, <3>4, <3>5, <3>6
    <3>9. Late' = 0
      BY <2>2, <3>5 DEF Late
    <3>10. /\ next_send_time + NsPerMs + 0 = next_send_time + NsPerMs
           /\ sent_times[h] + Timeout + NsPerMs + 0 = sent_times[h] + Timeout + NsPerMs
           /\ StartTime + Deadline + 0 = StartTime + Deadline
      BY <1>t, <3>0 DEF StartTime
    <3>11. WaitInv'
      BY <2>1, <2>2, <3>7, <3>8, <3>9, <3>10 DEF WaitInv
    <3> QED BY <3>11 DEF PollInv
  <2> QED BY <2>3, <2>4
<1>6. CASE PollBegins
  <2>1. /\ pc = "call" /\ pc' = "poll" /\ UNCHANGED <<Alarm, clock, poll_until>>
    BY <1>6 DEF PollBegins, Alarm, window, world
  <2>2. Late' = MaxLag /\ Late = lag
    BY <2>1 DEF Late
  <2>3. 0 \in Nat /\ clock' = clock + 0 /\ 0 + Late <= Late'
    BY <1>t, <2>1, <2>2
  <2> QED BY <1>2, <2>1, <2>3
<1>7. CASE Tick
  <2>1. /\ pc' = pc /\ UNCHANGED Alarm /\ clock' \in {clock, clock + 1}
        /\ poll_until' = IF pc = "call" /\ poll_until # Forever
                         THEN poll_until + (clock' - clock) ELSE poll_until
        /\ pc = "call" => lag' = lag + 1
    BY <1>7 DEF Tick, window, Alarm, Waiting
  <2>2. CASE pc = "call" /\ poll_until # Forever
    <3> DEFINE d == clock' - clock
    <3>1. d \in Nat /\ clock' = clock + d /\ d >= d /\ d <= 1 /\ poll_until' = poll_until + d
      <4>1. clock \in Nat /\ poll_until' = poll_until + (clock' - clock) /\ clock' \in {clock, clock + 1}
        BY <1>t, <2>1, <2>2
      <4>2. CASE clock' = clock
        BY <4>1, <4>2
      <4>3. CASE clock' = clock + 1
        BY <4>1, <4>3
      <4> QED BY <4>1, <4>2, <4>3
    <3> HIDE DEF d
    <3>2. d + Late <= Late' /\ lag' \in Nat
      <4>1. Late = lag /\ Late' = lag' /\ lag' = lag + 1 /\ lag \in Nat
        BY <1>t, <2>1, <2>2 DEF Late
      <4> QED BY <3>1, <4>1
    <3> QED BY <1>2, <2>1, <2>2, <3>1, <3>2
  <2>3. CASE pc = "call" /\ poll_until = Forever
    <3>1. Deadline # 0
      BY <2>3 DEF PollInv, WaitInv
    <3> QED BY <1>t, <2>1, <2>3, <3>1 DEF PollInv, WaitInv
  <2>4. CASE pc = "poll"
    <3> DEFINE e == clock' - clock
    <3>1. e \in Nat /\ clock' = clock + e /\ e >= 0 /\ 0 \in Nat
      <4>1. clock \in Nat /\ clock' \in {clock, clock + 1}
        BY <1>t, <2>1
      <4>2. CASE clock' = clock
        BY <4>1, <4>2
      <4>3. CASE clock' = clock + 1
        BY <4>1, <4>3
      <4> QED BY <4>1, <4>2, <4>3
    <3> HIDE DEF e
    <3>2. 0 + Late <= Late' /\ pc' # "call" /\ poll_until' = poll_until
      BY <1>t, <2>1, <2>4 DEF Late
    <3> QED BY <1>2, <2>1, <2>4, <3>1, <3>2
  <2>5. CASE pc \notin {"call", "poll"}
    BY <1>1, <2>1, <2>5
  <2> QED BY <2>2, <2>3, <2>4, <2>5
<1>8. CASE HandleSigint
  <2>1. CASE pc = "poll"
    BY <1>1, <1>8, <2>1 DEF HandleSigint
  <2>2. CASE pc # "poll"
    BY <1>8, <1>q, <2>2 DEF HandleSigint, Alarm, window, world
  <2> QED BY <2>1, <2>2
<1>9. CASE ArriveReply \/ ArriveForeign \/ ArriveStray \/ UNCHANGED vars
  <2>1. UNCHANGED <<pc, Alarm, clock, lag, poll_until>>
    BY <1>9 DEF ArriveReply, ArriveForeign, ArriveStray, Enqueue, vars, window, world, Alarm
  <2> QED BY <1>q, <2>1
<1> QED BY <1>1, <1>3, <1>4, <1>5, <1>6, <1>7, <1>8, <1>9 DEF Next, Process, Terminated

LEMMA PollInvariant == Spec => [](TypeInv /\ PollInv)
<1>1. Init => PollInv
  BY DEF Init, PollInv
<1> QED BY <1>1, TypeInit, TypeNext, PollStep, PTL DEF Spec

(* Without -w, poll() is told to return at once only if a request is due,  *)
(* and never sleeps past the moment ping has something to do by more than  *)
(* a millisecond and what delayed its call.                                *)
THEOREM PollIsShort == Spec => []PollIsTimely
<1>1. TypeInv /\ PollInv => PollIsTimely
  <2> SUFFICES ASSUME TypeInv, PollInv, Deadline = 0, pc \in {"call", "poll"}
               PROVE  PollIsTimely
    BY DEF PollIsTimely
  <2>1. WaitInv
    BY DEF PollInv
  <2>2. CASE pc = "call"
    BY <2>1, <2>2 DEF WaitInv, PollIsTimely
  <2>3. CASE pc = "poll" /\ ~PollGaveUp
    <3>1. poll_until # Forever /\ Late = MaxLag
      BY <2>1, <2>3 DEF WaitInv, Late
    <3>2. ~(poll_until <= clock)
      BY <2>3, <3>1 DEF PollGaveUp, TypeInv, TypeOK
    <3> QED BY <2>1, <2>3, <3>1, <3>2 DEF WaitInv, PollIsTimely
  <2>4. CASE pc = "poll" /\ PollGaveUp
    BY <2>4 DEF PollIsTimely
  <2> QED BY <2>2, <2>3, <2>4
<1> QED BY <1>1, PollInvariant, PTL

(* With -w, a sleep that ends by itself ends by the deadline, but for what *)
(* delayed the call of poll().                                             *)
THEOREM PollEndsByDeadline == Spec => []PollHonoursDeadline
<1>1. PollInv => PollHonoursDeadline
  BY DEF PollInv, WaitInv, Late, PollHonoursDeadline
<1> QED BY <1>1, PollInvariant, PTL


-------------------------------------------------------------------------------
(* The statistics: what a mean and a variance of whole numbers keep.       *)

LEMMA Cancel ==
  ASSUME NEW a \in Int, NEW b \in Int, NEW n \in Nat \ {0}
  PROVE  /\ a * n <= b * n => a <= b
         /\ a * n < b * n => a < b
<1>1. CASE a > b
  <2>1. a * n >= (b + 1) * n /\ (b + 1) * n = b * n + n
    BY <1>1
  <2> QED BY <1>1, <2>1
<1>2. CASE a = b
  BY <1>2
<1>3. CASE a < b
  BY <1>3
<1> QED BY <1>1, <1>2, <1>3

LEMMA MeanStep ==
  ASSUME NEW n \in Nat, NEW m \in Nat, NEW sum \in Nat, NEW rtt \in Nat
  PROVE  /\ n * m <= sum /\ m <= rtt => (n + 1) * m <= sum + rtt
         /\ sum <= n * m /\ rtt <= m => sum + rtt <= (n + 1) * m
<1>1. (n + 1) * m = n * m + m /\ n * m \in Nat
  OBVIOUS
<1> QED BY <1>1

LEMMA Scaled ==
  ASSUME NEW n \in Nat, NEW a \in Nat, NEW b \in Nat, a <= b
  PROVE  n * a <= n * b
OBVIOUS

(* The square of a sum is at most the number of terms times the sum of the *)
(* squares.                                                                *)
LEMMA SquaresStep ==
  ASSUME NEW n \in Nat, NEW S \in Nat, NEW Q \in Nat, NEW u \in Nat, S * S <= n * Q
  PROVE  (S + u) * (S + u) <= (n + 1) * (Q + u * u)
<1>1. /\ S * S \in Nat /\ n * Q \in Nat /\ u * u \in Nat /\ S * u \in Nat /\ n * (u * u) \in Nat
      /\ (S + u) * (S + u) = S * S + 2 * (S * u) + u * u
      /\ (n + 1) * (Q + u * u) = n * Q + n * (u * u) + Q + u * u
  OBVIOUS
<1>2. 2 * (S * u) <= n * (u * u) + Q
  <2>1. CASE n = 0
    <3>1. S * S = 0
      BY <1>1, <2>1
    <3>2. S = 0
      BY <3>1
    <3> QED BY <1>1, <2>1, <3>2
  <2>2. CASE n > 0
    <3> DEFINE d == S - n * u
    <3>1. d * d >= 0
      <4>1. d \in Int
        OBVIOUS
      <4> HIDE DEF d
      <4> QED BY <4>1
    <3>2. d * d = S * S - 2 * (n * (S * u)) + n * (n * (u * u))
      OBVIOUS
    <3>3. n * (S * u) \in Nat /\ n * (n * (u * u)) \in Nat
      BY <1>1
    <3>4. 2 * (n * (S * u)) <= n * Q + n * (n * (u * u))
      BY <1>1, <3>1, <3>2, <3>3
    <3>5. (2 * (S * u)) * n = 2 * (n * (S * u))
          /\ (n * (u * u) + Q) * n = n * Q + n * (n * (u * u))
      OBVIOUS
    <3>6. 2 * (S * u) \in Int /\ n * (u * u) + Q \in Int /\ n \in Nat \ {0}
      BY <1>1, <2>2
    <3>7. (2 * (S * u)) * n <= (n * (u * u) + Q) * n
      BY <3>4, <3>5
    <3> QED BY <3>6, <3>7, Cancel
  <2> QED BY <2>1, <2>2
<1> QED BY <1>1, <1>2

LEMMA MeanFacts ==
  ASSUME NEW n \in Nat \ {0}, NEW lo \in Nat, NEW hi \in Nat, NEW sum \in Nat,
         n * lo <= sum, sum <= n * hi
  PROVE  lo <= sum \div n /\ sum \div n <= hi
<1> DEFINE q == sum \div n
<1>1. q \in Int /\ q * n <= sum /\ sum < q * n + n
  BY DivisionFacts
<1> HIDE DEF q
<1>2. lo * n <= sum /\ sum <= hi * n /\ (q + 1) * n = q * n + n /\ lo * n \in Int /\ hi * n \in Int
      /\ q * n \in Int
  BY <1>1
<1>3. lo * n < (q + 1) * n /\ q * n <= hi * n
  BY <1>1, <1>2
<1>4. lo < q + 1 /\ q <= hi
  BY <1>1, <1>3, Cancel
<1> QED BY <1>1, <1>4 DEF q

LEMMA VarianceFacts ==
  ASSUME NEW n \in Nat \ {0}, NEW S \in Nat, NEW Q \in Nat, S * S <= n * Q
  PROVE  (Q \div n) - (S \div n) * (S \div n) >= 0
<1> DEFINE m == S \div n
           v == Q \div n
<1>1. /\ m \in Int /\ m * n <= S /\ S < m * n + n
      /\ v \in Int /\ v * n <= Q /\ Q < v * n + n
  BY DivisionFacts
<1> HIDE DEF m, v
<1>2. m >= 0
  <2>1. 0 * n < (m + 1) * n
    BY <1>1
  <2>2. 0 < m + 1
    BY <1>1, <2>1, Cancel
  <2> QED BY <1>1, <2>2
<1>3. m * n \in Nat /\ (m * n) * (m * n) <= S * S
  <2>1. m * n \in Nat
    BY <1>1, <1>2
  <2> QED BY <1>1, <2>1
<1>4. (m * n) * (m * n) = ((m * m) * n) * n /\ n * Q = Q * n
  BY <1>1
<1>5. ((m * m) * n) * n <= Q * n
  <2>1. ((m * m) * n) * n \in Int /\ S * S \in Int /\ Q * n \in Int
    BY <1>1
  <2> QED BY <1>3, <1>4, <2>1
<1>6. (m * m) * n \in Int /\ m * m \in Int
  BY <1>1
<1>7. (m * m) * n <= Q
  BY <1>5, <1>6, Cancel
<1>8. (m * m) * n < (v + 1) * n
  <2>1. (v + 1) * n = v * n + n /\ v * n \in Int
    BY <1>1
  <2> QED BY <1>1, <1>6, <1>7, <2>1
<1>9. m * m < v + 1
  BY <1>1, <1>6, <1>8, Cancel
<1>10. v - m * m >= 0
  BY <1>1, <1>6, <1>9
<1> QED BY <1>10 DEF m, v


-------------------------------------------------------------------------------
(* A reply to one of our probes is for the slot that probe has, unless it  *)
(* is a whole ring late; only what is meant for another process names none. *)

InLastRing(p) == p > sent - SeqMod

GenuineInv ==
  /\ \A r \in on_wire :
       /\ r.probe \in 1 .. sent /\ r.at > 0
       /\ InLastRing(r.probe) => r.probe = Owner(r.seq) /\ sent_times[r.seq] = r.at
  /\ \A i \in 1 .. Len(sockbuf) : sockbuf[i].mine =>
       /\ StraySeqs = {} => sockbuf[i].probe > 0
       /\ sockbuf[i].probe > 0 =>
            /\ sockbuf[i].probe \in heard
            /\ InLastRing(sockbuf[i].probe) =>
                 /\ sockbuf[i].probe = Owner(sockbuf[i].seq)
                 /\ sent_times[sockbuf[i].seq] > 0 /\ sent_times[sockbuf[i].seq] < clock
  /\ heard \subseteq 1 .. sent

(* A reply still in the buffer is for one of the last SeqMod probes.       *)
AnswersTimely == \A i \in 1 .. Len(sockbuf) : sockbuf[i].mine => Fits(sockbuf[i])

LEMMA GenuineInit == Init => GenuineInv
BY DEF Init, GenuineInv

(* What a new request does to the slots: a probe in the last ring after it *)
(* does not own the slot that is taken.                                    *)
LEMMA SendTakesSlot ==
  ASSUME TypeInv, HeadSend
  PROVE  /\ seq \in Slot /\ sent \in Nat /\ sent' = sent + 1
         /\ UNCHANGED <<sockbuf, clock, heard, answered, expired>>
         /\ \A s \in Slot :
              /\ Owner(s)' = IF s = seq THEN sent + 1 ELSE Owner(s)
              /\ sent_times'[s] = IF s = seq THEN clock ELSE sent_times[s]
         /\ \A p \in 1 .. sent : InLastRing(p)' => InLastRing(p) /\ p # Owner(seq)
<1>1. seq \in Slot /\ sent \in Nat /\ sent' = sent + 1 /\ seq' = Succ(seq)
  BY DEF TypeInv, TypeOK, HeadSend
<1>2. \A s \in Slot : Owner(s)' = IF s = seq THEN sent + 1 ELSE Owner(s)
  BY <1>1, OwnerAfterSend
<1>3. Owner(seq) = sent + 1 - SeqMod
  BY <1>1, OwnerFacts
<1>4. \A p \in 1 .. sent : InLastRing(p)' => InLastRing(p) /\ p # Owner(seq)
  BY <1>1, <1>3, SeqModAssumption DEF InLastRing
<1>5. \A s \in Slot : sent_times'[s] = IF s = seq THEN clock ELSE sent_times[s]
  BY DEF HeadSend, TypeInv, TypeOK
<1>6. UNCHANGED <<sockbuf, clock, heard, answered, expired>>
  BY DEF HeadSend, history
<1> QED BY <1>1, <1>2, <1>4, <1>5, <1>6

LEMMA GenuineStep == TypeInv /\ GenuineInv /\ [Next]_vars => GenuineInv'
<1> SUFFICES ASSUME TypeInv, GenuineInv, [Next]_vars PROVE GenuineInv'
  OBVIOUS
<1>s. ASSUME UNCHANGED <<seq, sent, sent_times, on_wire, sockbuf, heard>>,
             clock' \in Nat, clock' >= clock
      PROVE  GenuineInv'
  <2>1. \A i \in 1 .. Len(sockbuf) :
          sockbuf[i].mine /\ sent_times[sockbuf[i].seq] < clock
            => sent_times[sockbuf[i].seq] < clock'
    <3> SUFFICES ASSUME NEW i \in 1 .. Len(sockbuf), sent_times[sockbuf[i].seq] < clock
                 PROVE  sent_times[sockbuf[i].seq] < clock'
      OBVIOUS
    <3>1. sockbuf[i] \in Packet
      BY DEF TypeInv, TypeOK
    <3>2. sent_times[sockbuf[i].seq] \in Nat /\ clock \in Nat
      BY <3>1 DEF Packet, TypeInv, TypeOK
    <3> QED BY <1>s, <3>2
  <2> QED BY <1>s, <2>1 DEF GenuineInv, InLastRing, Owner, Age
<1>p. ASSUME NEW i \in 1 .. Len(sockbuf) PROVE sockbuf[i] \in Packet /\ sockbuf[i].seq \in Slot
  <2>1. sockbuf[i] \in Packet
    BY DEF TypeInv, TypeOK
  <2> QED BY <2>1 DEF Packet
<1>r. ASSUME NEW r \in on_wire PROVE r.seq \in Slot /\ r.at \in Nat
  BY DEF TypeInv, TypeOK, Request
<1>c. clock \in Nat /\ clock > 0
  BY DEF TypeInv, TypeOK
<1>1. CASE HeadSend
  <2>1. /\ seq \in Slot /\ sent \in Nat /\ sent' = sent + 1
        /\ UNCHANGED <<sockbuf, clock, heard, answered, expired>>
        /\ \A s \in Slot : /\ Owner(s)' = IF s = seq THEN sent + 1 ELSE Owner(s)
                           /\ sent_times'[s] = IF s = seq THEN clock ELSE sent_times[s]
        /\ \A p \in 1 .. sent : InLastRing(p)' => InLastRing(p) /\ p # Owner(seq)
    BY <1>1, SendTakesSlot
  <2>4. \A r \in on_wire' : r \in on_wire \/ r = [probe |-> sent + 1, seq |-> seq, at |-> clock]
    BY <1>1 DEF HeadSend
  <2>5. ASSUME NEW r \in on_wire'
        PROVE  /\ r.probe \in 1 .. sent' /\ r.at > 0
               /\ InLastRing(r.probe)' => r.probe = Owner(r.seq)' /\ sent_times'[r.seq] = r.at
    <3>1. CASE r \in on_wire
      <4>1. /\ r.seq \in Slot /\ r.probe \in 1 .. sent /\ r.at > 0
            /\ InLastRing(r.probe) => r.probe = Owner(r.seq) /\ sent_times[r.seq] = r.at
        BY <1>r, <3>1 DEF GenuineInv
      <4>2. ASSUME InLastRing(r.probe)'
            PROVE  r.probe = Owner(r.seq)' /\ sent_times'[r.seq] = r.at
        <5>1. InLastRing(r.probe) /\ r.probe # Owner(seq)
          BY <2>1, <4>1, <4>2
        <5> QED BY <2>1, <4>1, <5>1
      <4> QED BY <2>1, <4>1, <4>2
    <3>2. CASE r = [probe |-> sent + 1, seq |-> seq, at |-> clock]
      <4>1. r.probe = sent + 1 /\ r.seq = seq /\ r.at = clock
        BY <3>2
      <4> QED BY <1>c, <2>1, <4>1
    <3> QED BY <2>4, <2>5, <3>1, <3>2
  <2>6. ASSUME NEW i \in 1 .. Len(sockbuf), sockbuf[i].mine, sockbuf[i].probe > 0
        PROVE  /\ sockbuf[i].probe \in heard
               /\ InLastRing(sockbuf[i].probe)' =>
                    /\ sockbuf[i].probe = Owner(sockbuf[i].seq)'
                    /\ sent_times'[sockbuf[i].seq] > 0 /\ sent_times'[sockbuf[i].seq] < clock
    <3>1. /\ sockbuf[i].seq \in Slot /\ sockbuf[i].probe \in heard /\ sockbuf[i].probe \in 1 .. sent
          /\ InLastRing(sockbuf[i].probe) =>
               /\ sockbuf[i].probe = Owner(sockbuf[i].seq)
               /\ sent_times[sockbuf[i].seq] > 0 /\ sent_times[sockbuf[i].seq] < clock
      BY <1>p, <2>6 DEF GenuineInv
    <3> QED BY <2>1, <3>1
  <2>7. heard \subseteq 1 .. sent'
    BY <2>1 DEF GenuineInv, TypeInv, TypeOK
  <2> QED BY <2>1, <2>5, <2>6, <2>7 DEF GenuineInv
<1>2. CASE \/ Sweep \/ HeadExit \/ HeadIdle \/ PollBegins \/ PollReturns \/ DrainEnd \/ HandleSigint
           \/ UNCHANGED vars
  <2>1. UNCHANGED <<seq, sent, sent_times, on_wire, sockbuf, heard, clock>>
    BY <1>2 DEF Sweep, HeadExit, Leave, HeadIdle, PollBegins, PollReturns, DrainEnd, HandleSigint,
                vars, window, world, history
  <2> QED BY <1>c, <1>s, <2>1
<1>3. CASE Tick
  <2>1. UNCHANGED <<seq, sent, sent_times, on_wire, sockbuf, heard>>
    BY <1>3 DEF Tick, window
  <2>2. clock' \in Nat /\ clock' >= clock
    BY <1>3, <1>c DEF Tick
  <2> QED BY <1>s, <2>1, <2>2
<1>t. ASSUME AtPacket, sockbuf' = Tail(sockbuf)
      PROVE  \A i \in 1 .. Len(sockbuf') : i + 1 \in 1 .. Len(sockbuf) /\ sockbuf'[i] = sockbuf[i + 1]
  BY <1>t DEF AtPacket, TypeInv, TypeOK
<1>4. CASE DrainIgnore \/ DrainCredit
  <2>1. /\ UNCHANGED <<seq, sent, sent_times, on_wire, heard, clock>>
        /\ AtPacket /\ sockbuf' = Tail(sockbuf)
    BY <1>4 DEF DrainIgnore, DrainCredit, window
  <2> QED BY <1>t, <2>1 DEF GenuineInv, InLastRing, Owner, Age
<1>e. ASSUME NEW p \in Packet, Enqueue(p), heard \subseteq heard', heard' \subseteq 1 .. sent,
             p.mine => /\ StraySeqs = {} => p.probe > 0
                       /\ p.probe > 0 =>
                            /\ p.probe \in heard'
                            /\ InLastRing(p.probe) =>
                                 /\ p.probe = Owner(p.seq)
                                 /\ sent_times[p.seq] > 0 /\ sent_times[p.seq] < clock
      PROVE  GenuineInv'
  <2>1. \A i \in 1 .. Len(sockbuf') :
          \/ i \in 1 .. Len(sockbuf) /\ sockbuf'[i] = sockbuf[i]
          \/ sockbuf'[i] = p
    BY <1>e DEF Enqueue, TypeInv, TypeOK
  <2>2. UNCHANGED <<seq, sent, sent_times, on_wire, clock>>
    BY <1>e DEF Enqueue, window
  <2> QED BY <1>e, <2>1, <2>2 DEF GenuineInv, InLastRing, Owner, Age
<1>6. CASE ArriveReply
  <2>1. PICK r \in on_wire : /\ r.at < clock
                             /\ Enqueue([mine |-> TRUE, seq |-> r.seq, probe |-> r.probe])
                             /\ heard' = heard \cup {r.probe}
    BY <1>6 DEF ArriveReply
  <2> DEFINE p == [mine |-> TRUE, seq |-> r.seq, probe |-> r.probe]
  <2>2. p \in Packet
    BY DEF TypeInv, TypeOK, Request, Packet
  <2>3. p.seq = r.seq /\ p.probe = r.probe
    OBVIOUS
  <2>4. /\ r.probe \in 1 .. sent /\ r.at > 0
        /\ InLastRing(r.probe) => r.probe = Owner(r.seq) /\ sent_times[r.seq] = r.at
    BY DEF GenuineInv
  <2>6. heard' \subseteq 1 .. sent
    BY <2>1, <2>4 DEF GenuineInv
  <2> HIDE DEF p
  <2>7. Enqueue(p)
    BY <2>1 DEF p
  <2> QED BY <1>e, <2>1, <2>2, <2>3, <2>4, <2>6, <2>7
<1>7. CASE ArriveForeign
  <2>1. Foreign \in Packet /\ ~Foreign.mine
    BY SeqModAssumption DEF Foreign, Packet, Slot
  <2> QED BY <1>e, <1>7, <2>1 DEF ArriveForeign, GenuineInv
<1>8. CASE ArriveStray
  <2>1. PICK s \in StraySeqs : Enqueue([mine |-> TRUE, seq |-> s, probe |-> 0])
    BY <1>8 DEF ArriveStray
  <2> DEFINE p == [mine |-> TRUE, seq |-> s, probe |-> 0]
  <2>2. p \in Packet /\ Enqueue(p) /\ ~(p.probe > 0) /\ StraySeqs # {}
    BY <2>1, StrayAssumption DEF Packet
  <2> HIDE DEF p
  <2>3. heard' = heard /\ heard \subseteq 1 .. sent
    BY <1>8 DEF ArriveStray, GenuineInv
  <2> QED BY <1>e, <2>2, <2>3
<1> QED BY <1>1, <1>2, <1>3, <1>4, <1>6, <1>7, <1>8 DEF Next, Process, Terminated

LEMMA GenuineInvariant == Spec => [](TypeInv /\ GenuineInv)
BY TypeInit, TypeNext, GenuineInit, GenuineStep, PTL DEF Spec

(* A reply that fits is for the slot of its probe. *)
FitsTheSlot(i) ==
  /\ sockbuf[i].probe \in heard /\ sockbuf[i].probe = Owner(sockbuf[i].seq)
  /\ sent_times[sockbuf[i].seq] > 0 /\ sent_times[sockbuf[i].seq] < clock

LEMMA FitFacts ==
  ASSUME TypeInv, GenuineInv, NEW i \in 1 .. Len(sockbuf), sockbuf[i].mine, Fits(sockbuf[i])
  PROVE  FitsTheSlot(i)
<1>1. sockbuf[i].probe > 0 /\ sockbuf[i].probe + SeqMod > sent
  BY DEF Fits
<1>2. sockbuf[i].probe \in heard
  BY <1>1 DEF GenuineInv
<1>3. sockbuf[i].probe \in 1 .. sent /\ sent \in Nat
  BY <1>2 DEF GenuineInv, TypeInv, TypeOK
<1>4. InLastRing(sockbuf[i].probe)
  BY <1>1, <1>3, SeqModAssumption DEF InLastRing
<1> QED BY <1>1, <1>2, <1>4 DEF GenuineInv, FitsTheSlot

(* What a timely reply is credited to. *)
LEMMA CreditedSlot ==
  ASSUME TypeInv, GenuineInv, AnswersTimely, DrainCredit, NEW s, s = Head(sockbuf).seq
  PROVE  /\ s \in Slot /\ Owner(s) \in heard /\ ~replied_or_timeout[s]
         /\ sent_times[s] \in Nat /\ sent_times[s] > 0 /\ sent_times[s] < clock
         /\ answered' = answered \cup {Owner(s)}
<1>1. /\ Head(sockbuf).mine /\ ~replied_or_timeout[s] /\ sockbuf # <<>>
      /\ answered' = IF sent_times[s] > 0 THEN answered \cup {Owner(s)} ELSE answered
  BY DEF DrainCredit, Credits, AtPacket
<1>2. /\ Head(sockbuf) = sockbuf[1] /\ 1 \in 1 .. Len(sockbuf) /\ sockbuf[1] \in Packet
  BY <1>1 DEF TypeInv, TypeOK
<1>3. s \in Slot /\ sent_times[s] \in Nat
  BY <1>2 DEF Packet, TypeInv, TypeOK
<1>4. Owner(s) \in heard /\ sent_times[s] > 0 /\ sent_times[s] < clock
  <2>1. Fits(sockbuf[1]) /\ sockbuf[1].mine
    BY <1>1, <1>2 DEF AnswersTimely
  <2>2. FitsTheSlot(1)
    BY <1>2, <2>1, FitFacts
  <2> QED BY <1>1, <1>2, <2>2 DEF FitsTheSlot
<1> QED BY <1>1, <1>3, <1>4

(* No reply can be a whole ring late if there are at most as many probes   *)
(* as slots.                                                               *)
LEMMA TimelyWhenShort ==
  ASSUME Count \in 1 .. SeqMod, StraySeqs = {}
  PROVE  Spec => []AnswersTimely
<1> DEFINE Short == sent <= Count
<1>1. Init => Short
  BY DEF Init
<1>2. TypeInv /\ Short /\ [Next]_vars => Short'
  <2> SUFFICES ASSUME TypeInv, Short, [Next]_vars PROVE sent' <= Count
    OBVIOUS
  <2>1. CASE HeadSend
    BY <2>1 DEF HeadSend, MaySend, TypeInv, TypeOK
  <2>2. CASE ~HeadSend
    <3>1. sent' = sent
      BY <2>2 DEF Next, Process, Terminated, HeadExit, Leave, HeadIdle, Sweep, PollBegins,
                  PollReturns, DrainIgnore, DrainCredit, DrainEnd, HandleSigint, Tick, ArriveReply, ArriveForeign,
                  ArriveStray, Enqueue, vars, window
    <3> QED BY <3>1
  <2> QED BY <2>1, <2>2
<1>3. TypeInv /\ GenuineInv /\ Short => AnswersTimely
  <2> SUFFICES ASSUME TypeInv, GenuineInv, Short, NEW i \in 1 .. Len(sockbuf), sockbuf[i].mine
               PROVE  Fits(sockbuf[i])
    BY DEF AnswersTimely
  <2>1. sockbuf[i].probe \in 1 .. sent /\ sent \in Nat
    BY DEF GenuineInv, TypeInv, TypeOK
  <2>2. sockbuf[i].probe + SeqMod > sent
    BY <2>1, SeqModAssumption
  <2> QED BY <2>1, <2>2 DEF Fits
<1> QED BY <1>1, <1>2, <1>3, GenuineInvariant, PTL DEF Spec

LEMMA CreditStep ==
  TypeInv /\ GenuineInv /\ AnswersTimely /\ CreditGenuine /\ [Next]_vars => CreditGenuine'
<1> SUFFICES ASSUME TypeInv, GenuineInv, AnswersTimely, CreditGenuine, [Next]_vars
             PROVE  answered' \subseteq heard'
  BY DEF CreditGenuine
<1>1. CASE DrainCredit
  <2> DEFINE s == Head(sockbuf).seq
  <2>1. Owner(s) \in heard /\ answered' = answered \cup {Owner(s)}
    BY <1>1, CreditedSlot
  <2>2. heard' = heard
    BY <1>1 DEF DrainCredit
  <2> QED BY <2>1, <2>2 DEF CreditGenuine
<1>2. CASE ~DrainCredit
  <2>1. answered' = answered /\ heard \subseteq heard'
    BY <1>2 DEF Next, Process, Terminated, HeadExit, Leave, HeadSend, HeadIdle, Sweep, PollBegins,
                PollReturns, DrainIgnore, DrainEnd, HandleSigint, Tick, ArriveReply, ArriveForeign, ArriveStray,
                Enqueue, vars, world, history
  <2> QED BY <2>1 DEF CreditGenuine
<1> QED BY <1>1, <1>2

(* When each packet taken for a reply answers one of the last 65536        *)
(* probes - no other process has the same id, and no reply comes a whole   *)
(* ring late - a probe is counted only for a reply to it, in a run of any  *)
(* length.                                                                 *)
THEOREM CreditIsGenuine == Spec /\ []AnswersTimely => []CreditGenuine
<1>1. Init => CreditGenuine
  BY DEF Init, CreditGenuine
<1> QED BY <1>1, CreditStep, GenuineInvariant, PTL DEF Spec

(* With at most as many probes as slots, whatever the delays.              *)
THEOREM CreditIsGenuineWhenShort ==
  ASSUME Count \in 1 .. SeqMod, StraySeqs = {}
  PROVE  Spec => []CreditGenuine
BY CreditIsGenuine, TimelyWhenShort, PTL

-------------------------------------------------------------------------------
(* What is counted: probes whose own reply came, each once, and misfits.   *)

CountInv == received <= Cardinality(answered \cap heard) + misfits

(* A reply that fits is for a probe that has not been counted. *)
LEMMA FitIsAnswer ==
  ASSUME TypeInv, ReportedInv, GenuineInv, DrainCredit, Fits(Head(sockbuf)),
         NEW p, p = Head(sockbuf).probe
  PROVE  p \in heard /\ p \notin answered /\ answered' = answered \cup {p}
<1> DEFINE s == Head(sockbuf).seq
<1>1. /\ Head(sockbuf).mine /\ ~replied_or_timeout[s] /\ sockbuf # <<>>
      /\ answered' = IF sent_times[s] > 0 THEN answered \cup {Owner(s)} ELSE answered
  BY DEF DrainCredit, Credits, AtPacket
<1>2. Head(sockbuf) = sockbuf[1] /\ 1 \in 1 .. Len(sockbuf) /\ sockbuf[1] \in Packet
  BY <1>1 DEF TypeInv, TypeOK
<1>3. FitsTheSlot(1)
  BY <1>1, <1>2, FitFacts
<1>4. s \in Slot /\ p \in heard /\ p = Owner(s) /\ sent_times[s] > 0
  BY <1>2, <1>3 DEF FitsTheSlot, Packet
<1>5. Owner(s) \notin answered
  BY <1>1, <1>4 DEF ReportedInv, OpenUnfiled
<1> QED BY <1>1, <1>4, <1>5

LEMMA CountStep ==
  TypeInv /\ ReportedInv /\ GenuineInv /\ CountInv /\ [Next]_vars => CountInv'
<1> SUFFICES ASSUME TypeInv, ReportedInv, GenuineInv, CountInv, [Next]_vars PROVE CountInv'
  OBVIOUS
<1>a. received \in Nat /\ misfits \in Nat /\ IsFiniteSet(answered)
  BY DEF TypeInv, TypeOK, ReportedInv, Tally
<1>c. ASSUME NEW H PROVE IsFiniteSet(answered \cap H) /\ Cardinality(answered \cap H) \in Nat
  BY <1>a, FS_Subset, FS_CardinalityType
<1>1. CASE ~DrainCredit
  <2> DEFINE now == answered \cap heard
             new == answered \cap heard'
  <2>1. UNCHANGED <<misfits, received, answered>> /\ heard \subseteq heard'
    <3>1. Process => UNCHANGED <<misfits, received, answered, heard>>
      BY <1>1 DEF Process, HeadExit, Leave, HeadSend, HeadIdle, Sweep, PollBegins, PollReturns,
                  DrainIgnore, DrainEnd, world, results, history
    <3>2. HandleSigint \/ Tick \/ Terminated \/ UNCHANGED vars
            => UNCHANGED <<misfits, received, answered, heard>>
      BY DEF HandleSigint, Tick, Terminated, vars, world, results, history
    <3>3. ArriveReply \/ ArriveForeign \/ ArriveStray
            => UNCHANGED <<misfits, received, answered>> /\ heard \subseteq heard'
      BY DEF ArriveReply, ArriveForeign, ArriveStray, Enqueue, results, history
    <3> QED BY <3>1, <3>2, <3>3 DEF Next
  <2>2. now \subseteq new /\ IsFiniteSet(new) /\ Cardinality(new) \in Nat /\ Cardinality(now) \in Nat
    BY <1>c, <2>1
  <2>3. received <= Cardinality(now) + misfits
    BY DEF CountInv
  <2>4. CountInv' <=> received <= Cardinality(new) + misfits
    BY <2>1 DEF CountInv
  <2> HIDE DEF now, new
  <2>5. Cardinality(now) <= Cardinality(new)
    BY <2>2, FS_Subset
  <2> QED BY <1>a, <2>2, <2>3, <2>4, <2>5
<1>2. CASE DrainCredit
  <2> DEFINE s == Head(sockbuf).seq
  <2>1. /\ received' = received + 1 /\ heard' = heard
        /\ misfits' = IF Fits(Head(sockbuf)) THEN misfits ELSE misfits + 1
        /\ answered' = IF sent_times[s] > 0 THEN answered \cup {Owner(s)} ELSE answered
    BY <1>2 DEF DrainCredit
  <2> HIDE DEF s
  <2> DEFINE now == answered \cap heard
             new == answered' \cap heard
  <2>2. IsFiniteSet(now) /\ Cardinality(now) \in Nat /\ now \subseteq new
    BY <1>c, <2>1
  <2>3. IsFiniteSet(answered')
    <3>1. CASE sent_times[s] > 0
      BY <1>a, <2>1, <3>1, FS_AddElement
    <3>2. CASE ~(sent_times[s] > 0)
      BY <1>a, <2>1, <3>2
    <3> QED BY <3>1, <3>2
  <2>4. IsFiniteSet(new) /\ Cardinality(new) \in Nat
    BY <2>3, FS_Subset, FS_CardinalityType
  <2>5. received <= Cardinality(now) + misfits
    BY DEF CountInv
  <2>6. CountInv' <=> received' <= Cardinality(new) + misfits'
    BY <2>1 DEF CountInv
  <2>7. CASE Fits(Head(sockbuf))
    <3> DEFINE p == Head(sockbuf).probe
    <3>1. p \in heard /\ p \notin answered /\ answered' = answered \cup {p}
      BY <1>2, <2>7, FitIsAnswer
    <3> HIDE DEF p
    <3>2. new = now \cup {p} /\ p \notin now
      BY <3>1
    <3> HIDE DEF now, new
    <3>3. Cardinality(new) = Cardinality(now) + 1
      BY <2>2, <3>2, FS_AddElement
    <3> QED BY <1>a, <2>1, <2>2, <2>5, <2>6, <2>7, <3>3
  <2>8. CASE ~Fits(Head(sockbuf))
    <3> HIDE DEF now, new
    <3>1. Cardinality(now) <= Cardinality(new)
      BY <2>2, <2>4, FS_Subset
    <3> QED BY <1>a, <2>1, <2>2, <2>4, <2>5, <2>6, <2>8, <3>1
  <2> QED BY <2>7, <2>8
<1> QED BY <1>1, <1>2

(* However the slots wrap, and whatever is late, doubled or meant for      *)
(* another process: what ping counts are probes whose own reply came, each *)
(* once, and one more for each packet it took for a reply that answers no  *)
(* probe a slot belongs to.  So a loss is hidden, or a reply invented,     *)
(* only by such a packet, and by each at most one.                         *)
THEOREM CountErrorIsBounded == Spec => []CountErrorBounded
<1>1. TypeInv /\ ReportedInv /\ CountInv => CountErrorBounded
  <2> SUFFICES ASSUME TypeInv, ReportedInv, CountInv PROVE CountErrorBounded
    OBVIOUS
  <2> DEFINE C == answered \cap heard
  <2>1. received \in Nat /\ misfits \in Nat /\ IsFiniteSet(answered)
        /\ Cardinality(answered) <= received
    BY DEF TypeInv, TypeOK, ReportedInv, Tally
  <2>2. C \subseteq answered
    OBVIOUS
  <2>3. received <= Cardinality(C) + misfits
    BY DEF CountInv
  <2> HIDE DEF C
  <2>4. Cardinality(C) <= Cardinality(answered) /\ Cardinality(C) \in Nat
        /\ Cardinality(answered) \in Nat
    BY <2>1, <2>2, FS_Subset, FS_CardinalityType
  <2>5. received - Cardinality(C) \in 0 .. misfits
    BY <2>1, <2>3, <2>4
  <2> QED BY <2>5 DEF CountErrorBounded, C
<1>2. Init => CountInv
  <2> SUFFICES ASSUME Init PROVE CountInv
    OBVIOUS
  <2>1. received = 0 /\ answered \cap heard = {} /\ misfits = 0
    BY DEF Init
  <2> QED BY <2>1, FS_EmptySet DEF CountInv
<1> QED BY <1>1, <1>2, TypeInit, TypeNext, ReportedInit, ReportedNext, GenuineInit, GenuineStep,
           CountStep, PTL DEF Spec

-------------------------------------------------------------------------------
(* Every rtt is positive, so that a minimum of 0 means no sample yet.      *)
StatsInv ==
  /\ stats.min = 0 <=> received = 0
  /\ received * stats.min <= stats.sum /\ stats.sum <= received * stats.max
  /\ stats.sum_us * stats.sum_us <= received * stats.sum_squares_us

LEMMA StatsStep ==
  ASSUME TypeInv, GenuineInv, AnswersTimely, StatsInv, DrainCredit
  PROVE  StatsInv'
<1> DEFINE s == Head(sockbuf).seq
           lo == IF stats.min = 0 \/ clock - sent_times[s] < stats.min
                 THEN clock - sent_times[s] ELSE stats.min
           hi == IF clock - sent_times[s] > stats.max THEN clock - sent_times[s] ELSE stats.max
           us == (clock - sent_times[s]) \div NsPerUs
           rtt == clock - sent_times[s]
<1>1. /\ received' = received + 1
      /\ \E r \in Rtts(s) : stats' = UpdateStats(stats, r)
  BY DEF DrainCredit
<1>3. s \in Slot /\ sent_times[s] \in Nat /\ sent_times[s] > 0 /\ sent_times[s] < clock
  BY CreditedSlot
<1>4. rtt \in Nat /\ rtt > 0 /\ stats' = UpdateStats(stats, rtt)
  BY <1>1, <1>3 DEF Rtts, TypeInv, TypeOK
<1>5. /\ stats.min \in Nat /\ stats.max \in Nat /\ stats.sum \in Nat
      /\ stats.sum_us \in Nat /\ stats.sum_squares_us \in Nat /\ received \in Nat
  BY DEF TypeInv, TypeOK, Stats
<1> HIDE DEF s
<1>6. us \in Nat
  BY <1>4, NsPerUsAssumption
<1>7. /\ stats'.min = lo /\ stats'.max = hi /\ stats'.sum = stats.sum + rtt
      /\ stats'.sum_us = stats.sum_us + us
      /\ stats'.sum_squares_us = stats.sum_squares_us + us * us
  BY <1>4 DEF UpdateStats
<1>8. /\ lo \in Nat /\ lo > 0 /\ lo <= rtt /\ (stats.min # 0 => lo <= stats.min)
      /\ hi \in Nat /\ rtt <= hi /\ stats.max <= hi
  BY <1>4, <1>5
<1> HIDE DEF lo, hi, us, rtt
<1>9. received * lo <= stats.sum
  <2>1. CASE received = 0
    BY <1>5, <1>8, <2>1
  <2>2. CASE received > 0
    <3>1. lo <= stats.min
      BY <1>5, <1>8, <2>2 DEF StatsInv
    <3>2. received * lo <= received * stats.min
      BY <1>5, <1>8, <3>1, Scaled
    <3>3. received * lo \in Nat /\ received * stats.min \in Nat
      BY <1>5, <1>8
    <3> QED BY <1>5, <3>2, <3>3 DEF StatsInv
  <2> QED BY <1>5, <2>1, <2>2
<1>10. stats.sum <= received * hi
  <2>1. received * stats.max <= received * hi
    BY <1>5, <1>8, Scaled
  <2>2. received * hi \in Nat /\ received * stats.max \in Nat
    BY <1>5, <1>8
  <2> QED BY <1>5, <2>1, <2>2 DEF StatsInv
<1>11. received' * stats'.min <= stats'.sum /\ stats'.sum <= received' * stats'.max
  BY <1>1, <1>4, <1>5, <1>7, <1>8, <1>9, <1>10, MeanStep
<1>12. stats'.sum_us * stats'.sum_us <= received' * stats'.sum_squares_us
  BY <1>1, <1>5, <1>6, <1>7, SquaresStep DEF StatsInv
<1>13. stats'.min = 0 <=> received' = 0
  BY <1>1, <1>5, <1>7, <1>8
<1> QED BY <1>11, <1>12, <1>13 DEF StatsInv

LEMMA StatsNext == TypeInv /\ GenuineInv /\ AnswersTimely /\ StatsInv /\ [Next]_vars => StatsInv'
<1> SUFFICES ASSUME TypeInv, GenuineInv, AnswersTimely, StatsInv, [Next]_vars, ~DrainCredit PROVE StatsInv'
  BY StatsStep
<1>1. HeadExit \/ HeadSend \/ HeadIdle \/ Sweep \/ PollBegins \/ PollReturns \/ DrainIgnore \/ DrainEnd
        => UNCHANGED results
  BY DEF HeadExit, Leave, HeadSend, HeadIdle, Sweep, PollBegins, PollReturns, DrainIgnore, DrainEnd
<1>2. HandleSigint \/ Tick \/ ArriveReply \/ ArriveForeign \/ ArriveStray \/ UNCHANGED vars
        => UNCHANGED results
  BY DEF HandleSigint, Tick, ArriveReply, ArriveForeign, ArriveStray, Enqueue, vars
<1>3. UNCHANGED results
  BY <1>1, <1>2 DEF Next, Process, Terminated
<1> QED BY <1>3 DEF results, StatsInv

(* Under the same conditions, ping's statistics make sense: the average    *)
(* lies between minimum and maximum, and the unsigned difference under the *)
(* root of mdev does not underflow, whole-number division included.        *)
THEOREM StatisticsAreSound == Spec /\ []AnswersTimely => []StatsConsistent
<1>1. Init => StatsInv
  BY DEF Init, StatsInv, NoStats
<1>2. TypeInv /\ StatsInv => StatsConsistent
  <2> SUFFICES ASSUME TypeInv, StatsInv, received > 0
               PROVE  /\ stats.min <= Average(stats, received)
                      /\ Average(stats, received) <= stats.max
                      /\ VarianceUs(stats, received) >= 0
    BY DEF StatsConsistent
  <2>1. /\ stats.min \in Nat /\ stats.max \in Nat /\ stats.sum \in Nat
        /\ stats.sum_us \in Nat /\ stats.sum_squares_us \in Nat /\ received \in Nat \ {0}
    BY DEF TypeInv, TypeOK, Stats
  <2>2. stats.min <= stats.sum \div received /\ stats.sum \div received <= stats.max
    BY <2>1, MeanFacts DEF StatsInv
  <2>3. (stats.sum_squares_us \div received)
          - (stats.sum_us \div received) * (stats.sum_us \div received) >= 0
    BY <2>1, VarianceFacts DEF StatsInv
  <2> QED BY <2>2, <2>3 DEF Average, VarianceUs
<1> QED BY <1>1, <1>2, StatsNext, GenuineInvariant, PTL DEF Spec

(* With at most as many probes as slots, whatever the delays.              *)
THEOREM StatisticsAreSoundWhenShort ==
  ASSUME Count \in 1 .. SeqMod, StraySeqs = {}
  PROVE  Spec => []StatsConsistent
BY StatisticsAreSound, TimelyWhenShort, PTL


-------------------------------------------------------------------------------
(* Ping implements ProbeLedger.                                            *)

ExitInv == exit_by = "none" <=> pc # "done"

LEMMA ExitStep == TypeInv /\ ExitInv /\ [Next]_vars => ExitInv'
<1> SUFFICES ASSUME ExitInv, [Next]_vars PROVE ExitInv'
  OBVIOUS
<1>1. CASE HeadExit \/ Sweep
  <2>1. \/ pc' = "done" /\ exit_by' \in {"signal", "deadline", "count"}
        \/ pc # "done" /\ pc' # "done" /\ exit_by' = exit_by
    BY <1>1 DEF HeadExit, Leave, Sweep
  <2> QED BY <2>1 DEF ExitInv
<1>2. CASE HeadSend \/ HeadIdle \/ PollBegins \/ PollReturns \/ DrainIgnore \/ DrainCredit
           \/ DrainEnd
  <2>1. exit_by' = exit_by /\ pc # "done" /\ pc' # "done"
    BY <1>2 DEF HeadSend, HeadIdle, AtSend, PollBegins, PollReturns, DrainIgnore, DrainCredit,
                AtPacket, DrainEnd
  <2> QED BY <2>1 DEF ExitInv
<1>3. CASE HandleSigint \/ Tick \/ ArriveReply \/ ArriveForeign \/ ArriveStray \/ UNCHANGED vars
  <2>1. HandleSigint => exit_by' = exit_by /\ pc # "done" /\ pc' # "done"
    BY DEF HandleSigint
  <2>2. ~HandleSigint => exit_by' = exit_by /\ pc' = pc
    BY <1>3 DEF Tick, ArriveReply, ArriveForeign, ArriveStray, Enqueue, vars
  <2> QED BY <2>1, <2>2 DEF ExitInv
<1> QED BY <1>1, <1>2, <1>3 DEF Next, Process, Terminated

LEMMA StatusFacts ==
  /\ exit_by = "none" => LedgerStatus = "running"
  /\ exit_by = "count" => LedgerStatus = "complete"
  /\ exit_by \in {"signal", "deadline"} => LedgerStatus = "interrupted"
BY DEF LedgerStatus

(* The probes a sweep gives up on are the oldest that are outstanding.     *)
LEMMA SweepTakesOldest ==
  ASSUME TypeInv, ReportedInv, NoneForgotten,
         NEW h \in Window(next_timeout_check_seq, seq) \cup {seq}, h \in Slot
  PROVE  /\ sent - Dist(h, seq) \in 0 .. sent
         /\ {Owner(s) : s \in Lost(h)} = {p \in Ledger!Outstanding : p <= sent - Dist(h, seq)}
<1> DEFINE n == sent - Dist(h, seq)
<1>1. /\ seq \in Slot /\ next_timeout_check_seq \in Slot /\ sent \in Nat
      /\ Dist(next_timeout_check_seq, seq) <= sent
  BY DEF TypeInv, TypeOK, SlotsInUse
<1>2. /\ Dist(h, seq) \in 0 .. SeqMod - 1
      /\ Dist(h, seq) <= Dist(next_timeout_check_seq, seq)
      /\ Dist(next_timeout_check_seq, seq) \in 0 .. SeqMod - 1
  BY <1>1, SeqModAssumption DEF Window, Dist, Slot
<1>3. n \in 0 .. sent
  BY <1>1, <1>2
<1>4. \A s \in Slot : s # seq => Owner(s) = sent + 1 - Dist(s, seq) /\ Dist(s, seq) \in Nat
  BY <1>1, SlotFacts DEF Owner, Age
<1>5. ASSUME NEW s \in Lost(h)
      PROVE  Owner(s) \in Ledger!Outstanding /\ Owner(s) <= n
  <2>1. s \in Slot /\ s \in Window(next_timeout_check_seq, h) /\ ~replied_or_timeout[s]
    BY <1>5 DEF Lost, Window
  <2>2. s # seq /\ Dist(s, seq) > Dist(h, seq) /\ s \in Window(next_timeout_check_seq, seq)
    BY <1>1, <2>1, WindowOrder, WindowSplits
  <2>3. Owner(s) <= n
    BY <1>1, <1>2, <1>4, <2>1, <2>2
  <2>4. Owner(s) \in 1 .. sent
    BY <1>1, <2>1, <2>2, OwnerInWindow, OwnerFacts
  <2>5. sent_times[s] > 0
    BY <2>1, <2>4 DEF TypeInv, SlotsInUse
  <2>6. Owner(s) \notin answered \cup expired
    BY <2>1, <2>5 DEF ReportedInv, OpenUnfiled
  <2> QED BY <2>3, <2>4, <2>6 DEF Ledger!Outstanding
<1>6. ASSUME NEW p \in Ledger!Outstanding, p <= n
      PROVE  \E s \in Lost(h) : Owner(s) = p
  <2>1. p \in 1 .. sent /\ p \notin answered \cup expired
    BY <1>6 DEF Ledger!Outstanding
  <2>2. PICK s \in Window(next_timeout_check_seq, seq) : ~replied_or_timeout[s] /\ Owner(s) = p
    BY <2>1, OutstandingInWindow DEF NoProbeForgotten
  <2>4. ~replied_or_timeout[s] /\ s \in Window(next_timeout_check_seq, seq) /\ s \in Slot
    BY <2>2 DEF Window
  <2>5. s \notin Window(h, seq)
    <3>1. ASSUME s \in Window(h, seq) PROVE FALSE
      <4>1. s # seq /\ Dist(s, seq) <= Dist(h, seq)
        BY <1>1, <2>4, <3>1, WindowOrder
      <4> QED BY <1>1, <1>2, <1>4, <1>6, <2>1, <2>2, <2>4, <4>1
    <3> QED BY <3>1
  <2>6. s \in Window(next_timeout_check_seq, h)
    BY <1>1, <2>4, <2>5, WindowSplits
  <2> QED BY <2>2, <2>4, <2>6 DEF Lost
<1> HIDE DEF n
<1>7. {Owner(s) : s \in Lost(h)} = {p \in Ledger!Outstanding : p <= n}
  BY <1>5, <1>6
<1> QED BY <1>3, <1>7 DEF n

LEMMA LedgerStep ==
  TypeInv /\ ReportedInv /\ CompleteInv /\ GenuineInv /\ ExitInv /\ AnswersTimely /\ [Next]_vars
    => [Ledger!Next]_(Ledger!vars)
<1> SUFFICES ASSUME TypeInv, ReportedInv, CompleteInv, GenuineInv, ExitInv, AnswersTimely, [Next]_vars
             PROVE  [Ledger!Next]_(Ledger!vars)
  OBVIOUS
<1>k. ASSUME exit_by' = exit_by PROVE LedgerStatus' = LedgerStatus
  BY <1>k DEF LedgerStatus
<1>r. ASSUME pc # "done" PROVE LedgerStatus = "running"
  BY <1>r, StatusFacts DEF ExitInv
<1>1. CASE HeadExit
  <2>1. /\ UNCHANGED <<sent, heard, answered, expired>> /\ pc # "done"
        /\ exit_by' \in {"signal", "deadline"}
    BY <1>1 DEF HeadExit, Leave, window, world, history
  <2>2. LedgerStatus' = "interrupted"
    BY <2>1 DEF LedgerStatus
  <2>3. Ledger!Interrupt
    BY <1>r, <2>1, <2>2 DEF Ledger!Interrupt
  <2> QED BY <2>3 DEF Ledger!Next
<1>2. CASE HeadSend
  <2>1. /\ UNCHANGED <<exit_by, heard, answered, expired>> /\ sent' = sent + 1
        /\ pc # "done" /\ (Count = 0 \/ sent < Count)
    BY <1>2 DEF HeadSend, AtSend, MaySend, history
  <2>2. Ledger!Send
    BY <1>k, <1>r, <2>1 DEF Ledger!Send
  <2> QED BY <2>2 DEF Ledger!Next
<1>3. CASE Sweep
  <2>1. PICK h \in Slot :
          /\ SweepStopsAt(next_timeout_check_seq, h, seq, replied_or_timeout,
                          sent_times, clock, Timeout)
          /\ expired' = expired \cup {Owner(s) : s \in Lost(h)}
          /\ IF AllDone(h) THEN exit_by' = "count" ELSE UNCHANGED exit_by
    BY <1>3 DEF Sweep
  <2>2. pc # "done" /\ UNCHANGED <<sent, heard, answered>>
    BY <1>3 DEF Sweep, world
  <2>3. h \in Window(next_timeout_check_seq, seq) \cup {seq}
    BY <2>1 DEF SweepStopsAt
  <2> DEFINE n == sent - Dist(h, seq)
             old == {p \in Ledger!Outstanding : p <= n}
  <2>4. n \in 0 .. sent /\ expired' = expired \cup old
    BY <2>1, <2>3, SweepTakesOldest DEF CompleteInv
  <2>5. CASE ~AllDone(h)
    <3>1. LedgerStatus' = LedgerStatus
      BY <1>k, <2>1, <2>5
    <3>2. Ledger!Expire
      BY <1>r, <2>2, <2>4, <3>1 DEF Ledger!Expire
    <3> QED BY <3>2 DEF Ledger!Next
  <2>6. CASE AllDone(h)
    <3>1. Count > 0 /\ sent = Count /\ h = seq
      BY <2>6, CountAssumption DEF AllDone, CompleteInv, NoneForgotten, TypeInv, TypeOK
    <3>2. n = sent
      BY <3>1, SlotFacts DEF TypeInv, TypeOK
    <3>3. old = Ledger!Outstanding
      BY <3>2 DEF Ledger!Outstanding, TypeInv, TypeOK
    <3>4. LedgerStatus' = "complete"
      BY <2>1, <2>6 DEF LedgerStatus
    <3> HIDE DEF n, old
    <3>5. /\ LedgerStatus = "running" /\ Count > 0 /\ sent = Count
          /\ UNCHANGED <<sent, heard, answered>> /\ n \in 0 .. sent
          /\ expired' = expired \cup {p \in Ledger!Outstanding : p <= n}
          /\ {p \in Ledger!Outstanding : p <= n} = Ledger!Outstanding
      BY <1>r, <2>2, <2>4, <3>1, <3>3 DEF old
    <3>6. Ledger!Expire
      BY <3>4, <3>5 DEF Ledger!Expire
    <3> QED BY <3>6 DEF Ledger!Next
  <2> QED BY <2>5, <2>6
<1>4. CASE DrainCredit
  <2> DEFINE s == Head(sockbuf).seq
  <2>1. /\ pc # "done" /\ UNCHANGED <<exit_by, sent, heard, expired>>
    BY <1>4 DEF DrainCredit, AtPacket
  <2>3. /\ s \in Slot /\ Owner(s) \in heard /\ ~replied_or_timeout[s] /\ sent_times[s] > 0
        /\ answered' = answered \cup {Owner(s)} /\ heard \subseteq 1 .. sent
    BY <1>4, CreditedSlot DEF GenuineInv
  <2>4. Owner(s) \notin answered \cup expired
    BY <2>3 DEF ReportedInv, OpenUnfiled
  <2>5. Owner(s) \in Ledger!Outstanding \cap heard
    BY <2>3, <2>4 DEF Ledger!Outstanding
  <2>6. answered' = answered \cup {Owner(s)}
    BY <2>3
  <2>7. Ledger!Answer
    BY <1>k, <1>r, <2>1, <2>5, <2>6 DEF Ledger!Answer
  <2> QED BY <2>7 DEF Ledger!Next
<1>5. CASE ArriveReply
  <2>1. PICK r \in on_wire : /\ Enqueue([mine |-> TRUE, seq |-> r.seq, probe |-> r.probe])
                             /\ heard' = heard \cup {r.probe}
    BY <1>5 DEF ArriveReply
  <2>2. /\ pc # "done" /\ UNCHANGED <<exit_by, sent, answered, expired>>
    BY <2>1 DEF Enqueue, window, history
  <2>4. r.probe \in 1 .. sent
    BY DEF GenuineInv
  <2>5. Ledger!Hear
    BY <1>k, <1>r, <2>1, <2>2, <2>4 DEF Ledger!Hear
  <2> QED BY <2>5 DEF Ledger!Next
<1>6. CASE HeadIdle \/ PollBegins \/ PollReturns \/ DrainIgnore \/ DrainEnd \/ HandleSigint \/ Tick
           \/ ArriveForeign \/ ArriveStray \/ UNCHANGED vars
  <2>1. UNCHANGED <<exit_by, sent, heard, answered, expired>>
    BY <1>6 DEF HeadIdle, PollBegins, PollReturns, DrainIgnore, DrainEnd, HandleSigint, Tick,
                ArriveForeign, ArriveStray, Enqueue, vars, window, world, history
  <2> QED BY <1>k, <2>1 DEF Ledger!vars
<1> QED BY <1>1, <1>2, <1>3, <1>4, <1>5, <1>6 DEF Next, Process, Terminated

(* If the slots are enough and each packet taken for a reply answers one   *)
(* of the last 65536 probes, a run of ping is a ledger of probes, endless  *)
(* runs included: each is filed once, as answered when its reply came, or  *)
(* else as expired, the oldest first; and a run that completes has filed   *)
(* them all.                                                               *)
THEOREM PingIsALedger ==
  ASSUME EnoughSlots
  PROVE  Spec /\ []AnswersTimely => RefinesLedger
<1>1. Init => Ledger!Init /\ ExitInv
  BY StatusFacts DEF Init, Ledger!Init, ExitInv
<1>2. Spec => [](TypeInv /\ ReportedInv /\ PaceInv /\ CompleteInv)
  BY AccountsKept
<1>3. Spec => [](TypeInv /\ GenuineInv)
  BY GenuineInvariant
<1>4. TypeInv /\ ReportedInv /\ CompleteInv /\ GenuineInv /\ ExitInv /\ AnswersTimely /\ [Next]_vars
        => [Ledger!Next]_(Ledger!vars)
  BY LedgerStep
<1>5. TypeInv /\ ExitInv /\ [Next]_vars => ExitInv'
  BY ExitStep
<1> QED BY <1>1, <1>2, <1>3, <1>4, <1>5, PTL DEF Spec, RefinesLedger, Ledger!Spec

(* With fewer probes than slots, whatever the delays.                      *)
THEOREM PingIsALedgerWhenShort ==
  ASSUME Count > 0, Count < SeqMod, StraySeqs = {}
  PROVE  Spec => RefinesLedger
<1>1. EnoughSlots /\ Count \in 1 .. SeqMod
  BY CountAssumption, SeqModAssumption DEF EnoughSlots
<1> QED BY <1>1, PingIsALedger, TimelyWhenShort, PTL

-------------------------------------------------------------------------------
(* What is left to do after a signal.                                      *)

(* Steps of the process before the run is over, once keep_running is       *)
(* cleared.                                                                *)
StepsLeft ==
  CASE pc = "done" -> 0 [] pc = "head" -> 1 [] pc = "drain" -> 2 [] pc = "poll" -> 3
    [] pc = "call" -> 4 [] OTHER -> 5

(* Once a signal has come it is not forgotten, nothing is sent and no      *)
(* reply is counted any more, and each step of the process brings it       *)
(* nearer to the end, which is at most five steps away.                    *)
WindsDown ==
  ~keep_running =>
    /\ ~keep_running' /\ UNCHANGED <<sent, on_wire, received, answered, stats>>
    /\ StepsLeft' <= StepsLeft
    /\ Process => StepsLeft' < StepsLeft

LEMMA LastSteps ==
  ASSUME Process, ~keep_running
  PROVE  /\ UNCHANGED <<keep_running, sent, on_wire, received, answered, stats>>
         /\ StepsLeft' < StepsLeft
<1>1. CASE HeadExit
  <2>1. pc = "head" /\ pc' = "done" /\ UNCHANGED <<keep_running, window, results, world, history>>
    BY <1>1 DEF HeadExit, Leave
  <2> QED BY <2>1 DEF StepsLeft, window, results, world, history
<1>2. CASE Sweep
  <2>1. /\ pc = "sweep" /\ pc' \in {"done", "call"}
        /\ UNCHANGED <<keep_running, sent, results, world, answered>>
    BY <1>2 DEF Sweep
  <2> QED BY <2>1 DEF StepsLeft, results, world
<1>3. CASE PollBegins \/ PollReturns
  <2>1. /\ \/ pc = "call" /\ pc' = "poll"
           \/ pc = "poll" /\ pc' \in {"drain", "head"}
        /\ UNCHANGED <<keep_running, window, results, world, history>>
    BY <1>3 DEF PollBegins, PollReturns
  <2> QED BY <2>1 DEF StepsLeft, window, results, world, history
<1>4. CASE DrainEnd
  <2>1. pc = "drain" /\ pc' = "head" /\ UNCHANGED <<keep_running, window, results, world, history>>
    BY <1>4 DEF DrainEnd
  <2> QED BY <2>1 DEF StepsLeft, window, results, world, history
<1>5. ~(HeadSend \/ HeadIdle \/ DrainIgnore \/ DrainCredit)
  BY DEF HeadSend, HeadIdle, AtSend, DrainIgnore, DrainCredit, AtPacket
<1> QED BY <1>1, <1>2, <1>3, <1>4, <1>5 DEF Process

(* Whatever arrives, and whenever the signal comes: ping acts on it within *)
(* five steps of the process, of which waiting in poll() is one; replies   *)
(* still queued are left alone.                                            *)
THEOREM SignalIsHeeded == Spec => [][WindsDown]_vars
<1>1. TypeInv /\ [Next]_vars => [WindsDown]_vars
  <2> SUFFICES ASSUME TypeInv, Next, ~keep_running
               PROVE  WindsDown
    BY DEF WindsDown
  <2>1. CASE Process
    BY <2>1, LastSteps DEF WindsDown, StepsLeft
  <2>2. CASE ~Process /\ ~HandleSigint
    <3>1. UNCHANGED <<pc, keep_running, sent, on_wire, received, answered, stats>>
      BY <2>2 DEF Next, Tick, ArriveReply, ArriveForeign, ArriveStray, Enqueue, Terminated,
                  vars, window, results, history, world
    <3> QED BY <2>2, <3>1 DEF WindsDown, StepsLeft
  <2> QED BY <2>1, <2>2 DEF HandleSigint
<1> QED BY <1>1, TypeInit, TypeNext, PTL DEF Spec

-------------------------------------------------------------------------------
(* Between two requests ping does not go round in circles, except in the   *)
(* last millisecond before -w is over.                                     *)

EndTime == StartTime + Deadline
SendDue == MaySend /\ clock >= next_send_time

(* d_ms in ping_run is 0 here, or negative.                                *)
LastMs == Deadline > 0 /\ EndTime - clock < NsPerMs

(* When there is something to do, if no packet comes.                      *)
Due  == IF MaySend THEN next_send_time ELSE sent_times[next_timeout_check_seq] + Timeout
Wake == IF Deadline > 0 /\ EndTime < Due THEN EndTime ELSE Due

(* How often poll() may still give up before; an emptied socket buffer     *)
(* counts as a new beginning.                                              *)
WaitLeft ==
  CASE ~keep_running \/ pc = "done" -> 0
    [] keep_running /\ pc \in {"call", "poll"} ->
         IF PollGaveUp /\ SendDue THEN 0 ELSE 2 * Turns(Wake - poll_until) + 1
    [] keep_running /\ pc = "drain" -> IF sockbuf = <<>> THEN 5 ELSE 0
    [] OTHER                        -> 2 * Turns(Wake - clock)

(* The steps from one poll() to the next; a probe that is due, or a packet *)
(* that waits, ends the turn.                                              *)
Phase ==
  CASE ~keep_running                -> StepsLeft
    [] keep_running /\ pc = "done"  -> 0
    [] keep_running /\ pc = "head"  -> IF SendDue THEN 1 ELSE 5
    [] keep_running /\ pc = "poll"  -> 2
    [] keep_running /\ pc = "call"  -> 3
    [] keep_running /\ pc = "sweep" -> 4
    [] OTHER                        -> IF pc = "drain" /\ sockbuf # <<>> THEN 1 ELSE 6

Running     == IF keep_running THEN 1 ELSE 0
WindowLen   == Dist(next_timeout_check_seq, seq)
PacketsLeft == MaxArrivals - arrivals + Len(sockbuf)

Measure == <<Running, WindowLen, PacketsLeft, WaitLeft, Phase>>

Advances ==
  /\ Process => sent' > sent \/ Lower(Measure', Measure) \/ (Sweep /\ LastMs)
  /\ ~Process => Lower(Measure', Measure) \/ Measure' = Measure

(* One step further. *)
Further ==
  \/ Running' < Running
  \/ Running' = Running /\ WindowLen' < WindowLen
  \/ Running' = Running /\ WindowLen' = WindowLen /\ PacketsLeft' < PacketsLeft
  \/ /\ Running' = Running /\ WindowLen' = WindowLen /\ PacketsLeft' = PacketsLeft
     /\ WaitLeft' < WaitLeft
  \/ /\ Running' = Running /\ WindowLen' = WindowLen /\ PacketsLeft' = PacketsLeft
     /\ WaitLeft' = WaitLeft /\ Phase' < Phase

LEMMA FurtherLowers ==
  ASSUME Further
  PROVE  Lower(Measure', Measure)
<1> DEFINE a1 == Running'
           a2 == WindowLen'
           a3 == PacketsLeft'
           a4 == WaitLeft'
           a5 == Phase'
           b1 == Running
           b2 == WindowLen
           b3 == PacketsLeft
           b4 == WaitLeft
           b5 == Phase
<1>1. \/ a1 < b1
      \/ a1 = b1 /\ a2 < b2
      \/ a1 = b1 /\ a2 = b2 /\ a3 < b3
      \/ a1 = b1 /\ a2 = b2 /\ a3 = b3 /\ a4 < b4
      \/ a1 = b1 /\ a2 = b2 /\ a3 = b3 /\ a4 = b4 /\ a5 < b5
  BY DEF Further
<1>2. Measure' = <<a1, a2, a3, a4, a5>> /\ Measure = <<b1, b2, b3, b4, b5>>
  BY DEF Measure
<1> HIDE DEF a1, a2, a3, a4, a5, b1, b2, b3, b4, b5
<1>3. Lower(<<a1, a2, a3, a4, a5>>, <<b1, b2, b3, b4, b5>>)
  BY <1>1, LowerFive
<1> QED BY <1>2, <1>3

LEMMA WakeFacts ==
  ASSUME TypeOK
  PROVE  /\ Due \in Int /\ Wake \in Int /\ EndTime \in Nat /\ clock \in Nat /\ poll_until \in Int
         /\ Wake <= Due
         /\ Wake - clock \in Int /\ Wake - poll_until \in Int
         /\ Turns(Wake - clock) \in 0 .. 2 /\ Turns(Wake - poll_until) \in 0 .. 2
<1>1. Due \in Int /\ EndTime \in Nat /\ clock \in Nat /\ poll_until \in Int
  BY TimesAssumption, CountAssumption DEF TypeOK, Due, EndTime, StartTime, Forever
<1>2. Wake \in Int /\ Wake <= Due
  BY <1>1 DEF Wake
<1>3. Wake - clock \in Int /\ Wake - poll_until \in Int
  BY <1>1, <1>2
<1> QED BY <1>1, <1>2, <1>3, TurnsOrder

LEMMA MeasureIsNatural ==
  ASSUME TypeOK, arrivals <= MaxArrivals
  PROVE  \A k \in 1 .. 5 : Measure[k] \in Nat
<1>1. Running \in Nat
  BY DEF Running
<1>2. PacketsLeft \in Nat
  <2>1. Len(sockbuf) \in Nat
    BY DEF TypeOK
  <2> QED BY <2>1, BoundsAssumption DEF TypeOK, PacketsLeft
<1>3. WaitLeft \in Nat
  BY WakeFacts DEF WaitLeft
<1>4. Phase \in Nat
  BY DEF Phase, StepsLeft
<1>5. WindowLen \in Nat
  BY SlotFacts DEF TypeOK, WindowLen
<1> QED BY <1>1, <1>2, <1>3, <1>4, <1>5 DEF Measure

LEMMA DivisionOrder ==
  ASSUME NEW a \in Int, NEW b \in Int, a <= b
  PROVE  a \div NsPerMs \in Int /\ b \div NsPerMs \in Int /\ a \div NsPerMs <= b \div NsPerMs
<1> DEFINE p == a \div NsPerMs
           q == b \div NsPerMs
<1>1. NsPerMs \in Nat /\ NsPerMs > 0
  BY NsPerMsAssumption
<1>2. p \in Int /\ p * NsPerMs <= a /\ q \in Int /\ b < q * NsPerMs + NsPerMs
  BY <1>1, DivisionFacts
<1> HIDE DEF p, q
<1>3. ASSUME p >= q + 1
      PROVE  FALSE
  <2>1. p * NsPerMs \in Int /\ q * NsPerMs \in Int /\ (p - q - 1) * NsPerMs >= 0
    BY <1>1, <1>2, <1>3
  <2>2. (p - q - 1) * NsPerMs = p * NsPerMs - q * NsPerMs - NsPerMs
    BY <1>1, <1>2
  <2> QED BY <1>1, <1>2, <2>1, <2>2
<1>4. p <= q
  BY <1>2, <1>3
<1> QED BY <1>2, <1>4 DEF p, q

LEMMA ClampUnfolded ==
  ASSUME NEW ms, clock \in Nat, ~(EndTime - clock < 0)
  PROVE  ClampToDeadline(ms, clock)
           = IF Deadline > 0 /\ (EndTime - clock) \div NsPerMs < ms
             THEN (EndTime - clock) \div NsPerMs ELSE ms
<1> DEFINE left == StartTime + Deadline - clock
           d_ms == IF left < 0 THEN Forever ELSE left \div NsPerMs
<1>1. ClampToDeadline(ms, clock) = IF Deadline > 0 /\ d_ms < ms THEN d_ms ELSE ms
  BY DEF ClampToDeadline
<1>2. left = EndTime - clock
  BY CountAssumption DEF EndTime, StartTime
<1> HIDE DEF left
<1>3. d_ms = (EndTime - clock) \div NsPerMs
  BY <1>2
<1> HIDE DEF d_ms
<1> QED BY <1>1, <1>3

(* Until the last millisecond the clamp makes poll() wait for the deadline *)
(* as if it were a probe.                                                  *)
LEMMA ClampIsRounded ==
  ASSUME NEW due \in Int, clock \in Nat, due > clock, ~LastMs,
         NEW wake, wake = IF Deadline > 0 /\ EndTime < due THEN EndTime ELSE due
  PROVE  /\ wake \in Int /\ wake > clock
         /\ ClampToDeadline(RoundedMs(due - clock), clock) = RoundedMs(wake - clock)
<1> DEFINE left == EndTime - clock
           ms   == RoundedMs(due - clock)
<1>1. EndTime \in Nat /\ NsPerMs \in Nat /\ NsPerMs > 0 /\ due - clock \in Int
  BY CountAssumption, NsPerMsAssumption DEF EndTime, StartTime
<1>2. ms \in Int /\ ms >= 1
  BY <1>1, RoundedMsFacts
<1>3. CASE ~(Deadline > 0)
  BY <1>3 DEF ClampToDeadline
<1>4. CASE Deadline > 0
  <2>1. left \in Int /\ left >= NsPerMs
    BY <1>1, <1>4 DEF LastMs
  <2>2. ClampToDeadline(ms, clock) = IF left \div NsPerMs < ms THEN left \div NsPerMs ELSE ms
    <3>1. ~(left < 0)
      BY <1>1, <2>1
    <3> QED BY <3>1, <1>4, ClampUnfolded
  <2>3. NsPerMs \div NsPerMs = 1
    <3>1. NsPerMs \div NsPerMs \in Int /\ (NsPerMs \div NsPerMs) * NsPerMs <= NsPerMs
          /\ NsPerMs < (NsPerMs \div NsPerMs) * NsPerMs + NsPerMs
      BY <1>1, DivisionFacts
    <3> QED BY <1>1, <3>1, Z3
  <2>4. left \div NsPerMs \in Int /\ left \div NsPerMs >= 1
    BY <1>1, <2>1, <2>3, DivisionOrder
  <2>5. RoundedMs(left) = left \div NsPerMs
    BY <2>4 DEF RoundedMs
  <2>6. CASE EndTime < due
    <3>1. left <= due - clock
      BY <1>1, <2>6
    <3>2. left \div NsPerMs <= (due - clock) \div NsPerMs /\ (due - clock) \div NsPerMs \in Int
      BY <1>1, <2>1, <3>1, DivisionOrder
    <3>3. left \div NsPerMs <= ms
      BY <2>4, <3>2 DEF RoundedMs
    <3>4. ClampToDeadline(ms, clock) = left \div NsPerMs
      BY <1>2, <2>2, <2>4, <3>3
    <3>5. wake = EndTime /\ EndTime > clock
      BY <1>1, <1>4, <2>1, <2>6
    <3> QED BY <1>1, <2>5, <3>4, <3>5
  <2>7. CASE ~(EndTime < due)
    <3>1. due - clock <= left
      BY <1>1, <2>7
    <3>2. (due - clock) \div NsPerMs <= left \div NsPerMs /\ (due - clock) \div NsPerMs \in Int
      BY <1>1, <2>1, <3>1, DivisionOrder
    <3>3. ms <= left \div NsPerMs
      BY <2>4, <3>2 DEF RoundedMs
    <3>4. ClampToDeadline(ms, clock) = ms
      BY <1>2, <2>2, <2>4, <3>3
    <3> QED BY <2>7, <3>4
  <2> QED BY <2>6, <2>7
<1> QED BY <1>3, <1>4

LEMMA SweepAdvances ==
  ASSUME TypeOK, Sweep
  PROVE  Further \/ LastMs
<1> DEFINE n == next_timeout_check_seq
<1>1. PICK h \in Slot :
        /\ SweepStopsAt(n, h, seq, replied_or_timeout, sent_times, clock, Timeout)
        /\ next_timeout_check_seq' = h
        /\ IF AllDone(h)
           THEN pc' = "done"
           ELSE /\ pc' = "call"
                /\ poll_until' = PollUntil(clock,
                     ClampToDeadline(WaitMs(clock, MaySend, next_send_time,
                                            sent_times[h] + Timeout), clock))
  BY DEF Sweep
<1>2. /\ pc = "sweep"
      /\ UNCHANGED <<keep_running, seq, sent, sent_times, next_send_time, clock, sockbuf, arrivals>>
      /\ Running' = Running /\ PacketsLeft' = PacketsLeft
      /\ MaySend' = MaySend /\ SendDue' = SendDue
  BY DEF Sweep, world, Running, PacketsLeft, MaySend, SendDue
<1>3. n \in Slot /\ seq \in Slot /\ Dist(n, seq) \in Int /\ Dist(h, seq) \in Int
  BY SlotFacts DEF TypeOK
<1>4. WindowLen = Dist(n, seq) /\ WindowLen' = Dist(h, seq)
  BY <1>1, <1>2 DEF WindowLen
<1>5. CASE h # n
  <2>1. h \in Window(n, seq) \cup {seq}
    BY <1>1 DEF SweepStopsAt
  <2>2. n \in Window(n, h)
    BY <1>3, <1>5, SlotFacts DEF Window
  <2>3. Dist(n, seq) > Dist(h, seq)
    BY <2>1, <2>2, <1>3, WindowOrder
  <2> QED BY <1>2, <1>3, <1>4, <2>3 DEF Further
<1>6. CASE h = n
  <2>0. WindowLen' = WindowLen
    BY <1>4, <1>6
  <2>1. CASE ~keep_running
    <3>1. StepsLeft' < StepsLeft
      BY <2>1, LastSteps DEF Process
    <3> QED BY <1>2, <2>0, <2>1, <3>1 DEF Further, WaitLeft, Phase
  <2>2. CASE keep_running /\ AllDone(h)
    <3>1. WaitLeft' = 0 /\ WaitLeft \in Nat /\ Phase' = 0 /\ Phase = 4
      BY <1>1, <1>2, <2>2, WakeFacts DEF WaitLeft, Phase
    <3> QED BY <1>2, <2>0, <3>1 DEF Further
  <2>3. CASE keep_running /\ ~AllDone(h) /\ SendDue /\ ~LastMs
    <3>1. /\ WaitMs(clock, MaySend, next_send_time, sent_times[h] + Timeout) = 0
          /\ clock \in Nat /\ NsPerMs \in Nat /\ NsPerMs > 0
      BY <2>3, NsPerMsAssumption DEF SendDue, WaitMs, TypeOK
    <3>2. ClampToDeadline(0, clock) = 0
      <4>1. CASE Deadline > 0
        <5>1. EndTime - clock \in Int /\ EndTime - clock >= NsPerMs
          BY <2>3, <3>1, <4>1, WakeFacts DEF LastMs
        <5>2. 0 \div NsPerMs \in Int /\ 0 \div NsPerMs <= (EndTime - clock) \div NsPerMs
              /\ (EndTime - clock) \div NsPerMs \in Int
          BY <3>1, <5>1, DivisionOrder
        <5>3. 0 \div NsPerMs >= 0
          BY <3>1, Z3
        <5>4. ~((EndTime - clock) \div NsPerMs < 0) /\ ~(EndTime - clock < 0)
          BY <3>1, <5>1, <5>2, <5>3
        <5> QED BY <3>1, <5>4, ClampUnfolded
      <4>2. CASE ~(Deadline > 0)
        BY <4>2 DEF ClampToDeadline
      <4> QED BY <4>1, <4>2
    <3>3. poll_until' = clock
      BY <1>1, <2>3, <3>1, <3>2 DEF PollUntil
    <3>4. PollGaveUp' /\ SendDue' /\ pc' = "call"
      BY <1>1, <1>2, <2>3, <3>1, <3>3 DEF PollGaveUp, Forever
    <3>5. WaitLeft' = 0 /\ WaitLeft \in Nat /\ Phase' = 3 /\ Phase = 4
      BY <1>2, <2>3, <3>4, WakeFacts DEF WaitLeft, Phase
    <3> QED BY <1>2, <2>0, <3>5 DEF Further
  <2>4. CASE keep_running /\ ~AllDone(h) /\ ~SendDue /\ ~LastMs
    <3>1. Due \in Int /\ Due > clock
      <4>1. CASE MaySend
        BY <4>1, <2>4 DEF Due, SendDue, TypeOK
      <4>2. CASE ~MaySend
        <5>1. h # seq
          BY <4>2, <2>4, CountAssumption DEF MaySend, AllDone, TypeOK
        <5>2. ~Passes(h, replied_or_timeout, sent_times, clock, Timeout)
          BY <5>1, <1>1 DEF SweepStopsAt
        <5> QED BY <4>2, <5>2, <1>6, TimesAssumption DEF Passes, Due, TypeOK
      <4> QED BY <4>1, <4>2
    <3>2. WaitMs(clock, MaySend, next_send_time, sent_times[h] + Timeout) = RoundedMs(Due - clock)
      BY <3>1, <1>6 DEF WaitMs, Due
    <3>3. /\ Wake \in Int /\ Wake > clock /\ clock \in Nat
          /\ ClampToDeadline(RoundedMs(Due - clock), clock) = RoundedMs(Wake - clock)
      BY <2>4, <3>1, WakeFacts, ClampIsRounded DEF Wake
    <3>4. poll_until' = PollUntil(clock, RoundedMs(Wake - clock)) /\ pc' = "call"
      BY <1>1, <2>4, <3>2, <3>3
    <3>5. /\ poll_until' \in Nat /\ poll_until' > clock
          /\ Turns(Wake - poll_until') < Turns(Wake - clock)
      BY <3>3, <3>4, TurnsPass
    <3>6. Turns(Wake - poll_until') \in 0 .. 2 /\ Turns(Wake - clock) \in 0 .. 2
      <4>1. Wake - poll_until' \in Int
        BY <3>3, <3>5
      <4> QED BY <4>1, WakeFacts, TurnsOrder
    <3>7. Wake' = Wake
      BY <1>1, <1>2, <1>6 DEF Wake, Due, EndTime
    <3>8. WaitLeft' = 2 * Turns(Wake - poll_until') + 1 /\ WaitLeft = 2 * Turns(Wake - clock)
      BY <1>2, <2>4, <3>4, <3>7 DEF WaitLeft
    <3>9. WaitLeft' < WaitLeft
      BY <3>5, <3>6, <3>8
    <3> QED BY <1>2, <2>0, <3>9 DEF Further
  <2> QED BY <2>1, <2>2, <2>3, <2>4
<1> QED BY <1>5, <1>6

LEMMA PollAdvances ==
  ASSUME TypeOK, keep_running, HeadIdle \/ PollBegins \/ PollReturns \/ DrainEnd
  PROVE  Further
<1>0. /\ UNCHANGED <<keep_running, window, next_send_time, poll_until, clock, sockbuf, arrivals>>
      /\ Wake' = Wake /\ SendDue' = SendDue /\ PollGaveUp' = PollGaveUp
      /\ Running' = Running /\ WindowLen' = WindowLen /\ PacketsLeft' = PacketsLeft
  BY DEF HeadIdle, PollBegins, PollReturns, DrainEnd, Wake, Due, EndTime, MaySend, SendDue,
         PacketsLeft, Running, WindowLen, PollGaveUp, Forever, window, world
<1>1. CASE HeadIdle
  <2>1. pc = "head" /\ pc' = "sweep" /\ ~SendDue
    BY <1>1 DEF HeadIdle, AtSend, SendDue
  <2>2. WaitLeft' = WaitLeft /\ Phase' < Phase
    BY <1>0, <2>1 DEF WaitLeft, Phase
  <2> QED BY <1>0, <2>2 DEF Further
<1>2. CASE PollReturns /\ sockbuf # <<>>
  <2>1. pc = "poll" /\ pc' = "drain"
    BY <1>2 DEF PollReturns
  <2>2. WaitLeft' = 0 /\ WaitLeft \in Nat /\ Phase' = 1 /\ Phase = 2
    BY <1>0, <1>2, <2>1, WakeFacts DEF WaitLeft, Phase
  <2> QED BY <1>0, <2>2 DEF Further
<1>3. CASE PollReturns /\ sockbuf = <<>>
  <2>1. pc = "poll" /\ pc' = "head" /\ PollGaveUp /\ clock >= poll_until
    BY <1>3 DEF PollReturns, PollGaveUp
  <2>2. CASE SendDue
    <3>1. Wake - clock <= 0 /\ Wake - clock \in Int
      BY <2>2, WakeFacts DEF SendDue, Due, TypeOK
    <3>2. Turns(Wake - clock) = 0
      BY <3>1 DEF Turns
    <3>3. WaitLeft' = 0 /\ WaitLeft = 0 /\ Phase' = 1 /\ Phase = 2
      BY <1>0, <2>1, <2>2, <3>2 DEF WaitLeft, Phase
    <3> QED BY <1>0, <3>3 DEF Further
  <2>3. CASE ~SendDue
    <3>1. Wake - clock <= Wake - poll_until
      BY <2>1, WakeFacts
    <3>2. Turns(Wake - clock) <= Turns(Wake - poll_until)
      BY <3>1, WakeFacts, TurnsOrder
    <3>3. WaitLeft' = 2 * Turns(Wake - clock) /\ WaitLeft = 2 * Turns(Wake - poll_until) + 1
      BY <1>0, <2>1, <2>3 DEF WaitLeft
    <3>4. WaitLeft' < WaitLeft
      BY <3>2, <3>3, WakeFacts
    <3> QED BY <1>0, <3>4 DEF Further
  <2> QED BY <2>2, <2>3
<1>4. CASE DrainEnd
  <2>1. pc = "drain" /\ pc' = "head" /\ sockbuf = <<>>
    BY <1>4 DEF DrainEnd
  <2>2. WaitLeft = 5 /\ WaitLeft' = 2 * Turns(Wake - clock)
    BY <1>0, <2>1 DEF WaitLeft
  <2>3. WaitLeft' < WaitLeft
    BY <2>2, WakeFacts
  <2> QED BY <1>0, <2>3 DEF Further
<1>5. CASE PollBegins
  <2>1. pc = "call" /\ pc' = "poll"
    BY <1>5 DEF PollBegins
  <2>2. WaitLeft' = WaitLeft /\ Phase' = 2 /\ Phase = 3
    BY <1>0, <2>1 DEF WaitLeft, Phase
  <2> QED BY <1>0, <2>2 DEF Further
<1> QED BY <1>1, <1>2, <1>3, <1>4, <1>5

LEMMA StepAdvances ==
  ASSUME TypeOK, Process
  PROVE  sent' > sent \/ Further \/ (Sweep /\ LastMs)
<1>1. CASE HeadSend
  BY <1>1 DEF HeadSend, TypeOK
<1>2. CASE Sweep
  BY <1>2, SweepAdvances
<1>3. CASE keep_running /\ (HeadIdle \/ PollBegins \/ PollReturns \/ DrainEnd)
  BY <1>3, PollAdvances
<1>4. CASE HeadExit
  <2>1. /\ pc = "head" /\ pc' = "done" /\ UNCHANGED <<keep_running, seq, next_timeout_check_seq, sockbuf, arrivals>>
    BY <1>4 DEF HeadExit, Leave, window, world
  <2>2. Running' = Running /\ WindowLen' = WindowLen /\ PacketsLeft' = PacketsLeft
    BY <2>1 DEF Running, WindowLen, PacketsLeft
  <2>3. WaitLeft' = 0 /\ WaitLeft \in Nat /\ Phase' = 0 /\ Phase \in Nat /\ Phase > 0
    BY <2>1, WakeFacts DEF WaitLeft, Phase, StepsLeft
  <2> QED BY <2>2, <2>3 DEF Further
<1>5. CASE ~keep_running /\ (PollBegins \/ PollReturns \/ DrainEnd)
  <2>1. StepsLeft' < StepsLeft
    BY <1>5, LastSteps DEF Process
  <2>2. UNCHANGED <<keep_running, seq, next_timeout_check_seq, sockbuf, arrivals>>
    BY <1>5 DEF PollBegins, PollReturns, DrainEnd, window, world
  <2>3. Running' = Running /\ WindowLen' = WindowLen /\ PacketsLeft' = PacketsLeft
    BY <2>2 DEF Running, WindowLen, PacketsLeft
  <2> QED BY <1>5, <2>1, <2>2, <2>3 DEF Further, WaitLeft, Phase
<1>6. CASE DrainIgnore \/ DrainCredit
  <2>1. /\ sockbuf # <<>> /\ sockbuf' = Tail(sockbuf)
        /\ UNCHANGED <<keep_running, seq, next_timeout_check_seq, arrivals>>
    BY <1>6 DEF DrainIgnore, DrainCredit, AtPacket, window
  <2>2. Len(sockbuf') = Len(sockbuf) - 1 /\ Len(sockbuf) \in Nat
    BY <2>1 DEF TypeOK
  <2>3. PacketsLeft' < PacketsLeft
    BY <2>1, <2>2, BoundsAssumption DEF PacketsLeft, TypeOK
  <2> QED BY <2>1, <2>3 DEF Further, Running, WindowLen
<1>7. ~keep_running => ~HeadIdle
  BY DEF HeadIdle, AtSend
<1> QED BY <1>1, <1>2, <1>3, <1>4, <1>5, <1>6, <1>7 DEF Process

(* Time, packets and the signal take nothing back. *)
LEMMA TickKeepsMeasure ==
  ASSUME TypeOK, Tick
  PROVE  Further \/ Measure' = Measure
<1>1. /\ UNCHANGED <<pc, keep_running, window, next_send_time, sockbuf, arrivals>>
      /\ clock' \in {clock, clock + 1}
  BY DEF Tick
<1>0. /\ poll_until' \in Int /\ poll_until <= poll_until'
      /\ poll_until # Forever => poll_until' # Forever
      /\ poll_until' = poll_until
         \/ (poll_until # Forever /\ poll_until' - poll_until = clock' - clock)
  BY <1>1 DEF Tick, TypeOK, Forever
<1>2. /\ Running' = Running /\ PacketsLeft' = PacketsLeft /\ WindowLen' = WindowLen /\ Wake' = Wake
      /\ MaySend' = MaySend /\ StepsLeft' = StepsLeft
  BY <1>1 DEF Running, PacketsLeft, WindowLen, Wake, Due, EndTime, MaySend, StepsLeft, window
<1>3. (SendDue => SendDue') /\ (PollGaveUp => PollGaveUp')
  <2>1. clock \in Int /\ clock' \in Int /\ clock <= clock'
    BY <1>1 DEF TypeOK
  <2>2. next_send_time \in Int /\ next_send_time' = next_send_time
    BY <1>1 DEF TypeOK
  <2>3. poll_until \in Int
    BY DEF TypeOK, Forever
  <2>4. SendDue => SendDue'
    BY <1>2, <2>1, <2>2 DEF SendDue
  <2>5. PollGaveUp => PollGaveUp'
    <3>1. ASSUME poll_until # Forever, clock >= poll_until PROVE PollGaveUp'
      <4>1. poll_until' # Forever
        BY <1>0, <3>1
      <4>2. clock' >= poll_until'
        BY <1>0, <2>1, <2>3, <3>1
      <4> QED BY <4>1, <4>2 DEF PollGaveUp
    <3> QED BY <3>1 DEF PollGaveUp
  <2> QED BY <2>4, <2>5
<1>4. Turns(Wake - clock') \in 0 .. 2 /\ Turns(Wake - clock') <= Turns(Wake - clock)
  <2>1. Wake - clock' \in Int /\ Wake - clock' <= Wake - clock
    BY <1>1, WakeFacts
  <2> QED BY <2>1, WakeFacts, TurnsOrder
<1>5. WaitLeft \in Nat /\ WaitLeft' \in Nat /\ WaitLeft' <= WaitLeft
  <2>1. CASE ~keep_running \/ pc \in {"done", "drain"}
    BY <1>1, <2>1 DEF WaitLeft
  <2>2. CASE keep_running /\ pc \in {"call", "poll"}
    <3> DEFINE before == Turns(Wake - poll_until)
               after  == Turns(Wake - poll_until')
    <3>1. before \in Nat /\ after \in Nat /\ after <= before
      <4>1. Wake - poll_until' \in Int /\ Wake - poll_until' <= Wake - poll_until
        BY <1>0, WakeFacts
      <4> QED BY <4>1, WakeFacts, TurnsOrder
    <3>2. /\ WaitLeft  = IF PollGaveUp /\ SendDue THEN 0 ELSE 2 * before + 1
          /\ WaitLeft' = IF PollGaveUp' /\ SendDue' THEN 0 ELSE 2 * after + 1
      BY <1>1, <1>2, <2>2 DEF WaitLeft
    <3> HIDE DEF before, after
    <3> QED BY <1>3, <3>1, <3>2
  <2>3. CASE keep_running /\ pc \notin {"done", "drain", "call", "poll"}
    <3> DEFINE before == Turns(Wake - clock)
               after  == Turns(Wake - clock')
    <3>1. WaitLeft = 2 * before /\ WaitLeft' = 2 * after
      BY <1>1, <1>2, <2>3 DEF WaitLeft
    <3>2. before \in Nat /\ after \in Nat /\ after <= before
      BY <1>4, WakeFacts
    <3> HIDE DEF before, after
    <3> QED BY <3>1, <3>2
  <2> QED BY <2>1, <2>2, <2>3
<1>6. Phase \in Nat /\ Phase' \in Nat /\ Phase' <= Phase
  BY <1>1, <1>2, <1>3 DEF Phase, StepsLeft
<1> QED BY <1>1, <1>2, <1>5, <1>6 DEF Measure, Further

LEMMA WorldKeepsMeasure ==
  ASSUME TypeOK, Next, ~Process
  PROVE  Further \/ Measure' = Measure
<1>1. CASE HandleSigint
  BY <1>1 DEF HandleSigint, Further, Running
<1>2. CASE Tick
  BY <1>2, TickKeepsMeasure
<1>3. CASE ArriveReply \/ ArriveForeign \/ ArriveStray
  <2>1. PICK p : Enqueue(p)
    BY <1>3 DEF ArriveReply, ArriveForeign, ArriveStray
  <2>2. /\ UNCHANGED <<pc, keep_running, window, next_send_time, poll_until, clock>>
        /\ sockbuf' = Append(sockbuf, p) /\ arrivals' = arrivals + 1 /\ sockbuf \in Seq(Packet)
    BY <2>1 DEF Enqueue, TypeOK
  <2>3. Len(sockbuf') = Len(sockbuf) + 1 /\ Len(sockbuf) \in Nat /\ sockbuf' # <<>>
    BY <2>2
  <2>4. PacketsLeft' = PacketsLeft
    BY <2>2, <2>3, BoundsAssumption DEF PacketsLeft, TypeOK
  <2>5. /\ Running' = Running /\ WindowLen' = WindowLen /\ Wake' = Wake /\ SendDue' = SendDue
        /\ PollGaveUp' = PollGaveUp /\ StepsLeft' = StepsLeft
    BY <2>2 DEF Running, WindowLen, Wake, Due, EndTime, MaySend, SendDue, PollGaveUp, Forever,
                StepsLeft, window
  <2>6. CASE keep_running /\ pc = "drain" /\ sockbuf = <<>>
    <3>1. WaitLeft = 5 /\ WaitLeft' = 0
      BY <2>2, <2>3, <2>6 DEF WaitLeft
    <3> QED BY <2>4, <2>5, <3>1 DEF Further
  <2>7. CASE ~(keep_running /\ pc = "drain" /\ sockbuf = <<>>)
    <3>1. WaitLeft' = WaitLeft
      BY <2>2, <2>3, <2>5, <2>7 DEF WaitLeft
    <3>2. Phase' = Phase
      BY <2>2, <2>3, <2>5, <2>7 DEF Phase
    <3> QED BY <2>4, <2>5, <3>1, <3>2 DEF Measure
  <2> QED BY <2>6, <2>7
<1>4. CASE Terminated
  BY <1>4 DEF Terminated, vars, window, world, Measure, Running, WindowLen, PacketsLeft, WaitLeft,
              Phase, StepsLeft, SendDue, MaySend, Wake, Due, EndTime, PollGaveUp, Forever
<1> QED BY <1>1, <1>2, <1>3, <1>4 DEF Next, Process

(* Whatever the timing and whatever arrives: from one request to the next  *)
(* every step of the process lowers a tuple of natural numbers, and        *)
(* neither time nor packets nor the signal raise it.  So ping never spins: *)
(* the sweep makes headway or poll() waits.  The one exception are the     *)
(* turns of the last millisecond before -w is over, when d_ms is 0 and     *)
(* poll() does not wait.                                                   *)
THEOREM LoopAdvances ==
  Spec => [](\A k \in 1 .. 5 : Measure[k] \in Nat) /\ [][Advances]_vars
<1> DEFINE Bounded == arrivals <= MaxArrivals
<1>1. Init => Bounded
  BY BoundsAssumption DEF Init
<1>2. TypeInv /\ Bounded /\ [Next]_vars => Bounded'
  <2> SUFFICES ASSUME TypeInv, Bounded, [Next]_vars
               PROVE  Bounded'
    OBVIOUS
  <2>1. CASE UNCHANGED arrivals
    BY <2>1
  <2>2. CASE arrivals < MaxArrivals /\ arrivals' = arrivals + 1
    BY <2>2, BoundsAssumption DEF TypeInv, TypeOK
  <2>3. \/ UNCHANGED arrivals
        \/ arrivals < MaxArrivals /\ arrivals' = arrivals + 1
    <3>1. Process => UNCHANGED arrivals
      BY DEF Process, HeadExit, Leave, HeadSend, HeadIdle, Sweep, PollBegins, PollReturns, DrainIgnore,
             DrainCredit, DrainEnd, world
    <3>2. HandleSigint \/ Tick \/ Terminated \/ UNCHANGED vars => UNCHANGED arrivals
      BY DEF HandleSigint, Tick, Terminated, vars, world
    <3>3. ArriveReply \/ ArriveForeign \/ ArriveStray
            => arrivals < MaxArrivals /\ arrivals' = arrivals + 1
      BY DEF ArriveReply, ArriveForeign, ArriveStray, Enqueue
    <3> QED BY <3>1, <3>2, <3>3 DEF Next, Process
  <2> QED BY <2>1, <2>2, <2>3
<1>3. TypeInv /\ Bounded => \A k \in 1 .. 5 : Measure[k] \in Nat
  BY MeasureIsNatural DEF TypeInv
<1>4. TypeInv /\ [Next]_vars => [Advances]_vars
  <2> SUFFICES ASSUME TypeInv, Next
               PROVE  Advances
    OBVIOUS
  <2>1. CASE Process
    BY <2>1, StepAdvances, FurtherLowers DEF Advances, TypeInv
  <2>2. CASE ~Process
    BY <2>2, WorldKeepsMeasure, FurtherLowers DEF Advances, TypeInv
  <2> QED BY <2>1, <2>2
<1> QED BY <1>1, <1>2, <1>3, <1>4, TypeInit, TypeNext, PTL DEF Spec

===============================================================================
