--------------------------------- MODULE Ping ---------------------------------
(***************************************************************************)
(* The main loop of ping.c (ping_run) with its socket, its clock and the   *)
(* network around it.  The loop reads the clock twice, polls and drains;   *)
(* everything else (time, packets, signals) may happen between any two of  *)
(* these steps.                                                            *)
(***************************************************************************)
EXTENDS ProbeWindow, PingStats, Sequences, FiniteSets

CONSTANTS
  Count,        \* -c; 0: no limit
  Timeout,      \* -W, in ticks
  Interval,     \* -i, in ticks
  Deadline,     \* -w, in ticks; 0: none
  Adaptive,     \* -A
  StraySeqs,    \* slots for which another process with the same 16-bit id gets replies
  Signals,      \* whether SIGINT, SIGTERM or SIGQUIT may come
  QueueLen,     \* bound: packets the socket buffer holds
  MaxArrivals,  \* bound: packets that ever reach the socket
  MaxLag,       \* bound: ticks the process may be delayed between two steps
  MaxClock,     \* bound: the clock of a run without -c, while no signal has come
  ClockEnd      \* bound: here the clock stops; no run that comes to an end gets so far

ASSUME CountAssumption    == Count \in Nat /\ Deadline \in Nat
ASSUME TimesAssumption    == Timeout \in Nat \ {0} /\ Interval \in Nat
ASSUME SwitchesAssumption == Adaptive \in BOOLEAN /\ Signals \in BOOLEAN
ASSUME StrayAssumption    == StraySeqs \subseteq Slot
ASSUME BoundsAssumption   == /\ QueueLen \in Nat /\ MaxArrivals \in Nat
                             /\ MaxLag \in Nat /\ MaxClock \in Nat /\ ClockEnd \in Nat

VARIABLES
  pc,            \* where ping_run is: at the loop test, between its two clock
                 \* reads, about to call poll(), in it, in drain_ping_replies,
                 \* or returned
  exit_by,       \* which test left the loop
  keep_running,
  seq, sent, received, next_timeout_check_seq, sent_times, replied_or_timeout,
  stats,         \* the rtt fields of ping_state_t
  next_send_time,
  poll_until     \* when the current poll() gives up

VARIABLES
  clock, lag,    \* CLOCK_MONOTONIC; ticks since the process last took a step
  on_wire,       \* echo requests that left the host
  sockbuf,       \* packets queued on the ICMP socket
  arrivals       \* packets that have reached it

VARIABLES        \* history: numbers of probes, counted from 1 without wrapping
  heard,         \* whose reply has reached the socket
  answered,      \* counted as received
  expired,       \* reported as timed out
  misfits        \* how many replies were counted that answer no probe a slot
                 \* belongs to

window  == <<seq, sent, next_timeout_check_seq, sent_times, replied_or_timeout>>
results == <<received, stats>>
world   == <<clock, on_wire, sockbuf, arrivals, heard>>
history == <<answered, expired, misfits>>
vars    == <<pc, exit_by, keep_running, window, results, next_send_time,
             poll_until, lag, world, history>>

Request == [probe : Nat, seq : Slot, at : Nat]
(* A packet in the socket buffer; mine: it passes the type, id and length   *)
(* checks; probe: the echo request it answers, 0 if not one of ours.        *)
Packet  == [mine : BOOLEAN, seq : Slot, probe : Nat]
Foreign == [mine |-> FALSE, seq |-> 0, probe |-> 0]

StartTime == 1

Init ==
  /\ pc = "head" /\ exit_by = "none" /\ keep_running = TRUE
  /\ seq = 1 /\ sent = 0 /\ received = 0
  /\ next_timeout_check_seq = 1
  /\ sent_times = [s \in Slot |-> 0]
  /\ replied_or_timeout = [s \in Slot |-> FALSE]
  /\ stats = NoStats
  /\ next_send_time = StartTime /\ poll_until = 0
  /\ clock = StartTime /\ lag = 0
  /\ on_wire = {} /\ sockbuf = <<>> /\ arrivals = 0
  /\ heard = {} /\ answered = {} /\ expired = {} /\ misfits = 0

(* The probe a slot was last used for; not positive if never used. *)
Age(s)   == IF s = seq THEN SeqMod ELSE Dist(s, seq)
Owner(s) == sent + 1 - Age(s)

MaySend == Count = 0 \/ sent < Count

-------------------------------------------------------------------------------
(* The top of the loop: the two ways out before anything is sent.          *)

BugDeadlineReached(now) == Deadline > 0 /\ now - StartTime = Deadline
DeadlineReached(now)    == Deadline > 0 /\ now - StartTime >= Deadline

Leave(why) ==
  /\ pc' = "done" /\ exit_by' = why
  /\ lag' = 0
  /\ UNCHANGED <<keep_running, window, results, next_send_time, poll_until, world, history>>

HeadExit ==
  /\ pc = "head"
  /\ \/ ~keep_running /\ Leave("signal")
     \/ keep_running /\ DeadlineReached(clock) /\ Leave("deadline")

AtSend == pc = "head" /\ keep_running /\ ~DeadlineReached(clock)

(* When the next request is due, now that one has been sent. *)
NextSend(now, last) ==
  IF Adaptive /\ last > 0
  THEN now + (IF last < 2 * NsPerMs THEN 2 * NsPerMs ELSE last)
  ELSE now + Interval

(* Slot s is handed to the probe sent now. *)
BugReopen(resolved, s) == resolved
Reopen(resolved, s)    == [resolved EXCEPT ![s] = FALSE]

(* sendto() may fail; the request counts as sent either way. *)
HeadSend ==
  /\ AtSend /\ MaySend /\ clock >= next_send_time
  /\ sent_times' = [sent_times EXCEPT ![seq] = clock]
  /\ replied_or_timeout' = Reopen(replied_or_timeout, seq)
  /\ \/ on_wire' = on_wire \cup {[probe |-> sent + 1, seq |-> seq, at |-> clock]}
     \/ on_wire' = on_wire
  /\ sent' = sent + 1
  /\ seq' = Succ(seq)
  /\ next_send_time' = NextSend(clock, stats.last)
  /\ pc' = "sweep" /\ lag' = 0
  /\ UNCHANGED <<exit_by, keep_running, next_timeout_check_seq, results, poll_until,
                 clock, sockbuf, arrivals, heard, history>>

HeadIdle ==
  /\ AtSend /\ ~(MaySend /\ clock >= next_send_time)
  /\ pc' = "sweep" /\ lag' = 0
  /\ UNCHANGED <<exit_by, keep_running, window, results, next_send_time, poll_until,
                 world, history>>

-------------------------------------------------------------------------------
(* From the second clock read to the call of poll().                       *)

(* Once the deadline is in the past, the u_int64_t difference wraps around *)
(* and is a negative number of milliseconds as an int.                     *)
BugClampAlways(ms, now) ==
  LET left == StartTime + Deadline - now
      d_ms == IF left < 0 THEN Forever ELSE left \div NsPerMs
  IN  IF d_ms < ms THEN d_ms ELSE ms

BugClampSwapped(ms, now) ==
  LET d_ms == (StartTime + Deadline - now) \div NsPerMs
  IN  IF Deadline > 0 /\ d_ms > ms THEN d_ms ELSE ms

ClampToDeadline(ms, now) ==
  LET left == StartTime + Deadline - now
      d_ms == IF left < 0 THEN Forever ELSE left \div NsPerMs
  IN  IF Deadline > 0 /\ d_ms < ms THEN d_ms ELSE ms

Lost(h) == {s \in Window(next_timeout_check_seq, h) : ~replied_or_timeout[s]}

BugResolve(resolved, slots) == resolved
Resolve(resolved, slots)    == [s \in Slot |-> resolved[s] \/ s \in slots]

BugAllDone(h) == Count > 0 /\ sent >= Count
AllDone(h)    == Count > 0 /\ sent >= Count /\ h = seq

Sweep ==
  /\ pc = "sweep"
  /\ \E h \in Slot :
       /\ SweepStopsAt(next_timeout_check_seq, h, seq, replied_or_timeout,
                       sent_times, clock, Timeout)
       /\ next_timeout_check_seq' = h
       /\ replied_or_timeout' = Resolve(replied_or_timeout, Lost(h))
       /\ expired' = expired \cup {Owner(s) : s \in Lost(h)}
       /\ IF AllDone(h)
          THEN /\ pc' = "done" /\ exit_by' = "count"
               /\ UNCHANGED poll_until
          ELSE /\ pc' = "call"
               /\ poll_until' = PollUntil(clock,
                    ClampToDeadline(WaitMs(clock, MaySend, next_send_time,
                                           sent_times[h] + Timeout), clock))
               /\ UNCHANGED exit_by
  /\ lag' = 0
  /\ UNCHANGED <<keep_running, seq, sent, sent_times, results, next_send_time, world,
                 answered, misfits>>

(* poll() counts its timeout from when it is entered. *)
PollBegins ==
  /\ pc = "call" /\ pc' = "poll" /\ lag' = 0
  /\ UNCHANGED <<exit_by, keep_running, window, results, next_send_time, poll_until,
                 world, history>>

PollGaveUp == poll_until # Forever /\ clock >= poll_until
Waiting    == pc = "poll" /\ sockbuf = <<>> /\ ~PollGaveUp

PollReturns ==
  /\ pc = "poll"
  /\ \/ sockbuf # <<>> /\ pc' = "drain"
     \/ sockbuf = <<>> /\ PollGaveUp /\ pc' = "head"
  /\ lag' = 0
  /\ UNCHANGED <<exit_by, keep_running, window, results, next_send_time, poll_until,
                 world, history>>

-------------------------------------------------------------------------------
(* drain_ping_replies, one packet per step.                                *)

AtPacket == pc = "drain" /\ keep_running /\ sockbuf # <<>>

BugCredits(p, resolved) == p.mine
Credits(p, resolved)    == p.mine /\ ~resolved[p.seq]

DrainIgnore ==
  /\ AtPacket /\ ~Credits(Head(sockbuf), replied_or_timeout)
  /\ sockbuf' = Tail(sockbuf)
  /\ lag' = 0
  /\ UNCHANGED <<pc, exit_by, keep_running, window, results, next_send_time, poll_until,
                 clock, on_wire, arrivals, heard, history>>

(* Does packet p answer one of the probes that slots belong to?            *)
Fits(p) == p.probe > 0 /\ p.probe + SeqMod > sent

(* A slot no request was sent on has no send time: the rtt is then taken   *)
(* from the packet's own timestamp, or is 0 if it carries none.            *)
Rtts(s) == IF sent_times[s] > 0 THEN {clock - sent_times[s]} ELSE 0 .. clock

DrainCredit ==
  /\ AtPacket /\ Credits(Head(sockbuf), replied_or_timeout)
  /\ LET s == Head(sockbuf).seq
     IN  /\ replied_or_timeout' = [replied_or_timeout EXCEPT ![s] = TRUE]
         /\ \E rtt \in Rtts(s) : stats' = UpdateStats(stats, rtt)
         /\ answered' = IF sent_times[s] > 0 THEN answered \cup {Owner(s)} ELSE answered
  /\ misfits' = IF Fits(Head(sockbuf)) THEN misfits ELSE misfits + 1
  /\ received' = received + 1
  /\ sockbuf' = Tail(sockbuf)
  /\ lag' = 0
  /\ UNCHANGED <<pc, exit_by, keep_running, seq, sent, next_timeout_check_seq, sent_times,
                 next_send_time, poll_until, clock, on_wire, arrivals, heard, expired>>

DrainEnd ==
  /\ pc = "drain" /\ (~keep_running \/ sockbuf = <<>>)
  /\ pc' = "head" /\ lag' = 0
  /\ UNCHANGED <<exit_by, keep_running, window, results, next_send_time, poll_until,
                 world, history>>

Process == HeadExit \/ HeadSend \/ HeadIdle \/ Sweep \/ PollBegins \/ PollReturns
           \/ DrainIgnore \/ DrainCredit \/ DrainEnd

-------------------------------------------------------------------------------
(* The environment.                                                        *)

(* handle_sigint; a blocked poll() returns EINTR.  A signal that comes     *)
(* between the loop test and poll() does not interrupt it.                 *)
HandleSigint ==
  /\ Signals /\ pc # "done" /\ keep_running
  /\ keep_running' = FALSE
  /\ pc' = IF pc = "poll" THEN "head" ELSE pc
  /\ UNCHANGED <<exit_by, window, results, next_send_time, poll_until, lag, world, history>>

Tick ==
  /\ pc # "done"
  /\ clock < MaxClock \/ ~keep_running \/ Count > 0
  /\ Waiting \/ lag < MaxLag
  /\ clock' = IF clock < ClockEnd THEN clock + 1 ELSE clock
  /\ lag' = IF Waiting THEN lag ELSE lag + 1
  /\ poll_until' = IF pc = "call" /\ poll_until # Forever
                   THEN poll_until + (clock' - clock) ELSE poll_until
  /\ UNCHANGED <<pc, exit_by, keep_running, window, results, next_send_time, on_wire,
                  sockbuf, arrivals, heard, history>>

Enqueue(p) ==
  /\ pc # "done" /\ Len(sockbuf) < QueueLen /\ arrivals < MaxArrivals
  /\ sockbuf' = Append(sockbuf, p)
  /\ arrivals' = arrivals + 1
  /\ UNCHANGED <<pc, exit_by, keep_running, window, results, next_send_time, poll_until,
                 clock, lag, on_wire, history>>

(* The reply to a request: any number of times, in any order, any time     *)
(* later, or never.                                                        *)
ArriveReply ==
  \E r \in on_wire :
    /\ r.at < clock
    /\ Enqueue([mine |-> TRUE, seq |-> r.seq, probe |-> r.probe])
    /\ heard' = heard \cup {r.probe}

(* Other ICMP traffic reaches a raw socket too. *)
ArriveForeign == Enqueue(Foreign) /\ UNCHANGED heard

ArriveStray ==
  \E s \in StraySeqs :
    Enqueue([mine |-> TRUE, seq |-> s, probe |-> 0]) /\ UNCHANGED heard

Terminated == pc = "done" /\ UNCHANGED vars

Next == Process \/ HandleSigint \/ Tick \/ ArriveReply \/ ArriveForeign \/ ArriveStray
        \/ Terminated

Spec     == Init /\ [][Next]_vars
FairSpec == Spec /\ WF_vars(Process) /\ WF_vars(Tick)

-------------------------------------------------------------------------------
(* Every variable has its type; the socket buffer holds at most QueueLen.  *)
TypeOK ==
  /\ pc \in {"head", "sweep", "call", "poll", "drain", "done"}
  /\ exit_by \in {"none", "signal", "deadline", "count"}
  /\ keep_running \in BOOLEAN
  /\ seq \in Slot /\ sent \in Nat /\ received \in Nat
  /\ next_timeout_check_seq \in Slot
  /\ sent_times \in [Slot -> Nat]
  /\ replied_or_timeout \in [Slot -> BOOLEAN]
  /\ stats \in Stats
  /\ next_send_time \in Nat /\ poll_until \in Nat \cup {Forever}
  /\ clock \in Nat \ {0} /\ lag \in 0 .. MaxLag
  /\ on_wire \subseteq Request
  /\ sockbuf \in Seq(Packet) /\ Len(sockbuf) <= QueueLen
  /\ arrivals \in Nat
  /\ heard \subseteq Nat
  /\ answered \subseteq 1 .. sent /\ expired \subseteq 1 .. sent /\ misfits \in Nat

(* Whatever packets are lost, doubled, late or reordered, and however the  *)
(* slots wrap: no probe is both counted as received and reported as timed  *)
(* out, and the "packets received" ping prints is the number of probes     *)
(* answered, so the loss it prints is never negative.                      *)
EachProbeReportedOnce ==
  /\ answered \cap expired = {}
  /\ received = Cardinality(answered)

(* When ping stops because -c requests were sent, it has not given up on   *)
(* any: each was answered or waited for until it expired.                  *)
CountExitIsComplete ==
  exit_by = "count" => sent = Count /\ answered \cup expired = 1 .. sent

(* With fewer probes than slots, a probe counts as answered only if its    *)
(* own reply came.                                                         *)
CreditGenuine == answered \subseteq heard

(* The statistics ping prints: min <= avg <= max, and the variance under   *)
(* the root of mdev, a difference of unsigned numbers, is not negative.    *)
StatsConsistent ==
  received > 0 =>
    /\ stats.min <= Average(stats, received)
    /\ Average(stats, received) <= stats.max
    /\ VarianceUs(stats, received) >= 0

(* poll() is told to return at once only if a request is due: ping does    *)
(* not spin.  And while it sleeps, it is not for longer than the loop has  *)
(* nothing to do: up to the next send while there are requests to send,    *)
(* then up to the expiry of the oldest probe, which is still unanswered;   *)
(* rounding costs at most a millisecond, and what delays the process       *)
(* between the second clock read and poll() comes on top.                  *)
PollIsTimely ==
  /\ pc = "call" /\ Deadline = 0 => \/ poll_until > clock
                                    \/ MaySend /\ clock >= next_send_time
  /\ pc = "poll" /\ ~PollGaveUp /\ Deadline = 0 =>
       /\ poll_until # Forever
       /\ IF MaySend
          THEN poll_until <= next_send_time + NsPerMs + MaxLag
          ELSE /\ next_timeout_check_seq # seq
               /\ poll_until <= sent_times[next_timeout_check_seq] + Timeout
                                 + NsPerMs + MaxLag

(* Before the deadline has passed, poll() is never told to sleep past it;  *)
(* only a delay of the process just before poll() can make it.             *)
PollHonoursDeadline ==
  pc = "poll" /\ Deadline > 0 /\ poll_until # Forever
    => poll_until <= StartTime + Deadline + MaxLag

(* "packets received" against the replies that really came, however slots  *)
(* wrap and replies are late, doubled or meant for another process: what   *)
(* it counts are probes whose own reply came, each once, and one more for  *)
(* each packet taken for a reply that answers no probe a slot belongs to.  *)
(* Such a packet may be counted on a slot nobody used or hide that the     *)
(* reply to a probe was lost.                                              *)
CountErrorBounded ==
  received - Cardinality(answered \cap heard) \in 0 .. misfits

(* With -c, ping comes to an end. *)
Terminates == <>(pc = "done")

(* With -w, ping comes to an end once that time has passed (ping.8:65).     *)
DeadlineStops == (Deadline > 0 /\ clock >= StartTime + Deadline) ~> pc = "done"

(* After a signal, ping comes to an end, even if the signal slips in       *)
(* between the loop test and poll().                                       *)
SignalStops == ~keep_running ~> pc = "done"

LedgerStatus ==
  CASE exit_by = "none"  -> "running"
    [] exit_by = "count" -> "complete"
    [] OTHER             -> "interrupted"

Ledger == INSTANCE ProbeLedger WITH status <- LedgerStatus

(* Seen from outside, a run is a ledger of probes: each is filed once, as  *)
(* answered for its own reply or as expired, the oldest first.             *)
RefinesLedger == Ledger!Spec
===============================================================================
