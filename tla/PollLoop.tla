-------------------------------- MODULE PollLoop --------------------------------
(***************************************************************************)
(* The loop that tcping_run and arping_run have in common, statement for   *)
(* statement: test keep_running, send if due, sweep the window of probes,  *)
(* poll, drain.  A tool's module EXTENDS this one, names its tail slot     *)
(* (the number the next probe gets) and adds what it sends and what it     *)
(* makes of a packet.  The clock, the socket buffer and the delays of the  *)
(* process are those of Ping.                                              *)
(***************************************************************************)
EXTENDS ProbeWindow, Sequences, FiniteSets

CONSTANTS
  Count,        \* -c; 0: no limit
  Timeout, Interval,   \* in ticks
  Signals,      \* whether SIGINT, SIGTERM or SIGQUIT may come
  QueueLen,     \* bound: packets the socket buffer holds
  MaxArrivals,  \* bound: packets that ever reach the socket
  MaxLag,       \* bound: ticks the process may be delayed between two steps
  MaxClock,     \* bound: the clock of a run without -c, while no signal has come
  ClockEnd      \* bound: here the clock stops; no run that comes to an end gets so far

ASSUME LoopAssumption ==
  /\ Count \in Nat /\ Timeout \in Nat \ {0} /\ Interval \in Nat /\ Signals \in BOOLEAN
  /\ QueueLen \in Nat /\ MaxArrivals \in Nat /\ MaxLag \in Nat /\ MaxClock \in Nat /\ ClockEnd \in Nat

VARIABLES pc, exit_by, keep_running, sent, received, next_timeout_check_seq,
          sent_times, replied_or_timeout, next_send_time, poll_until
VARIABLES clock, lag, on_wire, sockbuf, arrivals
VARIABLES heard, answered, expired   \* history, as in Ping

slots    == <<next_timeout_check_seq, sent_times, replied_or_timeout>>
world    == <<clock, on_wire, sockbuf, arrivals, heard>>
history  == <<answered, expired>>
loopvars == <<pc, exit_by, keep_running, sent, received, slots, next_send_time,
              poll_until, lag, world, history>>

StartTime == 1

LoopInit(first, start) ==
  /\ pc = start /\ exit_by = "none" /\ keep_running = TRUE
  /\ sent = 0 /\ received = 0 /\ next_timeout_check_seq = first
  /\ sent_times = [s \in Slot |-> 0] /\ replied_or_timeout = [s \in Slot |-> FALSE]
  /\ next_send_time = StartTime /\ poll_until = 0
  /\ clock = StartTime /\ lag = 0
  /\ on_wire = {} /\ sockbuf = <<>> /\ arrivals = 0
  /\ heard = {} /\ answered = {} /\ expired = {}

(* The probe slot s was last used for, when tail is the next slot to use.  *)
Owner(s, tail) == sent + 1 - (IF s = tail THEN SeqMod ELSE Dist(s, tail))

MaySend == Count = 0 \/ sent < Count
SendDue == MaySend /\ clock >= next_send_time

Exit(why) ==
  /\ pc' = "done" /\ exit_by' = why /\ lag' = 0
  /\ UNCHANGED <<keep_running, sent, received, slots, next_send_time, poll_until, world, history>>

HeadExit == pc = "head" /\ ~keep_running /\ Exit("signal")

(* Slot s is handed to the probe sent now. *)
OpenSlot(s) ==
  /\ pc = "head" /\ keep_running /\ SendDue
  /\ sent_times' = [sent_times EXCEPT ![s] = clock]
  /\ replied_or_timeout' = [replied_or_timeout EXCEPT ![s] = FALSE]
  /\ lag' = 0
  /\ UNCHANGED <<keep_running, received, next_timeout_check_seq, poll_until,
                 clock, sockbuf, arrivals, heard, history>>

CountSend ==
  /\ sent' = sent + 1
  /\ next_send_time' = clock + Interval
  /\ pc' = "sweep" /\ UNCHANGED exit_by

HeadIdle ==
  /\ pc = "head" /\ keep_running /\ ~SendDue
  /\ pc' = "sweep" /\ lag' = 0
  /\ UNCHANGED <<exit_by, keep_running, sent, received, slots, next_send_time, poll_until,
                 world, history>>

Lost(h) == {s \in Window(next_timeout_check_seq, h) : ~replied_or_timeout[s]}

BugAllDone(h, tail) == Count > 0 /\ sent >= Count
AllDone(h, tail)    == Count > 0 /\ sent >= Count /\ h = tail

SweepTo(tail) ==
  /\ pc = "sweep"
  /\ \E h \in Slot :
       /\ SweepStopsAt(next_timeout_check_seq, h, tail, replied_or_timeout,
                       sent_times, clock, Timeout)
       /\ next_timeout_check_seq' = h
       /\ replied_or_timeout' = [s \in Slot |-> replied_or_timeout[s] \/ s \in Lost(h)]
       /\ expired' = expired \cup {Owner(s, tail) : s \in Lost(h)}
       /\ IF AllDone(h, tail)
          THEN pc' = "done" /\ exit_by' = "count" /\ UNCHANGED poll_until
          ELSE /\ pc' = "call" /\ UNCHANGED exit_by
               /\ poll_until' = PollUntil(clock,
                    WaitMs(clock, MaySend, next_send_time, sent_times[h] + Timeout))
  /\ lag' = 0
  /\ UNCHANGED <<keep_running, sent, received, sent_times, next_send_time, world, answered>>

(* poll() counts its timeout from when it is entered. *)
PollBegins ==
  /\ pc = "call" /\ pc' = "poll" /\ lag' = 0
  /\ UNCHANGED <<exit_by, keep_running, sent, received, slots, next_send_time, poll_until,
                 world, history>>

PollGaveUp == poll_until # Forever /\ clock >= poll_until
Waiting    == pc = "poll" /\ sockbuf = <<>> /\ ~PollGaveUp

PollReturns ==
  /\ pc = "poll"
  /\ \/ sockbuf # <<>> /\ pc' = "drain"
     \/ sockbuf = <<>> /\ PollGaveUp /\ pc' = "head"
  /\ lag' = 0
  /\ UNCHANGED <<exit_by, keep_running, sent, received, slots, next_send_time, poll_until,
                 world, history>>

(* One turn of the drain loop takes the packet at the front. *)
BugDrains == pc = "drain" /\ sockbuf # <<>>
Drains    == pc = "drain" /\ keep_running /\ sockbuf # <<>>

TakePacket ==
  /\ Drains
  /\ sockbuf' = Tail(sockbuf)
  /\ lag' = 0
  /\ UNCHANGED <<pc, exit_by, sent, next_timeout_check_seq, sent_times, next_send_time,
                 poll_until, clock, on_wire, arrivals, heard, expired>>

IgnorePacket ==
  TakePacket /\ UNCHANGED <<keep_running, received, replied_or_timeout, answered>>

DrainEnd ==
  /\ pc = "drain" /\ ~Drains
  /\ pc' = "head" /\ lag' = 0
  /\ UNCHANGED <<exit_by, keep_running, sent, received, slots, next_send_time, poll_until,
                 world, history>>

-------------------------------------------------------------------------------
HandleSigint ==
  /\ Signals /\ pc # "done" /\ keep_running
  /\ keep_running' = FALSE
  /\ pc' = IF pc = "poll" THEN "head" ELSE pc
  /\ UNCHANGED <<exit_by, sent, received, slots, next_send_time, poll_until, lag, world, history>>

Tick ==
  /\ pc # "done"
  /\ clock < MaxClock \/ ~keep_running \/ Count > 0
  /\ Waiting \/ lag < MaxLag
  /\ clock' = IF clock < ClockEnd THEN clock + 1 ELSE clock
  /\ lag' = IF Waiting THEN lag ELSE lag + 1
  /\ poll_until' = IF pc = "call" /\ poll_until # Forever
                   THEN poll_until + (clock' - clock) ELSE poll_until
  /\ UNCHANGED <<pc, exit_by, keep_running, sent, received, slots, next_send_time, on_wire,
                  sockbuf, arrivals, heard, history>>

Enqueue(p) ==
  /\ pc # "done" /\ Len(sockbuf) < QueueLen /\ arrivals < MaxArrivals
  /\ sockbuf' = Append(sockbuf, p)
  /\ arrivals' = arrivals + 1
  /\ UNCHANGED <<pc, exit_by, keep_running, sent, received, slots, next_send_time, poll_until,
                 clock, lag, on_wire, history>>

-------------------------------------------------------------------------------
LoopTypeOK ==
  /\ keep_running \in BOOLEAN /\ sent \in Nat /\ received \in Nat
  /\ next_timeout_check_seq \in Slot
  /\ sent_times \in [Slot -> Nat] /\ replied_or_timeout \in [Slot -> BOOLEAN]
  /\ next_send_time \in Nat /\ poll_until \in Nat \cup {Forever}
  /\ clock \in Nat \ {0} /\ lag \in Nat /\ arrivals \in 0 .. MaxArrivals
  /\ Len(sockbuf) <= QueueLen
  /\ answered \subseteq 1 .. sent /\ expired \subseteq 1 .. sent
===============================================================================
