------------------------------- MODULE Traceroute -------------------------------
(***************************************************************************)
(* traceroute_run: for each TTL a volley of probes, then a wait for their  *)
(* answers.  An answer is told apart by the ICMP sequence number of the    *)
(* probe it quotes, or with -U by its UDP destination port.  The path has  *)
(* routers at hops 1, 2, ... and the target at hop Distance; answers may   *)
(* be lost, doubled, late and out of order.                                *)
(***************************************************************************)
EXTENDS ProbeWindow, Sequences, FiniteSets

CONSTANTS
  FirstTtl, MaxTtl, Queries, Timeout,   \* -f -m -q -w
  TtlMod,       \* how many values a u_char has: 256
  PortBase,     \* TRACEROUTE_PORT_BASE
  Distance,     \* the hop at which the target is
  Scenarios,    \* the runs that are looked at: see the variable config
  ClockEnd      \* bound: here the clock stops; no run that comes to an end gets so far

(* The option -U, and the environment: the hop at which a router may send   *)
(* ICMP unreachable instead of passing probes on (0: none), whether        *)
(* SIGINT, SIGTERM or SIGQUIT may come, how many packets may ever reach    *)
(* the ICMP socket and how many ticks the process may be delayed between   *)
(* two steps (both are bounds).                                            *)
Scenario ==
  [use_udp : BOOLEAN, blocker : 0 .. Distance - 1, signals : BOOLEAN,
   max_arrivals : Nat, max_lag : Nat]

ASSUME TracerouteAssumption ==
  /\ TtlMod \in Nat /\ MaxTtl \in 0 .. TtlMod - 1 /\ FirstTtl \in 1 .. TtlMod - 1
  /\ Queries \in Nat /\ Queries < SeqMod /\ Timeout \in Nat
  /\ PortBase \in Slot /\ Distance \in Nat \ {0}
  /\ Scenarios \subseteq Scenario /\ ClockEnd \in Nat

VARIABLES
  config,        \* a Scenario: traceroute_config_t and the environment; never changed
  pc,            \* "hop": the head of the loop over TTLs; "volley": sending;
                 \* "wait": the head of the receiving loop; "timeout": about to
                 \* read the clock again; "call": about to call poll(); "poll":
                 \* in it; "print"; "done"
  keep_running, ttl, probe, seq, base_seq, target_reached,
  probes,        \* probe_state_t; answers is history: the probe the credited
                 \* packet was about
  global_wait_until, poll_until,
  printed,       \* history: the TTLs of the lines printed
  target_ttls,   \* history: the TTLs with which probes reached the target
  clock, lag, on_wire, sockbuf, arrivals

volley == <<ttl, seq, base_seq, probe>>
net    == <<on_wire, sockbuf, arrivals>>
found  == <<target_reached, target_ttls>>
vars   == <<config, pc, keep_running, volley, found, probes, global_wait_until,
            poll_until, printed, clock, lag, net>>

Index == 0 .. Queries - 1
NoProbe == [sent_ok |-> FALSE, received |-> FALSE, answers |-> <<0, 0>>, from |-> 0]

Init ==
  /\ config \in Scenarios
  /\ pc = "hop" /\ keep_running = TRUE
  /\ ttl = FirstTtl /\ probe = 0 /\ seq = 1 /\ base_seq = 1
  /\ target_reached = FALSE /\ target_ttls = {}
  /\ probes = [i \in Index |-> NoProbe]
  /\ global_wait_until = 0 /\ poll_until = 0
  /\ printed = <<>>
  /\ clock = 1 /\ lag = 0 /\ on_wire = {} /\ sockbuf = <<>> /\ arrivals = 0

(* The UDP port of the i-th probe with a TTL: a u_short. *)
BugDestPort(t, i) == (PortBase + i) % SeqMod
DestPort(t, i)    == (PortBase + (t - 1) * Queries + i) % SeqMod

(* The number an answer to the i-th probe of this volley must quote. *)
BugExpected(i) == IF config.use_udp THEN DestPort(ttl, i) ELSE base_seq
Expected(i)    == IF config.use_udp THEN DestPort(ttl, i) ELSE (base_seq + i) % SeqMod

-------------------------------------------------------------------------------
(* u_char increment.  A TTL of 0 is refused by setsockopt, whose result is *)
(* not looked at: the socket keeps the TTL it had.                         *)
NextTtl == (ttl + 1) % TtlMod
WireTtl == IF ttl = 0 THEN TtlMod - 1 ELSE ttl

BugGoesOn == ttl <= MaxTtl /\ keep_running
GoesOn    == ttl <= MaxTtl /\ keep_running /\ ~target_reached

HopBegin ==
  /\ pc = "hop" /\ GoesOn
  /\ probes' = [i \in Index |-> NoProbe]
  /\ global_wait_until' = 0 /\ base_seq' = seq /\ probe' = 0
  /\ pc' = "volley" /\ lag' = 0
  /\ UNCHANGED <<config, keep_running, ttl, seq, found, poll_until, printed, clock, net>>

RunEnds ==
  /\ pc = "hop" /\ ~GoesOn
  /\ pc' = "done" /\ lag' = 0
  /\ UNCHANGED <<config, keep_running, volley, found, probes, global_wait_until,
                 poll_until, printed, clock, net>>

MoreToSend == probe < Queries /\ keep_running

SendProbe ==
  /\ pc = "volley" /\ MoreToSend
  /\ \/ /\ probes' = [probes EXCEPT ![probe].sent_ok = TRUE]
        /\ on_wire' = on_wire \cup
             {[ttl |-> ttl, index |-> probe, hops |-> WireTtl,
               number |-> IF config.use_udp THEN DestPort(ttl, probe) ELSE seq]}
        /\ global_wait_until' = clock + Timeout
     \/ UNCHANGED <<probes, on_wire, global_wait_until>>   \* the send failed
  /\ seq' = Succ(seq) /\ probe' = probe + 1
  /\ lag' = 0
  /\ UNCHANGED <<config, pc, keep_running, ttl, base_seq, found, poll_until, printed,
                 clock, sockbuf, arrivals>>

VolleyEnds ==
  /\ pc = "volley" /\ ~MoreToSend
  /\ pc' = "wait" /\ lag' = 0
  /\ UNCHANGED <<config, keep_running, volley, found, probes, global_wait_until,
                 poll_until, printed, clock, net>>

Open(i) == probes[i].sent_ok /\ ~probes[i].received

(* The loop test and the search for an open probe. *)
StillWaiting == keep_running /\ clock < global_wait_until /\ \E i \in Index : Open(i)

WaitMore ==
  /\ pc = "wait" /\ StillWaiting
  /\ pc' = "timeout" /\ lag' = 0
  /\ UNCHANGED <<config, keep_running, volley, found, probes, global_wait_until,
                 poll_until, printed, clock, net>>

WaitEnds ==
  /\ pc = "wait" /\ ~StillWaiting
  /\ pc' = "print" /\ lag' = 0
  /\ UNCHANGED <<config, keep_running, volley, found, probes, global_wait_until,
                 poll_until, printed, clock, net>>

(* The second clock read, which the timeout of poll() is computed from.    *)
BugTimeIsLeft == TRUE
TimeIsLeft    == clock < global_wait_until

BugTimeoutMs(ns) == ns \div NsPerMs
TimeoutMs(ns)    == IF ns \div NsPerMs > 0 THEN ns \div NsPerMs ELSE 1

PollPrepared ==
  /\ pc = "timeout" /\ TimeIsLeft
  /\ poll_until' = clock + TimeoutMs(global_wait_until - clock) * NsPerMs
  /\ pc' = "call" /\ lag' = 0
  /\ UNCHANGED <<config, keep_running, volley, found, probes, global_wait_until, printed,
                 clock, net>>

TimeRunsOut ==
  /\ pc = "timeout" /\ ~TimeIsLeft
  /\ pc' = "print" /\ lag' = 0
  /\ UNCHANGED <<config, keep_running, volley, found, probes, global_wait_until,
                 poll_until, printed, clock, net>>

(* poll() counts its timeout from when it is entered. *)
PollBegins ==
  /\ pc = "call"
  /\ pc' = "poll" /\ lag' = 0
  /\ UNCHANGED <<config, keep_running, volley, found, probes, global_wait_until,
                 poll_until, printed, clock, net>>

PollTimesOut ==
  /\ pc = "poll" /\ sockbuf = <<>> /\ clock >= poll_until
  /\ pc' = "wait" /\ lag' = 0
  /\ UNCHANGED <<config, keep_running, volley, found, probes, global_wait_until,
                 poll_until, printed, clock, net>>

(* is_our_probe: the process id is compared only for ICMP probes, and an   *)
(* echo reply is an answer only to them.                                   *)
IsOurProbe(p, i) ==
  /\ IF config.use_udp THEN p.kind # "reply" ELSE p.ours
  /\ p.number = Expected(i)

(* check_is_target *)
IsTarget(p) == p.kind = "reply" \/ (config.use_udp /\ p.kind = "unreach")

Receive ==
  /\ pc = "poll" /\ sockbuf # <<>>
  /\ LET p    == Head(sockbuf)
         mine == {i \in Index : Open(i) /\ IsOurProbe(p, i)}
     IN  IF mine = {}
         THEN UNCHANGED <<probes, found>>
         ELSE LET i == CHOOSE k \in mine : \A j \in mine : k <= j
              IN  /\ probes' = [probes EXCEPT ![i].received = TRUE, ![i].from = p.from,
                                              ![i].answers = p.about]
                  /\ target_reached' = (target_reached \/ IsTarget(p))
                  /\ target_ttls' = IF IsTarget(p) THEN target_ttls \cup {p.about[1]}
                                                  ELSE target_ttls
  /\ sockbuf' = Tail(sockbuf)
  /\ pc' = "wait" /\ lag' = 0
  /\ UNCHANGED <<config, keep_running, volley, global_wait_until, poll_until, printed,
                 clock, on_wire, arrivals>>

PrintHop ==
  /\ pc = "print"
  /\ printed' = Append(printed, ttl)
  /\ ttl' = NextTtl
  /\ pc' = "hop" /\ lag' = 0
  /\ UNCHANGED <<config, keep_running, seq, base_seq, probe, found, probes,
                 global_wait_until, poll_until, clock, net>>

Process == HopBegin \/ RunEnds \/ SendProbe \/ VolleyEnds \/ WaitMore \/ WaitEnds
           \/ PollPrepared \/ TimeRunsOut \/ PollBegins \/ PollTimesOut \/ Receive \/ PrintHop

-------------------------------------------------------------------------------
(* The environment.                                                        *)

(* handle_sigint: a blocked poll() returns EINTR; a signal that comes      *)
(* between the loop test and poll() does not interrupt it.                 *)
HandleSigint ==
  /\ config.signals /\ keep_running /\ pc # "done"
  /\ keep_running' = FALSE
  /\ pc' = IF pc = "poll" THEN "wait" ELSE pc
  /\ UNCHANGED <<config, volley, found, probes, global_wait_until, poll_until, printed,
                 clock, lag, net>>

Waiting == pc = "poll" /\ sockbuf = <<>> /\ clock < poll_until

(* A delay before a step that reads no clock shows in the next that does,  *)
(* and one between two sends has the effect of one before or after them.   *)
DelayShows == pc \in {"wait", "timeout", "call"}

Tick ==
  /\ Waiting \/ (DelayShows /\ lag < config.max_lag)
  /\ clock' = IF clock < ClockEnd THEN clock + 1 ELSE clock
  /\ lag' = IF Waiting THEN lag ELSE lag + 1
  /\ poll_until' = IF pc = "call" THEN poll_until + (clock' - clock) ELSE poll_until
  /\ UNCHANGED <<config, pc, keep_running, volley, found, probes, global_wait_until,
                 printed, net>>

Enqueue(p) ==
  /\ pc # "done" /\ arrivals < config.max_arrivals
  /\ sockbuf' = Append(sockbuf, p)
  /\ arrivals' = arrivals + 1
  /\ UNCHANGED <<config, pc, keep_running, volley, found, probes, global_wait_until,
                 poll_until, printed, clock, lag, on_wire>>

(* Who answers a probe that may pass t hops, and how. *)
Blocked(t)  == config.blocker > 0 /\ t > config.blocker
Answerer(t) ==
  IF Blocked(t) THEN config.blocker ELSE IF t < Distance THEN t ELSE Distance
AnswerKind(t) ==
  CASE Blocked(t)                  -> "unreach"
    [] ~Blocked(t) /\ t < Distance -> "exceeded"
    [] OTHER                       -> IF config.use_udp THEN "unreach" ELSE "reply"

ArriveAnswer ==
  \E r \in on_wire :
    Enqueue([kind |-> AnswerKind(r.hops), ours |-> TRUE, number |-> r.number,
             from |-> Answerer(r.hops), about |-> <<r.ttl, r.index>>])

(* An echo reply or an ICMP error about an echo request of another process *)
(* on this host.  Assumed away: UDP datagrams of other processes to the    *)
(* ports that -U probes.                                                   *)
ArriveForeign ==
  /\ ~config.use_udp
  /\ \E k \in {"reply", "exceeded"}, i \in Index :
       Enqueue([kind |-> k, ours |-> FALSE, number |-> Expected(i), from |-> 0,
                about |-> <<0, 0>>])

Terminated == pc = "done" /\ UNCHANGED vars

Next == Process \/ HandleSigint \/ Tick \/ ArriveAnswer \/ ArriveForeign \/ Terminated

Spec     == Init /\ [][Next]_vars
FairSpec == Spec /\ WF_vars(Process) /\ WF_vars(Tick)

-------------------------------------------------------------------------------
(* Every variable has its type. *)
TypeOK ==
  /\ config \in Scenarios
  /\ pc \in {"hop", "volley", "wait", "timeout", "call", "poll", "print", "done"}
  /\ keep_running \in BOOLEAN /\ target_reached \in BOOLEAN
  /\ ttl \in 0 .. TtlMod - 1 /\ probe \in 0 .. Queries
  /\ seq \in Slot /\ base_seq \in Slot
  /\ probes \in [Index -> [sent_ok : BOOLEAN, received : BOOLEAN,
                           answers : Nat \X Nat, from : Nat]]
  /\ global_wait_until \in Nat /\ poll_until \in Int
  /\ printed \in Seq(0 .. TtlMod - 1)
  /\ clock \in Nat /\ lag \in 0 .. config.max_lag /\ arrivals \in 0 .. config.max_arrivals

(* A time printed on the line of a hop is that of an answer to the very    *)
(* probe it stands for, not of a late one to an earlier volley or to a     *)
(* neighbour.                                                              *)
HopGenuine ==
  pc \in {"volley", "wait", "timeout", "call", "poll", "print"} =>
    \A i \in Index : probes[i].received => probes[i].answers = <<ttl, i>>

(* The hops are printed in order, each once; no probe goes further than    *)
(* one that is taken to have reached the target, and unless interrupted    *)
(* the search ends only there or at MaxTtl.                                *)
RouteInOrder ==
  /\ \A k \in 1 .. Len(printed) : printed[k] = FirstTtl + k - 1
  /\ \A t \in target_ttls, r \in on_wire : r.ttl <= t
  /\ pc = "done" /\ keep_running => target_ttls # {} \/ ttl = MaxTtl + 1

(* A hop's wait is over at most a millisecond after its last probe expired *)
(* and at once when all its probes are answered: the clock may move on and *)
(* the last probe expire between the two clock reads, but then poll() is   *)
(* not called; only a delay just before poll() comes on top.               *)
WaitIsBounded ==
  pc = "poll" => /\ poll_until < global_wait_until + NsPerMs + config.max_lag
                 /\ sockbuf = <<>> => \E i \in Index : Open(i)

(* The search ends: at the target, at MaxTtl or with a signal, be it one   *)
(* that comes between the loop test and poll().                            *)
Terminates == <>(pc = "done")
===============================================================================
