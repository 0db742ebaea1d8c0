----------------------------- MODULE ProbeWindow -----------------------------
(***************************************************************************)
(* The part that ping.c, tcping.c and arping.c share: probes numbered by a *)
(* wrapping u_short index two arrays (sent_times, replied_or_timeout), and *)
(* the slots between next_timeout_check_seq (the head) and the next number *)
(* to send (the tail) are swept for timeouts in order.  Pure operators; the *)
(* modules of the three tools hold the state.                              *)
(***************************************************************************)
EXTENDS Integers

CONSTANTS
  SeqMod,   \* how many sequence numbers there are: 65536 in the code
  NsPerMs   \* clock ticks in a millisecond: NS_PER_MS in the code

ASSUME SeqModAssumption  == SeqMod \in Nat /\ SeqMod >= 2
ASSUME NsPerMsAssumption == NsPerMs \in Nat \ {0}

Slot == 0 .. SeqMod - 1

(* u_short increment. *)
BugSuccWide(s) == s + 1
BugSuccLost(s) == s
Succ(s) == IF s = SeqMod - 1 THEN 0 ELSE s + 1

(* How many increments lead from one slot to another: u_short subtraction. *)
Dist(from, to) == IF from <= to THEN to - from ELSE to - from + SeqMod

(* The slots a walk from head visits before it reaches tail. *)
Window(head, tail) == {s \in Slot : Dist(head, s) < Dist(head, tail)}

(* Does the sweep pass over slot s at time now? *)
BugPassesUnanswered(s, resolved, sentAt, now, timeout) ==
  resolved[s] \/ now > sentAt[s]
BugOnlyPassesAnswered(s, resolved, sentAt, now, timeout) == resolved[s]

Passes(s, resolved, sentAt, now, timeout) ==
  resolved[s] \/ now >= sentAt[s] + timeout

(***************************************************************************)
(* The timeout sweep that starts at head ends at stop: every slot before   *)
(* it is passed over, and stop is either the tail or a probe that is still *)
(* waiting for its answer.                                                 *)
(***************************************************************************)
SweepStopsAt(head, stop, tail, resolved, sentAt, now, timeout) ==
  /\ stop \in Window(head, tail) \cup {tail}
  /\ \A s \in Window(head, stop) : Passes(s, resolved, sentAt, now, timeout)
  /\ stop = tail \/ ~Passes(stop, resolved, sentAt, now, timeout)

(***************************************************************************)
(* The timeout given to poll(), in milliseconds: until the next send while *)
(* probes remain to be sent, then until the oldest probe expires; rounded  *)
(* down, but a wait that is not over is never rounded down to nothing.     *)
(***************************************************************************)
RoundedMs(ns) == IF ns \div NsPerMs = 0 THEN 1 ELSE ns \div NsPerMs

BugWaitMs(now, maySend, nextSend, oldestExpiry) ==
  IF maySend THEN RoundedMs(nextSend - now) ELSE -1

WaitMs(now, maySend, nextSend, oldestExpiry) ==
  IF maySend
  THEN IF nextSend > now THEN RoundedMs(nextSend - now) ELSE 0
  ELSE RoundedMs(oldestExpiry - now)

(* When poll() gives up: a negative timeout means it never does. *)
Forever == -1
PollUntil(now, ms) == IF ms < 0 THEN Forever ELSE now + ms * NsPerMs
===============================================================================
