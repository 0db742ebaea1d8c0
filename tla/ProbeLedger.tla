------------------------------ MODULE ProbeLedger ------------------------------
(***************************************************************************)
(* What a run of probes promises its user, without sequence numbers,       *)
(* clocks or polling: every probe sent is eventually filed as answered or  *)
(* as expired, never as both, an answer is filed only for a reply that     *)
(* came, and a run that completes has filed all the probes asked for.      *)
(***************************************************************************)
EXTENDS Integers

CONSTANT Count   \* how many probes to send; 0: until told to stop

VARIABLES
  sent,      \* how many probes were sent: they are numbered 1 .. sent
  heard,     \* the probes a reply has come back for
  answered, expired,
  status     \* "running", "complete" or "interrupted"

vars == <<sent, heard, answered, expired, status>>

Outstanding == (1 .. sent) \ (answered \cup expired)

Init ==
  /\ sent = 0 /\ heard = {} /\ answered = {} /\ expired = {}
  /\ status = "running"

Send ==
  /\ status = "running" /\ (Count = 0 \/ sent < Count)
  /\ sent' = sent + 1
  /\ UNCHANGED <<heard, answered, expired, status>>

Hear ==
  /\ status = "running"
  /\ \E p \in 1 .. sent : heard' = heard \cup {p}
  /\ UNCHANGED <<sent, answered, expired, status>>

Answer ==
  /\ status = "running"
  /\ \E p \in Outstanding \cap heard : answered' = answered \cup {p}
  /\ UNCHANGED <<sent, heard, expired, status>>

(* Giving up on the oldest probes that are outstanding, perhaps the last   *)
(* thing the run had to do.                                                *)
Expire ==
  /\ status = "running"
  /\ \E n \in 0 .. sent :
       LET old == {p \in Outstanding : p <= n}
       IN  /\ expired' = expired \cup old
           /\ \/ UNCHANGED status
              \/ /\ Count > 0 /\ sent = Count /\ old = Outstanding
                 /\ status' = "complete"
  /\ UNCHANGED <<sent, heard, answered>>

Interrupt ==
  /\ status = "running"
  /\ status' = "interrupted"
  /\ UNCHANGED <<sent, heard, answered, expired>>

Next == Send \/ Hear \/ Answer \/ Expire \/ Interrupt

Spec == Init /\ [][Next]_vars
===============================================================================
