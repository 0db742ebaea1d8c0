------------------------------- MODULE CaptureLog -------------------------------
(***************************************************************************)
(* What a packet capture promises: its log holds the packets the socket    *)
(* received, from the first on, each once and in order, and a capture that *)
(* is complete holds exactly as many as were asked for.  Packets are known *)
(* by the order in which the socket received them.                         *)
(***************************************************************************)
EXTENDS Integers, Sequences

VARIABLES
  limit,      \* how many packets are asked for; 0: no limit
  received,   \* how many packets the socket has received
  log,        \* the packets captured
  status      \* "running", "complete" or "stopped"

vars == <<limit, received, log, status>>

Init ==
  /\ limit \in Nat /\ received = 0 /\ log = <<>> /\ status = "running"

Receive ==
  /\ received' = received + 1
  /\ UNCHANGED <<limit, log, status>>

Record ==
  /\ status = "running" /\ Len(log) < received
  /\ limit = 0 \/ Len(log) < limit
  /\ log' = Append(log, Len(log) + 1)
  /\ UNCHANGED <<limit, received, status>>

Finish ==
  /\ status = "running"
  /\ \/ status' = "complete" /\ limit > 0 /\ Len(log) = limit
     \/ status' = "stopped"
  /\ UNCHANGED <<limit, received, log>>

Next == Receive \/ Record \/ Finish

Spec == Init /\ [][Next]_vars
===============================================================================
