------------------------------ MODULE MCTraceroute ------------------------------
(* The scenarios of the run of Traceroute. *)
EXTENDS Traceroute

(* Answers of earlier volleys, doubled and out of order, with ICMP and UDP *)
(* probes and with or without a router that blocks.                        *)
Matching ==
  [use_udp : BOOLEAN, blocker : {0, 1}, signals : {TRUE}, max_arrivals : {2}, max_lag : {0}]

(* A process that is delayed and interrupted. *)
Delayed ==
  [use_udp : {FALSE}, blocker : {0}, signals : {TRUE}, max_arrivals : {1}, max_lag : {1}]

Paths == Matching \cup Delayed
===============================================================================
