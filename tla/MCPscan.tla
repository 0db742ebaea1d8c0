--------------------------------- MODULE MCPscan ---------------------------------
(* The scenarios of the runs of Pscan. *)
EXTENDS Pscan

Range(first, last) == [dash |-> TRUE, numbers |-> <<first, last>>]

Plain == [ports |-> Range(2, 4), rate |-> 0, udp |-> FALSE, randomize |-> FALSE,
          json |-> FALSE, banner |-> FALSE, shared |-> FALSE, max_arrivals |-> 0, max_lag |-> 0]

(* Half a probe a tick, with delays or with the ports in any order; a      *)
(* process that is delayed while three probes a tick are due; each kind of *)
(* report, with answers.                                                   *)
Slow     == [Plain EXCEPT !.rate = 1, !.max_lag = 1]
Shuffled == [Plain EXCEPT !.rate = 1, !.randomize = TRUE]
Delayed  == [Plain EXCEPT !.ports = Range(2, 5), !.rate = 6, !.max_lag = 1]
Tcp      == [Plain EXCEPT !.ports = Range(2, 3), !.randomize = TRUE, !.max_arrivals = 3]
Shared   == [Tcp EXCEPT !.shared = TRUE, !.randomize = FALSE]
Banners  == [Plain EXCEPT !.banner = TRUE, !.max_arrivals = 2]
Json     == [Plain EXCEPT !.json = TRUE, !.max_arrivals = 3]
Datagram == [Plain EXCEPT !.udp = TRUE, !.max_arrivals = 3]

Scans == {Slow, Shuffled, Delayed, Tcp, Shared, Banners, Json, Datagram}

(* A range that ends with the last port, 5 of 0 .. 5.                      *)
TopPort  == {[Plain EXCEPT !.ports = Range(2, 5), !.json = TRUE]}
===============================================================================
