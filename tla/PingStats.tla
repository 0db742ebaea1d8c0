------------------------------- MODULE PingStats -------------------------------
(***************************************************************************)
(* The round-trip statistics of ping.c: the fields of ping_state_t that    *)
(* update_ping_stats folds each measured rtt into, and what                *)
(* print_statistics derives from them.                                     *)
(***************************************************************************)
EXTENDS Integers

CONSTANT NsPerUs   \* clock ticks in a microsecond: the 1000 of ping.c

ASSUME NsPerUsAssumption == NsPerUs \in Nat \ {0}

Stats == [min : Nat, max : Nat, sum : Nat,
          sum_us : Nat, sum_squares_us : Nat, last : Nat]

NoStats == [min |-> 0, max |-> 0, sum |-> 0,
            sum_us |-> 0, sum_squares_us |-> 0, last |-> 0]

(* rtt_min = 0 doubles as "no sample yet". *)
BugUpdateStats(st, rtt) ==
  LET us == rtt \div NsPerUs
  IN  [st EXCEPT !.min = rtt, !.max = IF rtt > @ THEN rtt ELSE @,
                 !.sum = @ + rtt, !.sum_us = @ + us, !.sum_squares_us = us * us]

UpdateStats(st, rtt) ==
  LET us == rtt \div NsPerUs
  IN  [min            |-> IF st.min = 0 \/ rtt < st.min THEN rtt ELSE st.min,
       max            |-> IF rtt > st.max THEN rtt ELSE st.max,
       sum            |-> st.sum + rtt,
       sum_us         |-> st.sum_us + us,
       sum_squares_us |-> st.sum_squares_us + us * us,
       last           |-> rtt]

(* The u_int64_t subtraction whose integer_sqrt is printed as mdev. *)
Average(st, n)    == st.sum \div n
VarianceUs(st, n) == (st.sum_squares_us \div n) - (st.sum_us \div n) * (st.sum_us \div n)
===============================================================================
