------------------------------- MODULE PscanProofs -------------------------------
(****************************************************************************)
(* Proofs about Pscan, for every port range, every -r, every size of the    *)
(* bucket, every target and every delay of the process: types; each port    *)
(* is probed once, shuffled or not; the two bounds of the token bucket;     *)
(* that what is printed, while scanning and in the report, is true; and     *)
(* that every step, each sleep included, brings the scan nearer to its end. *)
(****************************************************************************)
EXTENDS Pscan, SequenceTheorems, TLAPS

-------------------------------------------------------------------------------
(* The options and the constants. *)

LEMMA ConstantFacts ==
  /\ PortMod \in Nat /\ PortMod >= 1 /\ Timeout \in Nat /\ ClockEnd \in Nat
  /\ NsPerS \in Nat /\ NsPerS >= 1 /\ Burst \in Nat /\ Burst >= 1
  /\ PollNs \in Nat /\ SleepNs \in Nat
BY ScenariosAssumption, TimesAssumption

LEMMA ConfigFacts ==
  ASSUME config \in Scenarios
  PROVE  /\ StartPort \in Port /\ EndPort \in Port /\ StartPort <= EndPort
         /\ config.rate \in Nat /\ config.max_arrivals \in Nat
         /\ NumPorts \in Nat /\ NumPorts >= 1
<1>1. config \in Scenario
  BY ScenariosAssumption
<1>2. config.rate \in Nat /\ config.max_arrivals \in Nat
  BY <1>1 DEF Scenario
<1>3. config.ports \in [dash : BOOLEAN, numbers : Seq(Port \ {0})]
  BY <1>1 DEF Scenario
<1>4. config.ports.numbers \in Seq(Port \ {0}) /\ config.ports.dash \in BOOLEAN
  BY <1>3
<1>5. /\ Len(config.ports.numbers) >= 1
      /\ config.ports.dash => /\ Len(config.ports.numbers) >= 2
                              /\ config.ports.numbers[1] <= config.ports.numbers[2]
  BY ScenariosAssumption
<1>6. Len(config.ports.numbers) \in Nat
  BY <1>4, LenProperties
<1>7. config.ports.numbers[1] \in Port
  BY <1>4, <1>5, <1>6, ElementOfSeq
<1>8. config.ports.dash => config.ports.numbers[2] \in Port
  BY <1>4, <1>5, <1>6, ElementOfSeq
<1>9. StartPort \in Port /\ EndPort \in Port /\ StartPort <= EndPort
  <2>1. Port \subseteq Int
    BY ConstantFacts DEF Port
  <2>2. CASE config.ports.dash
    BY <2>1, <2>2, <1>5, <1>7, <1>8 DEF StartPort, EndPort
  <2>3. CASE ~config.ports.dash
    <3>1. StartPort \in Port /\ EndPort = StartPort
      BY <2>3, <1>7 DEF StartPort, EndPort
    <3>2. StartPort \in Int
      BY <2>1, <3>1
    <3> QED BY <3>1, <3>2
  <2> QED BY <2>2, <2>3
<1>10. NumPorts \in Nat /\ NumPorts >= 1
  BY <1>9, ConstantFacts DEF Port, NumPorts
<1> QED BY <1>2, <1>9, <1>10

-------------------------------------------------------------------------------
(* The inductive invariant. *)
TypeInv ==
  /\ TypeOK
  /\ probed \in Seq([port : Port, at : Nat])
  /\ pc = "shuffle" => i \in Index

(* The list is a permutation of the range. *)
PortRange == StartPort .. EndPort
PortsInv ==
  /\ port_list \in [Index -> PortRange]
  /\ \A k, l \in Index : port_list[k] = port_list[l] => k = l
  /\ \A p \in PortRange : \E k \in Index : port_list[k] = p

(* The ports probed are a prefix of the list, in the end all of it. *)
Scanned == pc \in {"wait", "poll", "banner", "report", "done"} \/ (pc = "drain" /\ resume = "wait")
ProbedInv ==
  /\ pc = "shuffle" => probed = <<>>
  /\ pc # "shuffle" => Len(probed) = i
  /\ \A k \in 1 .. Len(probed) : probed[k].port = port_list[k - 1]
  /\ Scanned => i = NumPorts

(* A probe spent and a token saved were each earned by time. *)
ClockInv ==
  /\ StartTime <= clock
  /\ pc = "shuffle" => tokens = One
  /\ pc # "shuffle" => StartTime <= last_time /\ last_time <= clock

RateInv ==
  config.rate > 0 /\ pc # "shuffle" =>
    Len(probed) * NsPerS + tokens <= One + config.rate * (last_time - StartTime)

(* From probe a on: until the next refill only what was saved is spent,    *)
(* and after it what was saved, what that refill brings and what time has  *)
(* earned since.                                                           *)
Full == Burst * NsPerS
BurstAt(a) ==
  /\ probed[a].at <= clock
  /\ last_time < probed[a].at =>
       (Len(probed) - a + 1) * NsPerS + tokens <= Full
  /\ last_time >= probed[a].at =>
       (Len(probed) - a + 1) * NsPerS + tokens
         <= (Full + Full) + config.rate * (last_time - probed[a].at)

BurstInv == config.rate > 0 => \A a \in 1 .. Len(probed) : BurstAt(a)

IInv == TypeInv /\ PortsInv /\ ProbedInv /\ ClockInv /\ RateInv /\ BurstInv /\ BurstBounded

-------------------------------------------------------------------------------
(* Most steps leave the list, the bucket, the clock and the record of the  *)
(* probes alone.                                                           *)
Kept == <<port_list, i, tokens, last_time, clock, probed>>

LEMMA Frame ==
  ASSUME [Next]_vars, resume \in {"next", "sleep", "wait"}
  PROVE  /\ UNCHANGED <<config, StartPort, EndPort, NumPorts, Index, PortRange>>
         /\ \/ Shuffle \/ ShuffleEnd \/ Refill \/ SendProbe \/ Tick
            \/ UNCHANGED Kept /\ pc' = pc /\ resume' = resume
            \/ /\ UNCHANGED Kept
               /\ pc # "shuffle" /\ pc' # "shuffle"
               /\ Scanned' => Scanned \/ i = NumPorts
<1> DEFINE Elsewhere == /\ UNCHANGED Kept
                        /\ pc # "shuffle" /\ pc' # "shuffle"
                        /\ Scanned' => Scanned \/ i = NumPorts
<1>1. UNCHANGED config
  BY DEF Next, Process, Shuffle, ShuffleEnd, Refill, BeginSleep, Wake, SendProbe, Drain,
         DrainEnd, ScanEnd, WaitMore, PollReturns, WaitEnd, GrabBanner, BannersEnd, Report,
         ReportEnd, Tick, ArriveAnswer, ArriveShared, ArriveOther, Enqueue, Terminated, vars
<1>2. UNCHANGED <<StartPort, EndPort, NumPorts, Index, PortRange>>
  BY <1>1 DEF StartPort, EndPort, NumPorts, Index, PortRange
<1>3. ASSUME BeginSleep \/ Wake PROVE Elsewhere
  BY <1>3 DEF BeginSleep, Wake, Kept, Scanned, bucket, world
<1>4. ASSUME DrainEnd PROVE Elsewhere
  <2>1. UNCHANGED Kept /\ pc = "drain" /\ pc' = resume /\ resume' = resume
    BY <1>4 DEF DrainEnd, Kept, bucket, world
  <2> QED BY <2>1 DEF Scanned
<1>5. ASSUME Drain PROVE Elsewhere
  <2>1. UNCHANGED Kept /\ pc = "drain" /\ resume' = resume /\ pc' \in {resume, "drain"}
    BY <1>5 DEF Drain, Kept, bucket
  <2> QED BY <2>1 DEF Scanned
<1>6. ASSUME ScanEnd \/ WaitMore \/ WaitEnd PROVE Elsewhere
  BY <1>6 DEF ScanEnd, WaitMore, WaitEnd, Kept, Scanned, bucket, world
<1>7. ASSUME PollReturns \/ GrabBanner \/ BannersEnd \/ Report \/ ReportEnd PROVE Elsewhere
  BY <1>7 DEF PollReturns, GrabBanner, BannersEnd, Report, ReportEnd, Kept, Scanned, bucket, world
<1>8. ASSUME ArriveAnswer \/ ArriveShared \/ ArriveOther \/ UNCHANGED vars
      PROVE  UNCHANGED Kept /\ pc' = pc /\ resume' = resume
  BY <1>8 DEF ArriveAnswer, ArriveShared, ArriveOther, Enqueue, vars, Kept, bucket, world
<1> QED BY <1>1, <1>2, <1>3, <1>4, <1>5, <1>6, <1>7, <1>8 DEF Next, Process, Terminated

LEMMA PortsStep ==
  ASSUME TypeInv, PortsInv, [Next]_vars
  PROVE  PortsInv'
<1>1. UNCHANGED <<Index, PortRange>>
  BY Frame DEF TypeInv, TypeOK
<1>2. CASE port_list' = port_list
  BY <1>1, <1>2 DEF PortsInv
<1>3. CASE Shuffle
  <2>1. i \in Index /\ i > 0 /\ \E j \in 0 .. i : port_list' = Swap(port_list, i, j)
    BY <1>3 DEF Shuffle, TypeInv
  <2>2. PICK j \in 0 .. i : port_list' = Swap(port_list, i, j)
    BY <2>1
  <2>3. j \in Index
    <3>1. NumPorts \in Nat
      BY ConfigFacts DEF TypeInv, TypeOK
    <3> QED BY <2>1, <3>1 DEF Index
  <2> DEFINE other(k) == IF k = i THEN j ELSE IF k = j THEN i ELSE k
  <2>4. /\ port_list' \in [Index -> PortRange]
        /\ \A k \in Index : port_list'[k] = port_list[other(k)]
    <3>1. port_list \in [Index -> PortRange]
      BY DEF PortsInv
    <3> QED BY <2>1, <2>2, <2>3, <3>1 DEF Swap
  <2>5. \A k \in Index : other(k) \in Index /\ other(other(k)) = k
    BY <2>1, <2>3
  <2>6. \A k, l \in Index : port_list'[k] = port_list'[l] => k = l
    BY <2>4, <2>5 DEF PortsInv
  <2>7. ASSUME NEW p \in PortRange PROVE \E k \in Index : port_list'[k] = p
    <3>1. PICK k \in Index : port_list[k] = p
      BY DEF PortsInv
    <3>2. other(k) \in Index /\ port_list'[other(k)] = p
      BY <3>1, <2>4, <2>5
    <3> QED BY <3>2
  <2> QED BY <1>1, <2>4, <2>6, <2>7 DEF PortsInv
<1>4. ShuffleEnd \/ Refill \/ SendProbe \/ Tick \/ UNCHANGED Kept => port_list' = port_list
  BY DEF ShuffleEnd, Refill, SendProbe, Tick, Kept
<1> QED BY <1>2, <1>3, <1>4, Frame DEF TypeInv, TypeOK

LEMMA ProbedStep ==
  ASSUME TypeInv, ProbedInv, [Next]_vars
  PROVE  ProbedInv'
<1>0. /\ resume \in {"next", "sleep", "wait"} /\ NumPorts' = NumPorts
      /\ probed \in Seq([port : Port, at : Nat]) /\ Len(probed) \in Nat
  BY Frame, LenProperties DEF TypeInv, TypeOK
<1>1. CASE UNCHANGED Kept /\ pc' = pc /\ resume' = resume
  BY <1>0, <1>1 DEF ProbedInv, Kept, Scanned
<1>2. CASE /\ UNCHANGED Kept /\ pc # "shuffle" /\ pc' # "shuffle"
           /\ Scanned' => Scanned \/ i = NumPorts
  BY <1>0, <1>2 DEF ProbedInv, Kept
<1>3. CASE Shuffle
  BY <1>0, <1>3 DEF Shuffle, ProbedInv, Scanned
<1>4. CASE ShuffleEnd
  BY <1>0, <1>4 DEF ShuffleEnd, ProbedInv, Scanned
<1>5. CASE Refill \/ Tick
  <2>1. UNCHANGED <<port_list, i, probed>>
    BY <1>5 DEF Refill, Tick
  <2>2. (pc' = "shuffle") <=> (pc = "shuffle")
    BY <1>5 DEF Refill, Tick
  <2>3. Scanned' => Scanned
    BY <1>5 DEF Refill, Tick, Scanned
  <2> QED BY <1>0, <2>1, <2>2, <2>3 DEF ProbedInv
<1>6. CASE SendProbe
  <2>1. /\ pc = "next" /\ i < NumPorts /\ i' = i + 1 /\ pc' = "drain"
        /\ resume' \in {"sleep", "next"} /\ port_list' = port_list
        /\ probed' = Append(probed, [port |-> port_list[i], at |-> clock])
    BY <1>6 DEF SendProbe
  <2>2. i \in Index /\ Len(probed) = i
    <3>1. i \in 0 .. NumPorts /\ NumPorts \in Nat
      BY ConfigFacts DEF TypeInv, TypeOK
    <3> QED BY <2>1, <3>1 DEF Index, ProbedInv
  <2>3. [port |-> port_list[i], at |-> clock] \in [port : Port, at : Nat]
    <3>1. port_list[i] \in Port
      BY <2>2 DEF TypeInv, TypeOK
    <3>2. clock \in Nat
      BY DEF TypeInv, TypeOK
    <3> QED BY <3>1, <3>2
  <2>4. /\ Len(probed') = i + 1
        /\ \A k \in 1 .. i : probed'[k] = probed[k]
        /\ probed'[i + 1].port = port_list[i]
    BY <1>0, <2>1, <2>2, <2>3, AppendProperties
  <2>5. \A k \in 1 .. Len(probed') : probed'[k].port = port_list[k - 1]
    <3> SUFFICES ASSUME NEW k \in 1 .. i + 1 PROVE probed'[k].port = port_list[k - 1]
      BY <2>4
    <3>1. i \in Nat
      BY <1>0, <2>2
    <3>2. CASE k = i + 1
      BY <2>4, <3>1, <3>2
    <3>3. CASE k \in 1 .. i
      BY <2>2, <2>4, <3>3 DEF ProbedInv
    <3> QED BY <3>1, <3>2, <3>3
  <2> QED BY <2>1, <2>4, <2>5 DEF ProbedInv, Scanned
<1> QED BY <1>0, <1>1, <1>2, <1>3, <1>4, <1>5, <1>6, Frame

(* The list and the prefix together. *)
LEMMA ProbedOnce ==
  ASSUME TypeInv, PortsInv, ProbedInv
  PROVE  EachPortProbedOnce
<1>1. Len(probed) \in Nat /\ Len(probed) <= NumPorts /\ NumPorts \in Nat
  <2>1. i \in 0 .. NumPorts /\ NumPorts \in Nat
    BY ConfigFacts DEF TypeInv, TypeOK
  <2> QED BY <2>1 DEF ProbedInv
<1>2. \A k \in 1 .. Len(probed) : k - 1 \in Index
  BY <1>1 DEF Index
<1>3. ASSUME NEW a \in 1 .. Len(probed), NEW b \in 1 .. Len(probed), probed[a].port = probed[b].port
      PROVE  a = b
  <2>1. a - 1 = b - 1
    BY <1>2, <1>3 DEF ProbedInv, PortsInv
  <2> QED BY <1>1, <2>1
<1>4. ASSUME pc \in {"wait", "report", "done"}
      PROVE  {probed[k].port : k \in 1 .. Len(probed)} = PortRange
  <2>1. Len(probed) = NumPorts
    BY <1>4 DEF ProbedInv, Scanned
  <2>2. ASSUME NEW k \in 1 .. Len(probed) PROVE probed[k].port \in PortRange
    BY <1>2 DEF ProbedInv, PortsInv
  <2>3. ASSUME NEW p \in PortRange PROVE \E k \in 1 .. Len(probed) : probed[k].port = p
    <3>1. PICK l \in Index : port_list[l] = p
      BY DEF PortsInv
    <3>2. l + 1 \in 1 .. Len(probed) /\ probed[l + 1].port = port_list[l]
      <4>1. l + 1 \in 1 .. Len(probed) /\ (l + 1) - 1 = l
        BY <1>1, <2>1 DEF Index
      <4> QED BY <4>1 DEF ProbedInv
    <3> QED BY <3>1, <3>2
  <2> QED BY <2>2, <2>3
<1> QED BY <1>3, <1>4 DEF EachPortProbedOnce, PortRange

-------------------------------------------------------------------------------
(* The token bucket. *)

LEMMA EarnedAdds ==
  ASSUME NEW r \in Nat, NEW a \in Nat, NEW b \in Nat, NEW c \in Nat
  PROVE  r * (b - a) + r * (c - b) = r * (c - a)
OBVIOUS

LEMMA EarnedNat ==
  ASSUME NEW r \in Nat, NEW a \in Nat, NEW b \in Nat, a <= b
  PROVE  r * (b - a) \in Nat
OBVIOUS

LEMMA OneMore ==
  ASSUME NEW n \in Nat, NEW m \in Nat
  PROVE  (n + 1) * m = n * m + m /\ n * m \in Nat
OBVIOUS

LEMMA StillPaid ==
  ASSUME NEW spent \in Int, NEW before \in Int, NEW after \in Int, NEW earned \in Int,
         NEW since \in Int, spent + before <= earned, after <= before + since
  PROVE  spent + after <= earned + since
OBVIOUS

LEMMA PaidLater ==
  ASSUME NEW spent \in Int, NEW held \in Nat, NEW saved \in Nat, NEW first \in Nat,
         NEW second \in Nat, NEW earned, first + second = earned,
         spent + held <= (saved + saved) + first
  PROVE  spent <= (saved + saved) + earned
OBVIOUS

LEMMA BucketFacts ==
  ASSUME TypeInv
  PROVE  /\ config.rate \in Nat /\ clock \in Nat /\ last_time \in Nat /\ Len(probed) \in Nat
         /\ tokens \in Nat /\ tokens <= Burst * NsPerS
         /\ NsPerS \in Nat /\ Burst \in Nat /\ Burst * NsPerS \in Nat /\ NsPerS <= Burst * NsPerS
         /\ resume \in {"next", "sleep", "wait"}
         /\ \A a \in 1 .. Len(probed) : probed[a].at \in Nat
<1>1. config.rate \in Nat /\ resume \in {"next", "sleep", "wait"}
  BY ConfigFacts DEF TypeInv, TypeOK
<1>2. clock \in Nat /\ last_time \in Nat
  BY DEF TypeInv, TypeOK
<1>3. probed \in Seq([port : Port, at : Nat])
  BY DEF TypeInv
<1>4. Len(probed) \in Nat /\ \A a \in 1 .. Len(probed) : probed[a].at \in Nat
  <2>1. ASSUME NEW a \in 1 .. Len(probed) PROVE probed[a] \in [port : Port, at : Nat]
    BY <1>3, ElementOfSeq
  <2> QED BY <1>3, <2>1, LenProperties
<1>5. NsPerS \in Nat /\ Burst \in Nat /\ Burst >= 1
  BY ConstantFacts
<1>6. Burst * NsPerS \in Nat /\ NsPerS <= Burst * NsPerS
  BY <1>5
<1>7. tokens \in 0 .. Burst * NsPerS
  BY DEF TypeInv, TypeOK, One
<1>8. tokens \in Nat /\ tokens <= Burst * NsPerS
  BY <1>6, <1>7
<1> QED BY <1>1, <1>2, <1>4, <1>5, <1>6, <1>8

(* A refill adds what time has earned, and fills the bucket at most. *)
LEMMA RefillFacts ==
  ASSUME TypeInv, ClockInv, Refill
  PROVE  /\ last_time' = clock /\ last_time <= clock /\ tokens < NsPerS
         /\ tokens' \in Nat
         /\ tokens' <= Burst * NsPerS
         /\ tokens' <= tokens + config.rate * (clock - last_time)
         /\ pc # "shuffle" /\ pc' # "shuffle"
         /\ UNCHANGED <<clock, probed, config>>
<1>1. /\ pc = "next" /\ tokens < NsPerS /\ last_time' = clock /\ pc' \in {pc, "drain"}
      /\ tokens' = Refilled(last_time)
      /\ UNCHANGED <<clock, probed, config>>
  BY DEF Refill, RefillTime, world, One
<1>2. last_time <= clock /\ last_time \in Nat /\ clock \in Nat /\ tokens \in Nat
  BY <1>1, BucketFacts DEF ClockInv
<1>3. config.rate * (clock - last_time) \in Nat
  BY <1>2, BucketFacts
<1>4. /\ tokens' \in Nat
      /\ tokens' <= Burst * NsPerS
      /\ tokens' <= tokens + config.rate * (clock - last_time)
  <2> DEFINE t == tokens + (clock - last_time) * config.rate
  <2>1. tokens' = IF t > Burst * NsPerS THEN Burst * NsPerS ELSE t
    BY <1>1 DEF Refilled, One
  <2>2. t = tokens + config.rate * (clock - last_time)
    BY <1>2, BucketFacts
  <2>3. t \in Nat
    BY <1>2, <1>3, <2>2
  <2> HIDE DEF t
  <2>4. Burst * NsPerS \in Nat
    BY BucketFacts
  <2> QED BY <1>2, <2>1, <2>2, <2>3, <2>4
<1> QED BY <1>1, <1>2, <1>4

LEMMA SendFacts ==
  ASSUME TypeInv, ClockInv, SendProbe
  PROVE  /\ config.rate > 0 => tokens >= NsPerS /\ tokens' = tokens - NsPerS
         /\ pc # "shuffle" /\ pc' # "shuffle"
         /\ UNCHANGED <<last_time, clock, config>> /\ last_time <= clock
         /\ Len(probed') = Len(probed) + 1
         /\ \A a \in 1 .. Len(probed) : probed'[a] = probed[a]
         /\ probed'[Len(probed) + 1].at = clock
<1>1. /\ config.rate > 0 => tokens >= NsPerS /\ tokens' = tokens - NsPerS
      /\ pc = "next" /\ pc' = "drain"
      /\ UNCHANGED <<last_time, clock, config>>
      /\ probed' = Append(probed, [port |-> port_list[i], at |-> clock])
      /\ i < NumPorts
  BY DEF SendProbe, One
<1>2. last_time <= clock
  BY <1>1 DEF ClockInv
<1>3. i \in Index
  <2>1. i \in 0 .. NumPorts /\ NumPorts \in Nat
    BY ConfigFacts DEF TypeInv, TypeOK
  <2> QED BY <1>1, <2>1 DEF Index
<1>4. [port |-> port_list[i], at |-> clock] \in [port : Port, at : Nat]
  <2>1. port_list[i] \in Port
    BY <1>3 DEF TypeInv, TypeOK
  <2>2. clock \in Nat
    BY DEF TypeInv, TypeOK
  <2> QED BY <2>1, <2>2
<1>5. probed \in Seq([port : Port, at : Nat])
  BY DEF TypeInv
<1>6. /\ Len(probed') = Len(probed) + 1
      /\ \A a \in 1 .. Len(probed) : probed'[a] = probed[a]
      /\ probed'[Len(probed) + 1] = [port |-> port_list[i], at |-> clock]
  BY <1>1, <1>4, <1>5, AppendProperties
<1> QED BY <1>1, <1>2, <1>6

LEMMA TickFacts ==
  ASSUME TypeInv, Tick
  PROVE  /\ clock' \in Nat /\ clock <= clock'
         /\ UNCHANGED <<tokens, last_time, probed, config, pc>>
<1>1. clock' = clock + 1 \/ clock' = clock
  BY DEF Tick
<1>2. UNCHANGED <<tokens, last_time, probed, config, pc>>
  BY DEF Tick, bucket
<1> QED BY <1>1, <1>2, BucketFacts

LEMMA ClockStep ==
  ASSUME TypeInv, ClockInv, [Next]_vars
  PROVE  ClockInv'
<1>1. CASE UNCHANGED <<tokens, last_time, clock>> /\ ((pc' = "shuffle") <=> (pc = "shuffle"))
  BY <1>1 DEF ClockInv
<1>2. CASE Shuffle
  BY <1>1, <1>2 DEF Shuffle, bucket, world
<1>3. CASE ShuffleEnd
  BY <1>3, BucketFacts DEF ShuffleEnd, ClockInv, world
<1>4. CASE Refill
  <2>1. StartTime <= clock
    BY DEF ClockInv
  <2> QED BY <1>4, <2>1, RefillFacts, BucketFacts DEF ClockInv
<1>5. CASE SendProbe
  BY <1>5, SendFacts DEF ClockInv
<1>6. CASE Tick
  BY <1>6, TickFacts, BucketFacts DEF ClockInv, StartTime
<1>7. UNCHANGED Kept => UNCHANGED <<tokens, last_time, clock>>
  BY DEF Kept
<1>8. resume \in {"next", "sleep", "wait"}
  BY DEF TypeInv, TypeOK
<1> QED BY <1>1, <1>2, <1>3, <1>4, <1>5, <1>6, <1>7, <1>8, Frame

LEMMA RateStep ==
  ASSUME TypeInv, ProbedInv, ClockInv, RateInv, [Next]_vars
  PROVE  RateInv'
<1> SUFFICES ASSUME config.rate > 0, pc' # "shuffle"
             PROVE  Len(probed') * NsPerS + tokens'
                      <= One + config.rate * (last_time' - StartTime)
  <2>1. config' = config
    BY Frame DEF TypeInv, TypeOK
  <2> QED BY <2>1 DEF RateInv, One
<1>1. CASE UNCHANGED <<tokens, last_time, probed>> /\ pc # "shuffle"
  BY <1>1 DEF RateInv
<1>2. CASE Shuffle
  BY <1>2 DEF Shuffle
<1>3. CASE ShuffleEnd
  <2>1. last_time' = clock /\ tokens' = tokens /\ tokens = One /\ probed' = <<>>
        /\ StartTime <= clock
    BY <1>3 DEF ShuffleEnd, ClockInv, ProbedInv
  <2>2. config.rate * (clock - StartTime) \in Nat
    BY <2>1, BucketFacts, EarnedNat DEF StartTime
  <2>3. Len(probed') * NsPerS = 0 /\ One \in Nat
    BY <2>1, BucketFacts DEF One
  <2> QED BY <2>1, <2>2, <2>3
<1>4. CASE Refill
  <2>1. /\ Len(probed) * NsPerS + tokens <= One + config.rate * (last_time - StartTime)
        /\ tokens' <= tokens + config.rate * (clock - last_time)
        /\ last_time' = clock /\ probed' = probed
    BY <1>4, RefillFacts DEF RateInv
  <2>2. /\ Len(probed) * NsPerS \in Int /\ One + config.rate * (last_time - StartTime) \in Int
        /\ config.rate * (clock - last_time) \in Int /\ tokens \in Int /\ tokens' \in Int
        /\ One \in Int /\ config.rate * (last_time - StartTime) \in Int
        /\ config.rate * (clock - StartTime) \in Int
    <3>1. /\ Len(probed) \in Int /\ NsPerS \in Int /\ One \in Int /\ config.rate \in Int
          /\ last_time \in Int /\ clock \in Int /\ StartTime \in Int
          /\ tokens \in Int /\ tokens' \in Int
      BY <1>4, RefillFacts, BucketFacts DEF One, StartTime
    <3> QED BY <3>1
  <2>3. Len(probed) * NsPerS + tokens'
          <= (One + config.rate * (last_time - StartTime)) + config.rate * (clock - last_time)
    BY <2>1, <2>2, StillPaid
  <2>4. config.rate * (last_time - StartTime) + config.rate * (clock - last_time)
          = config.rate * (clock - StartTime)
    <3>1. config.rate \in Nat /\ last_time \in Nat /\ clock \in Nat /\ StartTime \in Nat
      BY BucketFacts DEF StartTime
    <3> QED BY <3>1, EarnedAdds
  <2>5. (One + config.rate * (last_time - StartTime)) + config.rate * (clock - last_time)
          = One + config.rate * (clock - StartTime)
    BY <2>2, <2>4
  <2> QED BY <2>1, <2>3, <2>5
<1>5. CASE SendProbe
  <2> DEFINE spent == Len(probed) * NsPerS
  <2>1. spent + tokens <= One + config.rate * (last_time - StartTime)
    BY <1>5, SendFacts DEF RateInv
  <2>2. Len(probed') * NsPerS = spent + NsPerS /\ spent \in Nat
    BY <1>5, SendFacts, BucketFacts, OneMore
  <2>3. tokens' = tokens - NsPerS /\ tokens \in Nat /\ NsPerS \in Nat /\ last_time' = last_time
    BY <1>5, SendFacts, BucketFacts
  <2> HIDE DEF spent
  <2>4. Len(probed') * NsPerS + tokens' = spent + tokens
    BY <2>2, <2>3
  <2> QED BY <2>1, <2>3, <2>4
<1>6. CASE Tick
  BY <1>1, <1>6, TickFacts
<1>7. resume \in {"next", "sleep", "wait"}
  BY DEF TypeInv, TypeOK
<1>8. CASE UNCHANGED Kept /\ (pc' = pc \/ pc # "shuffle")
  BY <1>1, <1>8 DEF Kept
<1> QED BY <1>2, <1>3, <1>4, <1>5, <1>6, <1>7, <1>8, Frame

LEMMA FullFacts ==
  ASSUME TypeInv
  PROVE  /\ Full \in Nat /\ 2 * Burst * NsPerS = Full + Full
         /\ tokens <= Full /\ NsPerS <= Full
<1>1. NsPerS \in Nat /\ Burst \in Nat
  BY BucketFacts
<1>2. 2 * Burst * NsPerS = Burst * NsPerS + Burst * NsPerS /\ Burst * NsPerS \in Nat
  BY <1>1
<1> QED BY <1>2, BucketFacts DEF Full

LEMMA BurstRefill ==
  ASSUME TypeInv, ClockInv, Refill, NEW a \in 1 .. Len(probed), BurstAt(a)
  PROVE  BurstAt(a)'
<1> DEFINE cost == (Len(probed) - a + 1) * NsPerS
           at   == probed[a].at
<1>1. /\ last_time' = clock /\ last_time <= clock /\ tokens' \in Nat /\ tokens' <= Full
      /\ tokens' <= tokens + config.rate * (clock - last_time)
      /\ UNCHANGED <<clock, probed, config>>
  BY RefillFacts DEF Full
<1>2. /\ clock \in Nat /\ last_time \in Nat /\ at \in Nat /\ config.rate \in Nat /\ tokens \in Nat
      /\ Len(probed) \in Nat /\ NsPerS \in Nat /\ a \in Nat /\ at <= clock
  BY BucketFacts DEF BurstAt
<1>3. cost \in Int /\ config.rate * (clock - at) \in Nat
  <2>1. cost \in Int
    BY <1>2
  <2>2. config.rate * (clock - at) \in Nat
    BY <1>2, EarnedNat
  <2> QED BY <2>1, <2>2
<1>4. cost + tokens' <= (Full + Full) + config.rate * (clock - at)
  <2>1. CASE last_time < at
    <3>1. cost + tokens <= Full
      BY <2>1 DEF BurstAt
    <3>2. cost <= Full
      BY <3>1, <1>2, <1>3, FullFacts
    <3> QED BY <3>2, <1>1, <1>2, <1>3, FullFacts
  <2>2. CASE last_time >= at
    <3>1. cost + tokens <= (Full + Full) + config.rate * (last_time - at)
      BY <2>2 DEF BurstAt
    <3>2. config.rate * (last_time - at) + config.rate * (clock - last_time)
            = config.rate * (clock - at)
      BY <1>2, EarnedAdds
    <3>3. config.rate * (last_time - at) \in Int /\ config.rate * (clock - last_time) \in Int
      BY <1>2
    <3>4. cost + tokens' <= ((Full + Full) + config.rate * (last_time - at))
                              + config.rate * (clock - last_time)
      <4>1. (Full + Full) + config.rate * (last_time - at) \in Int
        BY <3>3, FullFacts
      <4> QED BY <1>1, <1>2, <1>3, <3>1, <3>3, <4>1, StillPaid
    <3> QED BY <3>2, <3>3, <3>4, FullFacts
  <2> QED BY <1>2, <2>1, <2>2
<1> QED BY <1>1, <1>2, <1>4 DEF BurstAt, Full

LEMMA BurstSend ==
  ASSUME TypeInv, ClockInv, SendProbe, config.rate > 0,
         \A a \in 1 .. Len(probed) : BurstAt(a),
         NEW a \in 1 .. Len(probed) + 1
  PROVE  BurstAt(a)'
<1>1. /\ tokens' = tokens - NsPerS /\ UNCHANGED <<last_time, clock, config>> /\ last_time <= clock
      /\ Len(probed') = Len(probed) + 1
      /\ \A k \in 1 .. Len(probed) : probed'[k] = probed[k]
      /\ probed'[Len(probed) + 1].at = clock
  BY SendFacts
<1>2. /\ clock \in Nat /\ last_time \in Nat /\ tokens \in Nat /\ Len(probed) \in Nat
      /\ NsPerS \in Nat /\ a \in Nat /\ config.rate \in Nat
  BY BucketFacts
<1>3. CASE a \in 1 .. Len(probed)
  <2>1. BurstAt(a) /\ probed'[a] = probed[a]
    BY <1>1, <1>3
  <2>2. (Len(probed') - a + 1) * NsPerS + tokens' = (Len(probed) - a + 1) * NsPerS + tokens
    <3>1. Len(probed) - a + 1 \in Nat /\ Len(probed') - a + 1 = (Len(probed) - a + 1) + 1
      BY <1>1, <1>2, <1>3
    <3>2. /\ (Len(probed') - a + 1) * NsPerS = (Len(probed) - a + 1) * NsPerS + NsPerS
          /\ (Len(probed) - a + 1) * NsPerS \in Nat
      BY <3>1, <1>2, OneMore
    <3> QED BY <3>2, <1>1, <1>2
  <2> QED BY <1>1, <2>1, <2>2 DEF BurstAt, Full
<1>4. CASE a = Len(probed) + 1
  <2>1. (Len(probed') - a + 1) * NsPerS = NsPerS
    <3>1. Len(probed') - a + 1 = 1
      BY <1>1, <1>2, <1>4
    <3> QED BY <3>1, <1>2
  <2>2. (Len(probed') - a + 1) * NsPerS + tokens' = tokens
    BY <2>1, <1>1, <1>2
  <2>3. config.rate * (last_time - clock) = 0 \/ last_time < clock
    BY <1>1, <1>2
  <2> QED BY <1>1, <1>2, <1>4, <2>2, <2>3, FullFacts DEF BurstAt, Full
<1> QED BY <1>2, <1>3, <1>4

LEMMA BurstStep ==
  ASSUME TypeInv, ProbedInv, ClockInv, BurstInv, [Next]_vars
  PROVE  BurstInv'
<1>0. resume \in {"next", "sleep", "wait"}
  BY DEF TypeInv, TypeOK
<1> SUFFICES ASSUME config.rate > 0, NEW a \in 1 .. Len(probed') PROVE BurstAt(a)'
  BY <1>0, Frame DEF BurstInv
<1>1. CASE UNCHANGED <<tokens, last_time, clock, probed, config>>
  BY <1>1 DEF BurstInv, BurstAt, Full
<1>2. CASE Shuffle \/ ShuffleEnd
  <2>1. probed' = <<>>
    BY <1>2 DEF Shuffle, ShuffleEnd, ProbedInv
  <2> QED BY <2>1
<1>3. CASE Refill
  BY <1>3, RefillFacts, BurstRefill DEF BurstInv
<1>4. CASE SendProbe
  BY <1>4, SendFacts, BurstSend DEF BurstInv
<1>5. CASE Tick
  <2>1. /\ clock <= clock' /\ clock' \in Nat /\ clock \in Nat /\ probed[a].at \in Nat
        /\ UNCHANGED <<tokens, last_time, probed, config>> /\ BurstAt(a)
    BY <1>5, TickFacts, BucketFacts DEF BurstInv
  <2>2. probed[a].at <= clock'
    BY <2>1 DEF BurstAt
  <2> QED BY <2>1, <2>2 DEF BurstAt, Full
<1>6. UNCHANGED Kept => UNCHANGED <<tokens, last_time, clock, probed>>
  BY DEF Kept
<1> QED BY <1>0, <1>1, <1>2, <1>3, <1>4, <1>5, <1>6, Frame

(* BurstBounded speaks of any two probes: it is kept when the second is    *)
(* the one sent now, by what BurstInv says of the first.                   *)
LEMMA BoundedStep ==
  ASSUME TypeInv, ClockInv, BurstInv', BurstBounded, [Next]_vars
  PROVE  BurstBounded'
<1>0. resume \in {"next", "sleep", "wait"}
  BY DEF TypeInv, TypeOK
<1>1. config' = config
  BY <1>0, Frame
<1>2. CASE probed' = probed
  BY <1>1, <1>2 DEF BurstBounded
<1>3. CASE SendProbe
  <2> SUFFICES ASSUME config.rate > 0, NEW a \in 1 .. Len(probed'), NEW b \in 1 .. Len(probed'), a <= b
               PROVE  (b - a + 1) * NsPerS
                        <= 2 * Burst * NsPerS + config.rate * (probed'[b].at - probed'[a].at)
    BY <1>1 DEF BurstBounded
  <2>1. /\ UNCHANGED <<last_time, clock, config>> /\ last_time <= clock
        /\ Len(probed') = Len(probed) + 1 /\ Len(probed) \in Nat
        /\ \A k \in 1 .. Len(probed) : probed'[k] = probed[k]
        /\ probed'[Len(probed) + 1].at = clock
    BY <1>3, SendFacts, BucketFacts
  <2>2. CASE b \in 1 .. Len(probed)
    <3>1. a \in 1 .. Len(probed)
      BY <2>1, <2>2
    <3> QED BY <2>1, <2>2, <3>1 DEF BurstBounded
  <2>3. CASE b = Len(probed')
    <3> DEFINE at == probed'[a].at
               cost == (b - a + 1) * NsPerS
    <3>1. BurstAt(a)' /\ probed'[b].at = clock
      BY <1>1, <2>1, <2>3 DEF BurstInv
    <3>2. /\ at <= clock
          /\ last_time < at => cost + tokens' <= Full
          /\ last_time >= at => cost + tokens' <= (Full + Full) + config.rate * (last_time - at)
      BY <2>1, <2>3, <3>1 DEF BurstAt, Full
    <3>3. /\ at \in Nat /\ clock \in Nat /\ last_time \in Nat /\ config.rate \in Nat /\ NsPerS \in Nat
          /\ tokens' \in Nat /\ a \in Nat /\ b \in Nat
      <4>1. tokens' \in Nat
        BY <1>3, SendFacts, BucketFacts
      <4>2. at \in Nat
        <5>1. CASE a \in 1 .. Len(probed)
          BY <2>1, <5>1, BucketFacts
        <5>2. CASE a = Len(probed) + 1
          BY <2>1, <5>2, BucketFacts
        <5> QED BY <2>1, <5>1, <5>2
      <4> QED BY <4>1, <4>2, <2>1, BucketFacts
    <3>4. cost \in Int /\ config.rate * (clock - at) \in Nat
      <4>1. cost \in Int
        BY <3>3
      <4>2. at \in Nat /\ clock \in Nat /\ config.rate \in Nat /\ at <= clock
        BY <3>2, <3>3
      <4> HIDE DEF at
      <4>3. config.rate * (clock - at) \in Nat
        BY <4>2, EarnedNat
      <4> QED BY <4>1, <4>3
    <3>5. cost <= (Full + Full) + config.rate * (clock - at)
      <4>1. CASE last_time < at
        BY <3>2, <3>3, <3>4, <4>1, FullFacts
      <4>2. CASE last_time >= at
        <5>1. /\ config.rate * (last_time - at) + config.rate * (clock - last_time)
                   = config.rate * (clock - at)
              /\ config.rate * (clock - last_time) \in Nat /\ config.rate * (last_time - at) \in Nat
          <6>1. config.rate * (last_time - at) + config.rate * (clock - last_time)
                  = config.rate * (clock - at)
            <7>1. at \in Nat /\ last_time \in Nat /\ clock \in Nat /\ config.rate \in Nat
              BY <3>3
            <7> HIDE DEF at
            <7> QED BY <7>1, EarnedAdds
          <6>2. config.rate * (clock - last_time) \in Nat
            <7>1. last_time <= clock
              BY <2>1
            <7> QED BY <7>1, <3>3, EarnedNat
          <6>3. config.rate * (last_time - at) \in Nat
            BY <3>3, <4>2, EarnedNat
          <6> QED BY <6>1, <6>2, <6>3
        <5> DEFINE later == config.rate * (last_time - at)
                   since == config.rate * (clock - last_time)
                   all   == config.rate * (clock - at)
        <5>2. cost + tokens' <= (Full + Full) + later
          BY <3>2, <4>2
        <5>3. later + since = all /\ since \in Nat /\ later \in Nat
          BY <5>1
        <5>4. cost \in Int /\ tokens' \in Nat /\ Full \in Nat
          BY <3>3, <3>4, FullFacts
        <5> HIDE DEF later, since, all, cost, at
        <5>5. cost <= (Full + Full) + all
          BY <5>2, <5>3, <5>4, PaidLater
        <5> QED BY <5>5 DEF all, cost, at
      <4>3. last_time < at \/ last_time >= at
        <5>1. at \in Nat /\ last_time \in Nat
          BY <3>3
        <5> HIDE DEF at
        <5> QED BY <5>1
      <4> HIDE DEF at, cost
      <4> QED BY <4>1, <4>2, <4>3
    <3> QED BY <3>1, <3>5, FullFacts
  <2> QED BY <2>1, <2>2, <2>3
<1>4. Shuffle \/ ShuffleEnd \/ Refill \/ Tick \/ UNCHANGED Kept => probed' = probed
  BY DEF Shuffle, ShuffleEnd, Refill, Tick, Kept
<1> QED BY <1>0, <1>2, <1>3, <1>4, Frame

-------------------------------------------------------------------------------
(* Types. *)

LEMMA TypeInit == Init => TypeInv
<1> SUFFICES ASSUME Init PROVE TypeInv
  OBVIOUS
<1>1. /\ config \in Scenarios /\ StartPort \in Port /\ EndPort \in Port
      /\ config.max_arrivals \in Nat /\ NumPorts \in Nat /\ NumPorts >= 1
  BY ConfigFacts DEF Init
<1>2. port_list \in [Index -> Port]
  <2>1. ASSUME NEW k \in Index PROVE StartPort + k \in Port
    BY <1>1, <2>1, ConstantFacts DEF Index, NumPorts, Port
  <2> QED BY <2>1 DEF Init
<1>3. i \in 0 .. NumPorts /\ i \in Index
  BY <1>1 DEF Init, Index
<1>4. tokens \in 0 .. Burst * One
  <2>1. Burst \in Nat /\ Burst >= 1 /\ NsPerS \in Nat
    BY ConstantFacts
  <2> QED BY <2>1 DEF Init, One
<1>5. {last_time, start_wait, wake_at, clock, lag} \subseteq Nat
  BY DEF Init, StartTime
<1>6. /\ open_ports \in [Index -> BOOLEAN] /\ closed_ports \in [Index -> BOOLEAN]
      /\ banners \in [Index -> BOOLEAN]
  BY DEF Init
<1>7. pc = "shuffle" /\ resume = "next" /\ port = StartPort /\ arrivals = 0 /\ probed = <<>>
  BY DEF Init
<1>8. TypeOK
  BY <1>1, <1>2, <1>3, <1>4, <1>5, <1>6, <1>7 DEF TypeOK
<1>9. probed \in Seq([port : Port, at : Nat])
  BY <1>7, EmptySeq
<1> QED BY <1>3, <1>8, <1>9 DEF TypeInv

LEMMA PlacesStep ==
  ASSUME TypeInv, [Next]_vars
  PROVE  /\ pc' \in {"shuffle", "next", "drain", "sleep", "asleep", "wait", "poll", "banner",
                     "report", "done"}
         /\ resume' \in {"next", "sleep", "wait"}
         /\ config' = config
<1> USE DEF TypeInv, TypeOK
<1>1. config' = config
  BY Frame
<1>2. CASE Shuffle \/ ShuffleEnd \/ Refill \/ BeginSleep \/ Wake \/ SendProbe
  BY <1>1, <1>2 DEF Shuffle, ShuffleEnd, Refill, BeginSleep, Wake, SendProbe
<1>3. CASE Drain \/ DrainEnd
  <2>1. pc' \in {pc, resume} /\ resume' = resume
    BY <1>3 DEF Drain, DrainEnd
  <2> QED BY <1>1, <2>1
<1>4. CASE ScanEnd \/ WaitMore \/ PollReturns \/ WaitEnd
  BY <1>1, <1>4 DEF ScanEnd, WaitMore, PollReturns, WaitEnd
<1>5. CASE GrabBanner \/ BannersEnd \/ Report \/ ReportEnd
  BY <1>1, <1>5 DEF GrabBanner, BannersEnd, Report, ReportEnd
<1>6. CASE Tick \/ ArriveAnswer \/ ArriveShared \/ ArriveOther \/ UNCHANGED vars
  BY <1>1, <1>6 DEF Tick, ArriveAnswer, ArriveShared, ArriveOther, Enqueue, vars
<1> QED BY <1>2, <1>3, <1>4, <1>5, <1>6 DEF Next, Process, Terminated

LEMMA TimesStep ==
  ASSUME TypeInv, [Next]_vars
  PROVE  {last_time, start_wait, wake_at, clock, lag}' \subseteq Nat
<1>1. /\ last_time \in Nat /\ start_wait \in Nat /\ wake_at \in Nat /\ clock \in Nat /\ lag \in Nat
      /\ PollNs \in Nat /\ SleepNs \in Nat
  BY ConstantFacts DEF TypeInv, TypeOK
<1>2. CASE Shuffle \/ ShuffleEnd \/ Refill
  BY <1>1, <1>2 DEF Shuffle, ShuffleEnd, Refill, RefillTime, bucket, world
<1>3. CASE BeginSleep \/ Wake \/ SendProbe \/ Drain \/ DrainEnd
  BY <1>1, <1>3 DEF BeginSleep, Wake, SendProbe, Drain, DrainEnd, bucket, world
<1>4. CASE ScanEnd \/ WaitMore \/ PollReturns \/ WaitEnd
  BY <1>1, <1>4 DEF ScanEnd, WaitMore, PollReturns, WaitEnd, bucket, world
<1>5. CASE GrabBanner \/ BannersEnd \/ Report \/ ReportEnd
  BY <1>1, <1>5 DEF GrabBanner, BannersEnd, Report, ReportEnd, bucket, world
<1>6. CASE Tick
  BY <1>1, <1>6 DEF Tick, bucket
<1>7. CASE ArriveAnswer \/ ArriveShared \/ ArriveOther \/ UNCHANGED vars
  <2>1. UNCHANGED <<last_time, start_wait, wake_at, clock, lag>>
    BY <1>7 DEF ArriveAnswer, ArriveShared, ArriveOther, Enqueue, vars, bucket, world
  <2> QED BY <1>1, <2>1
<1> QED BY <1>2, <1>3, <1>4, <1>5, <1>6, <1>7 DEF Next, Process, Terminated

LEMMA FoundStep ==
  ASSUME TypeInv, [Next]_vars
  PROVE  /\ open_ports' \in [Index -> BOOLEAN] /\ closed_ports' \in [Index -> BOOLEAN]
         /\ banners' \in [Index -> BOOLEAN] /\ port' \in Port
<1>1. /\ open_ports \in [Index -> BOOLEAN] /\ closed_ports \in [Index -> BOOLEAN]
      /\ banners \in [Index -> BOOLEAN] /\ port \in Port /\ StartPort \in Port
  BY ConfigFacts DEF TypeInv, TypeOK
<1>2. NextPort \in Port
  BY <1>1, ConstantFacts DEF NextPort, Port
<1>3. CASE UNCHANGED <<open_ports, closed_ports, banners, port>>
  BY <1>1, <1>3
<1>4. CASE Drain
  <2>1. UNCHANGED <<banners, port>>
    BY <1>4 DEF Drain, output
  <2>2. CASE UNCHANGED <<open_ports, closed_ports, announced>>
    BY <1>1, <2>1, <2>2
  <2>3. CASE ProcessPacket(Head(sockbuf))
    <3>1. /\ open_ports' \in {open_ports, [open_ports EXCEPT ![IndexOf(Head(sockbuf).port)] = TRUE]}
          /\ closed_ports' \in {closed_ports,
                                [closed_ports EXCEPT ![IndexOf(Head(sockbuf).port)] = TRUE]}
      BY <2>3 DEF ProcessPacket
    <3> QED BY <1>1, <2>1, <3>1
  <2> QED BY <1>4, <2>2, <2>3 DEF Drain
<1>5. CASE WaitEnd \/ BannersEnd
  BY <1>1, <1>5 DEF WaitEnd, BannersEnd, found
<1>6. CASE GrabBanner
  <2>1. UNCHANGED <<open_ports, closed_ports>> /\ port' = NextPort
    BY <1>6 DEF GrabBanner, found
  <2>2. banners' = banners \/ \E b \in BOOLEAN : banners' = [banners EXCEPT ![IndexOf(port)] = b]
    BY <1>6 DEF GrabBanner
  <2>3. banners' \in [Index -> BOOLEAN]
    BY <1>1, <2>2
  <2> QED BY <1>1, <1>2, <2>1, <2>3
<1>7. CASE Report
  BY <1>1, <1>2, <1>7 DEF Report, found
<1>8. Shuffle \/ ShuffleEnd \/ Refill \/ BeginSleep \/ Wake \/ SendProbe \/ DrainEnd \/ ScanEnd
      \/ WaitMore \/ PollReturns \/ ReportEnd \/ Tick \/ ArriveAnswer \/ ArriveShared
      \/ ArriveOther \/ UNCHANGED vars => UNCHANGED <<open_ports, closed_ports, banners, port>>
  BY DEF Shuffle, ShuffleEnd, Refill, BeginSleep, Wake, SendProbe, DrainEnd, ScanEnd, WaitMore,
         PollReturns, ReportEnd, Tick, ArriveAnswer, ArriveShared, ArriveOther, Enqueue, vars,
         found, output
<1> QED BY <1>3, <1>4, <1>5, <1>6, <1>7, <1>8 DEF Next, Process, Terminated

LEMMA ListStep ==
  ASSUME TypeInv, [Next]_vars
  PROVE  /\ port_list' \in [Index -> Port] /\ i' \in 0 .. NumPorts
         /\ probed' \in Seq([port : Port, at : Nat])
         /\ pc' = "shuffle" => i' \in Index
<1>1. /\ port_list \in [Index -> Port] /\ i \in 0 .. NumPorts /\ clock \in Nat
      /\ probed \in Seq([port : Port, at : Nat])
      /\ pc = "shuffle" => i \in Index
      /\ resume \in {"next", "sleep", "wait"}
  BY DEF TypeInv, TypeOK
<1>2. NumPorts \in Nat /\ NumPorts >= 1
  BY ConfigFacts DEF TypeInv, TypeOK
<1>3. CASE UNCHANGED Kept /\ (pc' = pc \/ pc' # "shuffle")
  BY <1>1, <1>3 DEF Kept
<1>4. CASE Shuffle
  <2>1. pc = "shuffle" /\ i > 0 /\ i' = i - 1 /\ UNCHANGED probed
    BY <1>4 DEF Shuffle
  <2>2. i \in Index
    BY <1>1, <2>1
  <2>3. PICK j \in 0 .. i : port_list' = Swap(port_list, i, j)
    BY <1>4 DEF Shuffle
  <2>4. j \in Index /\ i' \in Index /\ i' \in 0 .. NumPorts
    BY <1>2, <2>1, <2>2 DEF Index
  <2>5. port_list' \in [Index -> Port]
    BY <1>1, <2>2, <2>3, <2>4 DEF Swap
  <2> QED BY <1>1, <2>1, <2>4, <2>5
<1>5. CASE ShuffleEnd
  BY <1>1, <1>2, <1>5 DEF ShuffleEnd
<1>6. CASE Refill \/ Tick
  <2>1. UNCHANGED <<port_list, i, probed>> /\ (pc' = pc \/ pc' # "shuffle")
    BY <1>6 DEF Refill, Tick
  <2> QED BY <1>1, <2>1
<1>7. CASE SendProbe
  <2>1. /\ i < NumPorts /\ i' = i + 1 /\ pc' = "drain" /\ port_list' = port_list
        /\ probed' = Append(probed, [port |-> port_list[i], at |-> clock])
    BY <1>7 DEF SendProbe
  <2>2. i \in Index
    BY <1>1, <1>2, <2>1 DEF Index
  <2>3. port_list[i] \in Port
    BY <1>1, <2>2
  <2>4. [port |-> port_list[i], at |-> clock] \in [port : Port, at : Nat]
    BY <1>1, <2>3
  <2>5. probed' \in Seq([port : Port, at : Nat])
    BY <1>1, <2>1, <2>4, AppendProperties
  <2> QED BY <1>1, <1>2, <2>1, <2>5
<1> QED BY <1>1, <1>3, <1>4, <1>5, <1>6, <1>7, Frame

LEMMA TokensStep ==
  ASSUME TypeInv, ClockInv, [Next]_vars
  PROVE  tokens' \in 0 .. Burst * One
<1>1. tokens \in Nat /\ NsPerS \in Nat /\ tokens <= Burst * NsPerS /\ Burst * NsPerS \in Nat
  BY BucketFacts
<1>2. CASE tokens' = tokens
  BY <1>1, <1>2 DEF One
<1>3. CASE Refill
  BY <1>1, <1>3, RefillFacts DEF One
<1>4. CASE SendProbe
  <2>1. tokens' = tokens \/ (tokens >= NsPerS /\ tokens' = tokens - NsPerS)
    BY <1>4 DEF SendProbe, One
  <2> QED BY <1>1, <2>1 DEF One
<1>5. Shuffle \/ ShuffleEnd \/ Tick \/ UNCHANGED Kept => tokens' = tokens
  BY DEF Shuffle, ShuffleEnd, Tick, Kept, bucket
<1>6. resume \in {"next", "sleep", "wait"}
  BY DEF TypeInv, TypeOK
<1> QED BY <1>2, <1>3, <1>4, <1>5, <1>6, Frame

LEMMA ArrivalsStep ==
  ASSUME TypeInv, [Next]_vars
  PROVE  arrivals' \in 0 .. config.max_arrivals
<1>1. arrivals \in 0 .. config.max_arrivals /\ config.max_arrivals \in Nat
  BY ConfigFacts DEF TypeInv, TypeOK
<1>2. CASE arrivals' = arrivals
  BY <1>1, <1>2
<1>3. CASE ArriveAnswer \/ ArriveShared \/ ArriveOther
  <2>1. arrivals < config.max_arrivals /\ arrivals' = arrivals + 1
    BY <1>3 DEF ArriveAnswer, ArriveShared, ArriveOther, Enqueue
  <2> QED BY <1>1, <2>1
<1>4. Process \/ Tick \/ UNCHANGED vars => arrivals' = arrivals
  BY DEF Process, Shuffle, ShuffleEnd, Refill, BeginSleep, Wake, SendProbe, Drain, DrainEnd,
         ScanEnd, WaitMore, PollReturns, WaitEnd, GrabBanner, BannersEnd, Report, ReportEnd,
         Tick, vars, world
<1> QED BY <1>2, <1>3, <1>4 DEF Next, Terminated

LEMMA TypeStep ==
  ASSUME TypeInv, ClockInv, [Next]_vars
  PROVE  TypeInv'
<1>1. UNCHANGED <<config, NumPorts, Index>>
  BY Frame DEF TypeInv, TypeOK
<1>2. config \in Scenarios
  BY DEF TypeInv, TypeOK
<1>3. TypeOK'
  BY <1>1, <1>2, PlacesStep, TimesStep, FoundStep, ListStep, TokensStep, ArrivalsStep DEF TypeOK
<1> QED BY <1>1, <1>3, ListStep DEF TypeInv

-------------------------------------------------------------------------------
LEMMA IInvInit == Init => IInv
<1> SUFFICES ASSUME Init PROVE IInv
  OBVIOUS
<1>1. TypeInv
  BY TypeInit
<1>2. probed = <<>> /\ Len(probed) = 0 /\ pc = "shuffle" /\ ~Scanned
  BY DEF Init, Scanned
<1>3. PortsInv
  <2>1. StartPort \in Int /\ EndPort \in Int /\ NumPorts = EndPort - StartPort + 1
        /\ Index = 0 .. NumPorts - 1
    BY <1>1, ConfigFacts, ConstantFacts DEF TypeInv, TypeOK, Port, NumPorts, Index
  <2>2. port_list = [k \in Index |-> StartPort + k]
    BY DEF Init
  <2>3. \A k \in Index : StartPort + k \in PortRange
    BY <2>1 DEF PortRange
  <2>4. \A k, l \in Index : port_list[k] = port_list[l] => k = l
    BY <2>1, <2>2
  <2>5. ASSUME NEW p \in PortRange PROVE \E k \in Index : port_list[k] = p
    <3>1. p - StartPort \in Index /\ StartPort + (p - StartPort) = p
      BY <2>1, <2>5 DEF PortRange
    <3> QED BY <2>2, <3>1
  <2> QED BY <2>2, <2>3, <2>4, <2>5 DEF PortsInv
<1>4. ProbedInv
  BY <1>2 DEF ProbedInv
<1>5. ClockInv
  BY <1>2 DEF Init, ClockInv, StartTime
<1>6. RateInv /\ BurstInv /\ BurstBounded
  BY <1>2 DEF RateInv, BurstInv, BurstBounded
<1> QED BY <1>1, <1>3, <1>4, <1>5, <1>6 DEF IInv

LEMMA IInvStep == IInv /\ [Next]_vars => IInv'
<1> SUFFICES ASSUME IInv, [Next]_vars PROVE IInv'
  OBVIOUS
<1>1. TypeInv /\ PortsInv /\ ProbedInv /\ ClockInv /\ RateInv /\ BurstInv /\ BurstBounded
  BY DEF IInv
<1>2. BurstInv'
  BY <1>1, BurstStep
<1>3. BurstBounded'
  BY <1>1, <1>2, BoundedStep
<1> QED BY <1>1, <1>2, <1>3, TypeStep, PortsStep, ProbedStep, ClockStep, RateStep DEF IInv

LEMMA IInvariant == Spec => []IInv
BY IInvInit, IInvStep, PTL DEF Spec

(* Every variable has its type, and the bucket never owes or overflows. *)
THEOREM TypeCorrect == Spec => []TypeOK
<1>1. IInv => TypeOK
  BY DEF IInv, TypeInv
<1> QED BY <1>1, IInvariant, PTL

(* Shuffled or not, a scan probes every port of the range exactly once.    *)
THEOREM PortsProbedOnce == Spec => []EachPortProbedOnce
<1>1. IInv => EachPortProbedOnce
  BY ProbedOnce DEF IInv
<1> QED BY <1>1, IInvariant, PTL

(* -r is kept over the whole scan, whatever delays the process.            *)
THEOREM RateIsKept == Spec => []RateKept
<1>1. ASSUME IInv PROVE RateKept
  <2> SUFFICES ASSUME config.rate > 0
               PROVE  (Len(probed) - 1) * NsPerS <= config.rate * (clock - StartTime)
    BY DEF RateKept
  <2>1. TypeInv /\ ClockInv /\ RateInv /\ ProbedInv
    BY <1>1 DEF IInv
  <2>2. /\ config.rate \in Nat /\ clock \in Nat /\ last_time \in Nat /\ Len(probed) \in Nat
        /\ tokens \in Nat /\ NsPerS \in Nat /\ StartTime \in Nat /\ StartTime <= clock
    BY <2>1, BucketFacts DEF ClockInv, StartTime
  <2>3. config.rate * (clock - StartTime) \in Nat
    BY <2>2, EarnedNat
  <2>4. (Len(probed) - 1) * NsPerS = Len(probed) * NsPerS - NsPerS /\ Len(probed) * NsPerS \in Nat
    BY <2>2
  <2>5. CASE pc = "shuffle"
    <3>1. Len(probed) * NsPerS = 0
      BY <2>1, <2>2, <2>5 DEF ProbedInv
    <3> QED BY <2>2, <2>3, <2>4, <3>1
  <2>6. CASE pc # "shuffle"
    <3>1. StartTime <= last_time /\ last_time <= clock
      BY <2>1, <2>6 DEF ClockInv
    <3>2. config.rate * (last_time - StartTime) + config.rate * (clock - last_time)
            = config.rate * (clock - StartTime)
      BY <2>2, EarnedAdds
    <3>3. config.rate * (last_time - StartTime) \in Nat /\ config.rate * (clock - last_time) \in Nat
      BY <2>2, <3>1, EarnedNat
    <3>4. Len(probed) * NsPerS + tokens <= NsPerS + config.rate * (last_time - StartTime)
      BY <2>1, <2>6 DEF RateInv, One
    <3>5. Len(probed) * NsPerS - NsPerS <= config.rate * (last_time - StartTime)
      BY <2>2, <2>4, <3>3, <3>4
    <3> QED BY <2>2, <2>4, <3>2, <3>3, <3>5
  <2> QED BY <2>5, <2>6
<1> QED BY <1>1, IInvariant, PTL

(* And in no stretch of it does a delayed process catch up by more than    *)
(* two full buckets.                                                       *)
THEOREM BurstIsBounded == Spec => []BurstBounded
<1>1. IInv => BurstBounded
  BY DEF IInv
<1> QED BY <1>1, IInvariant, PTL

-------------------------------------------------------------------------------
(* What is found is true: of the packets queued, of the arrays, of what is *)
(* printed while scanning, and of the report.                              *)
PacketType == [kind : {"syn_ack", "rst", "port_unreach", "error", "foreign"}, port : Port]

Truthful(p, shared, ans) ==
  /\ p.kind = "syn_ack" => p.port \in OpenPorts /\ (shared \/ p.port \in ans)
  /\ p.kind = "port_unreach" => shared \/ p.port \notin OpenPorts

PacketsInv ==
  /\ on_wire \subseteq Port
  /\ sockbuf \in Seq(PacketType)
  /\ \A k \in 1 .. Len(sockbuf) : Truthful(sockbuf[k], config.shared, answered)

FoundInv ==
  \A p \in PortRange :
    /\ open_ports[p - StartPort] => p \in OpenPorts /\ (config.shared \/ p \in answered)
    /\ closed_ports[p - StartPort] => config.shared \/ p \notin OpenPorts

AnnouncedInv ==
  /\ announced \in Seq(PortRange)
  /\ \A a, b \in 1 .. Len(announced) : announced[a] = announced[b] => a = b
  /\ config.json => announced = <<>>
  /\ ~config.json =>
       \A p \in PortRange : open_ports[p - StartPort] <=> \E a \in 1 .. Len(announced) : announced[a] = p

TruthInv == PacketsInv /\ FoundInv /\ AnnouncedInv

LEMMA RangeFacts ==
  ASSUME TypeInv
  PROVE  /\ StartPort \in Int /\ EndPort \in Int /\ PortMod \in Int
         /\ PortRange \subseteq Port /\ Port \subseteq Int
         /\ \A p \in Port : InRange(p) <=> p \in PortRange
         /\ \A p \in PortRange : IndexOf(p) = p - StartPort /\ p - StartPort \in Index
<1>1. StartPort \in Port /\ EndPort \in Port /\ PortMod \in Nat
  BY ConfigFacts, ConstantFacts DEF TypeInv, TypeOK
<1>2. StartPort \in Int /\ EndPort \in Int /\ PortMod \in Int /\ Port \subseteq Int
  BY <1>1 DEF Port
<1>3. PortRange \subseteq Port
  BY <1>1 DEF PortRange, Port
<1>4. \A p \in Port : InRange(p) <=> p \in PortRange
  BY <1>2 DEF InRange, PortRange
<1>5. ASSUME NEW p \in PortRange PROVE IndexOf(p) = p - StartPort /\ p - StartPort \in Index
  <2>1. p - StartPort \in 0 .. PortMod - 1 /\ p - StartPort \in Index
    BY <1>1, <1>5 DEF PortRange, Port, Index, NumPorts
  <2>2. (p - StartPort) % PortMod = p - StartPort
    BY <1>1, <2>1
  <2> QED BY <2>1, <2>2 DEF IndexOf
<1> QED BY <1>2, <1>3, <1>4, <1>5

(* Only Drain and the arrival of packets change what TruthInv speaks of,   *)
(* and SendProbe what is on the wire.                                      *)
Truth == <<on_wire, sockbuf, answered, open_ports, closed_ports, announced>>

LEMMA TruthFrame ==
  ASSUME TypeInv, [Next]_vars
  PROVE  /\ UNCHANGED <<config, StartPort, Index, PortRange>>
         /\ UNCHANGED Truth \/ SendProbe \/ Drain \/ ArriveAnswer \/ ArriveShared \/ ArriveOther
<1>1. UNCHANGED <<config, StartPort, Index, PortRange>>
  BY Frame DEF TypeInv, TypeOK
<1>2. Shuffle \/ ShuffleEnd \/ Refill \/ BeginSleep \/ Wake \/ DrainEnd \/ ScanEnd \/ WaitMore
      \/ PollReturns \/ WaitEnd => UNCHANGED Truth
  BY DEF Shuffle, ShuffleEnd, Refill, BeginSleep, Wake, DrainEnd, ScanEnd, WaitMore, PollReturns,
         WaitEnd, world, found, Truth
<1>3. GrabBanner \/ BannersEnd \/ Report \/ ReportEnd \/ Tick \/ UNCHANGED vars => UNCHANGED Truth
  BY DEF GrabBanner, BannersEnd, Report, ReportEnd, Tick, vars, world, found, Truth
<1> QED BY <1>1, <1>2, <1>3 DEF Next, Process, Terminated

LEMMA TruthSend ==
  ASSUME TypeInv, TruthInv, SendProbe
  PROVE  TruthInv'
<1>1. /\ UNCHANGED <<config, sockbuf, answered, open_ports, closed_ports, announced>>
      /\ on_wire' \in {on_wire, on_wire \cup {port_list[i]}} /\ i < NumPorts
  BY DEF SendProbe, found
<1>2. UNCHANGED <<StartPort, PortRange>>
  BY <1>1 DEF StartPort, PortRange, EndPort
<1>3. i \in Index
  <2>1. i \in 0 .. NumPorts /\ NumPorts \in Nat
    BY ConfigFacts DEF TypeInv, TypeOK
  <2> QED BY <1>1, <2>1 DEF Index
<1>4. port_list[i] \in Port
  BY <1>3 DEF TypeInv, TypeOK
<1>5. on_wire' \subseteq Port
  BY <1>1, <1>4 DEF TruthInv, PacketsInv
<1>6. PacketsInv'
  BY <1>1, <1>5 DEF TruthInv, PacketsInv, Truthful
<1>7. FoundInv'
  BY <1>1, <1>2 DEF TruthInv, FoundInv
<1>8. AnnouncedInv'
  BY <1>1, <1>2 DEF TruthInv, AnnouncedInv
<1> QED BY <1>6, <1>7, <1>8 DEF TruthInv

(* A packet that comes tells the truth. *)
LEMMA TruthEnqueue ==
  ASSUME TypeInv, TruthInv, NEW p \in PacketType, Enqueue(p), answered \subseteq answered',
         Truthful(p, config.shared, answered')
  PROVE  TruthInv'
<1>2. /\ UNCHANGED <<config, on_wire, open_ports, closed_ports, announced>>
      /\ sockbuf' = Append(sockbuf, p)
  BY DEF Enqueue, found
<1>3. UNCHANGED <<StartPort, PortRange>>
  BY <1>2 DEF StartPort, PortRange, EndPort
<1>4. sockbuf \in Seq(PacketType) /\ \A k \in 1 .. Len(sockbuf) : Truthful(sockbuf[k], config.shared, answered)
  BY DEF TruthInv, PacketsInv
<1>5. /\ sockbuf' \in Seq(PacketType) /\ Len(sockbuf') = Len(sockbuf) + 1 /\ Len(sockbuf) \in Nat
      /\ \A k \in 1 .. Len(sockbuf) : sockbuf'[k] = sockbuf[k]
      /\ sockbuf'[Len(sockbuf) + 1] = p
  BY <1>2, <1>4, AppendProperties, LenProperties
<1>6. ASSUME NEW k \in 1 .. Len(sockbuf') PROVE Truthful(sockbuf'[k], config.shared, answered')
  <2>1. CASE k \in 1 .. Len(sockbuf)
    <3>1. Truthful(sockbuf[k], config.shared, answered) /\ sockbuf'[k] = sockbuf[k]
      BY <1>4, <1>5, <2>1
    <3> QED BY <3>1 DEF Truthful
  <2>2. CASE k = Len(sockbuf) + 1
    <3>1. sockbuf'[k] = p
      BY <1>5, <2>2
    <3> QED BY <3>1
  <2> QED BY <1>5, <2>1, <2>2
<1>7. PacketsInv'
  BY <1>2, <1>5, <1>6 DEF TruthInv, PacketsInv
<1>8. FoundInv'
  BY <1>2, <1>3 DEF TruthInv, FoundInv
<1>9. AnnouncedInv'
  BY <1>2, <1>3 DEF TruthInv, AnnouncedInv
<1> QED BY <1>7, <1>8, <1>9 DEF TruthInv

LEMMA TruthArrive ==
  ASSUME TypeInv, TruthInv, ArriveAnswer \/ ArriveShared \/ ArriveOther
  PROVE  TruthInv'
<1>1. CASE ArriveAnswer
  <2>1. PICK q \in on_wire : /\ config.udp => q \notin OpenPorts
                             /\ Enqueue([kind |-> AnswerTo(q), port |-> q])
                             /\ answered' = answered \cup {q}
    BY <1>1 DEF ArriveAnswer
  <2>2. q \in Port /\ AnswerTo(q) \in {"port_unreach", "syn_ack", "rst"}
    BY DEF TruthInv, PacketsInv, AnswerTo
  <2>3. /\ AnswerTo(q) = "syn_ack" => q \in OpenPorts
        /\ AnswerTo(q) = "port_unreach" => q \notin OpenPorts
    BY <2>1 DEF AnswerTo
  <2> DEFINE p == [kind |-> AnswerTo(q), port |-> q]
  <2>4. p \in PacketType
    BY <2>2 DEF PacketType
  <2>5. p.kind = AnswerTo(q) /\ p.port = q
    OBVIOUS
  <2>6. Enqueue(p) /\ answered \subseteq answered' /\ q \in answered'
    BY <2>1
  <2> HIDE DEF p
  <2>7. Truthful(p, config.shared, answered')
    BY <2>3, <2>5, <2>6 DEF Truthful
  <2> QED BY <2>4, <2>6, <2>7, TruthEnqueue
<1>2. CASE ArriveShared
  <2>1. PICK q \in OpenPorts :
               Enqueue([kind |-> IF config.udp THEN "port_unreach" ELSE "syn_ack", port |-> q])
    BY <1>2 DEF ArriveShared
  <2>2. config.shared /\ answered' = answered /\ config' = config /\ q \in Port
    BY <1>2, <2>1, ScenariosAssumption DEF ArriveShared, Enqueue
  <2> DEFINE p == [kind |-> IF config.udp THEN "port_unreach" ELSE "syn_ack", port |-> q]
  <2>3. p \in PacketType
    BY <2>2 DEF PacketType
  <2>4. Enqueue(p) /\ p.port = q
    BY <2>1
  <2> HIDE DEF p
  <2>5. Truthful(p, config.shared, answered')
    BY <2>2, <2>4 DEF Truthful
  <2> QED BY <2>2, <2>3, <2>4, <2>5, TruthEnqueue
<1>3. CASE ArriveOther
  <2>1. PICK k \in {"error", "foreign"} : Enqueue([kind |-> k, port |-> StartPort])
    BY <1>3 DEF ArriveOther
  <2>2. answered' = answered /\ StartPort \in Port
    BY <1>3, ConfigFacts DEF ArriveOther, TypeInv, TypeOK
  <2> DEFINE p == [kind |-> k, port |-> StartPort]
  <2>3. p \in PacketType /\ p.kind \notin {"syn_ack", "port_unreach"}
    BY <2>2 DEF PacketType
  <2>4. Enqueue(p)
    BY <2>1
  <2> HIDE DEF p
  <2>5. Truthful(p, config.shared, answered')
    BY <2>3 DEF Truthful
  <2> QED BY <2>2, <2>3, <2>4, <2>5, TruthEnqueue
<1> QED BY <1>1, <1>2, <1>3

(* What is left in the queue when its head is taken. *)
LEMMA TruthTail ==
  ASSUME PacketsInv, sockbuf # <<>>
  PROVE  /\ Head(sockbuf) \in PacketType /\ Truthful(Head(sockbuf), config.shared, answered)
         /\ Tail(sockbuf) \in Seq(PacketType)
         /\ \A k \in 1 .. Len(Tail(sockbuf)) :
              Truthful(Tail(sockbuf)[k], config.shared, answered)
<1> DEFINE T == Tail(sockbuf)
<1>1. /\ sockbuf \in Seq(PacketType)
      /\ \A k \in 1 .. Len(sockbuf) : Truthful(sockbuf[k], config.shared, answered)
  BY DEF PacketsInv
<1>2. /\ Len(sockbuf) \in Nat /\ Len(sockbuf) > 0 /\ Head(sockbuf) = sockbuf[1]
      /\ Head(sockbuf) \in PacketType
  BY <1>1
<1>3. /\ T \in Seq(PacketType) /\ Len(T) = Len(sockbuf) - 1
      /\ \A k \in 1 .. Len(T) : T[k] = sockbuf[k + 1]
  BY <1>1, <1>2
<1> HIDE DEF T
<1>4. 1 \in 1 .. Len(sockbuf)
  BY <1>2
<1>5. Truthful(Head(sockbuf), config.shared, answered)
  BY <1>1, <1>2, <1>4
<1>6. ASSUME NEW k \in 1 .. Len(T) PROVE Truthful(T[k], config.shared, answered)
  <2>1. k + 1 \in 1 .. Len(sockbuf) /\ T[k] = sockbuf[k + 1]
    BY <1>2, <1>3, <1>6
  <2>2. Truthful(sockbuf[k + 1], config.shared, answered)
    BY <1>1, <2>1
  <2> QED BY <2>1, <2>2
<1>7. T \in Seq(PacketType) /\ \A k \in 1 .. Len(T) : Truthful(T[k], config.shared, answered)
  BY <1>3, <1>6
<1> QED BY <1>2, <1>5, <1>7 DEF T

(* A port that is printed is printed for the first time: it is found open  *)
(* in the same step.                                                       *)
LEMMA AnnounceOne ==
  ASSUME NEW seq \in Seq(PortRange), NEW q \in PortRange,
         \A a \in 1 .. Len(seq) : seq[a] # q,
         \A a, b \in 1 .. Len(seq) : seq[a] = seq[b] => a = b
  PROVE  /\ Append(seq, q) \in Seq(PortRange)
         /\ \A a, b \in 1 .. Len(Append(seq, q)) : Append(seq, q)[a] = Append(seq, q)[b] => a = b
         /\ \A p : (\E a \in 1 .. Len(Append(seq, q)) : Append(seq, q)[a] = p)
                     <=> (p = q \/ \E a \in 1 .. Len(seq) : seq[a] = p)
<1> DEFINE N == Append(seq, q)
<1>1. /\ N \in Seq(PortRange) /\ Len(seq) \in Nat /\ Len(N) = Len(seq) + 1
      /\ \A a \in 1 .. Len(seq) : N[a] = seq[a]
      /\ N[Len(seq) + 1] = q
  OBVIOUS
<1> HIDE DEF N
<1>2. \A a \in 1 .. Len(N) : a \in 1 .. Len(seq) \/ a = Len(seq) + 1
  BY <1>1
<1>3. ASSUME NEW a \in 1 .. Len(N), NEW b \in 1 .. Len(N), N[a] = N[b] PROVE a = b
  BY <1>1, <1>2, <1>3
<1>4. ASSUME NEW p
      PROVE  (\E a \in 1 .. Len(N) : N[a] = p) <=> (p = q \/ \E a \in 1 .. Len(seq) : seq[a] = p)
  <2>1. \A a \in 1 .. Len(seq) : a \in 1 .. Len(N)
    BY <1>1
  <2>2. Len(seq) + 1 \in 1 .. Len(N)
    BY <1>1
  <2> QED BY <1>1, <1>2, <2>1, <2>2
<1> QED BY <1>1, <1>3, <1>4 DEF N

(* A port becomes open on a SYN-ACK and closed on an ICMP error.           *)
LEMMA TruthDrain ==
  ASSUME TypeInv, TruthInv, Drain
  PROVE  TruthInv'
<1> DEFINE h == Head(sockbuf)
<1>1. /\ UNCHANGED <<config, on_wire, answered>> /\ sockbuf # <<>> /\ sockbuf' = Tail(sockbuf)
      /\ UNCHANGED <<open_ports, closed_ports, announced>> \/ ProcessPacket(h)
  BY DEF Drain
<1>2. UNCHANGED <<StartPort, PortRange, Index>>
  BY <1>1 DEF StartPort, PortRange, EndPort, Index, NumPorts
<1>3. PacketsInv /\ FoundInv /\ AnnouncedInv
  BY DEF TruthInv
<1>4. /\ h \in PacketType /\ Truthful(h, config.shared, answered)
      /\ sockbuf' \in Seq(PacketType)
      /\ \A k \in 1 .. Len(sockbuf') : Truthful(sockbuf'[k], config.shared, answered)
  BY <1>1, <1>3, TruthTail
<1> HIDE DEF h
<1>5. PacketsInv'
  BY <1>1, <1>3, <1>4 DEF PacketsInv
<1>6. CASE UNCHANGED <<open_ports, closed_ports, announced>>
  <2>1. FoundInv'
    BY <1>1, <1>2, <1>3, <1>6 DEF FoundInv
  <2>2. AnnouncedInv'
    BY <1>1, <1>2, <1>3, <1>6 DEF AnnouncedInv
  <2> QED BY <1>5, <2>1, <2>2 DEF TruthInv
<1>7. CASE ProcessPacket(h) /\ ~UNCHANGED <<open_ports, closed_ports, announced>>
  <2> DEFINE q == h.port
             x == q - StartPort
  <2>1. /\ q \in Port /\ InRange(q)
        /\ \/ /\ h.kind = "syn_ack" /\ ~open_ports[IndexOf(q)] /\ closed_ports' = closed_ports
              /\ open_ports' = [open_ports EXCEPT ![IndexOf(q)] = TRUE]
              /\ announced' = IF ~config.json THEN Append(announced, q) ELSE announced
           \/ /\ h.kind = "port_unreach" /\ UNCHANGED <<open_ports, announced>>
              /\ closed_ports' = [closed_ports EXCEPT ![IndexOf(q)] = TRUE]
    BY <1>4, <1>7 DEF ProcessPacket, IsOpen, PacketType
  <2>2. /\ q \in PortRange /\ IndexOf(q) = x /\ x \in Index
        /\ \A p \in PortRange : p - StartPort \in Index /\ (p - StartPort = x => p = q)
    <3>1. q \in PortRange
      BY <2>1, RangeFacts
    <3>2. \A p \in PortRange : p - StartPort = x => p = q
      BY <3>1, RangeFacts
    <3> QED BY <3>1, <3>2, RangeFacts
  <2>3. /\ open_ports \in [Index -> BOOLEAN] /\ closed_ports \in [Index -> BOOLEAN]
    BY DEF TypeInv, TypeOK
  <2>4. /\ h.kind = "syn_ack" => q \in OpenPorts /\ (config.shared \/ q \in answered)
        /\ h.kind = "port_unreach" => config.shared \/ q \notin OpenPorts
    BY <1>4 DEF Truthful
  <2> HIDE DEF q, x
  <2>5. CASE h.kind = "syn_ack"
    <3>1. /\ ~open_ports[x] /\ closed_ports' = closed_ports
          /\ open_ports' = [open_ports EXCEPT ![x] = TRUE]
          /\ announced' = IF ~config.json THEN Append(announced, q) ELSE announced
      BY <2>1, <2>2, <2>5
    <3>2. \A p \in PortRange : open_ports'[p - StartPort] <=> (p = q \/ open_ports[p - StartPort])
      <4> SUFFICES ASSUME NEW p \in PortRange
                   PROVE  open_ports'[p - StartPort] <=> (p = q \/ open_ports[p - StartPort])
        OBVIOUS
      <4>1. CASE p = q
        BY <2>2, <2>3, <3>1, <4>1 DEF x
      <4>2. CASE p # q
        BY <2>2, <2>3, <3>1, <4>2
      <4> QED BY <4>1, <4>2
    <3>3. \A p \in PortRange :
            /\ open_ports'[p - StartPort] => p \in OpenPorts /\ (config.shared \/ p \in answered)
            /\ closed_ports'[p - StartPort] => config.shared \/ p \notin OpenPorts
      BY <1>3, <2>4, <2>5, <3>1, <3>2 DEF FoundInv
    <3>4. FoundInv'
      BY <1>1, <1>2, <3>3 DEF FoundInv
    <3>5. /\ announced' \in Seq(PortRange)
          /\ \A a, b \in 1 .. Len(announced') : announced'[a] = announced'[b] => a = b
          /\ config.json => announced' = <<>>
          /\ ~config.json =>
               \A p \in PortRange :
                 open_ports'[p - StartPort] <=> \E a \in 1 .. Len(announced') : announced'[a] = p
      <4>1. CASE config.json
        BY <1>3, <3>1, <4>1 DEF AnnouncedInv
      <4>2. CASE ~config.json
        <5>1. \A a \in 1 .. Len(announced) : announced[a] # q
          BY <1>3, <2>2, <3>1, <4>2 DEF AnnouncedInv, x
        <5>2. /\ announced \in Seq(PortRange)
              /\ \A a, b \in 1 .. Len(announced) : announced[a] = announced[b] => a = b
          BY <1>3 DEF AnnouncedInv
        <5>3. announced' = Append(announced, q)
          BY <3>1, <4>2
        <5>4. /\ announced' \in Seq(PortRange)
              /\ \A a, b \in 1 .. Len(announced') : announced'[a] = announced'[b] => a = b
              /\ \A p : (\E a \in 1 .. Len(announced') : announced'[a] = p)
                          <=> (p = q \/ \E a \in 1 .. Len(announced) : announced[a] = p)
          BY <2>2, <5>1, <5>2, <5>3, AnnounceOne
        <5>5. \A p \in PortRange :
                open_ports[p - StartPort] <=> \E a \in 1 .. Len(announced) : announced[a] = p
          BY <1>3, <4>2 DEF AnnouncedInv
        <5>6. \A p \in PortRange :
                open_ports'[p - StartPort] <=> \E a \in 1 .. Len(announced') : announced'[a] = p
          BY <3>2, <5>4, <5>5
        <5> QED BY <4>2, <5>4, <5>6
      <4> QED BY <4>1, <4>2
    <3>6. AnnouncedInv'
      BY <1>1, <1>2, <3>5 DEF AnnouncedInv
    <3> QED BY <1>5, <3>4, <3>6 DEF TruthInv
  <2>6. CASE h.kind = "port_unreach"
    <3>1. UNCHANGED <<open_ports, announced>> /\ closed_ports' = [closed_ports EXCEPT ![x] = TRUE]
      BY <2>1, <2>2, <2>6
    <3>2. \A p \in PortRange :
            closed_ports'[p - StartPort] => p = q \/ closed_ports[p - StartPort]
      BY <2>2, <2>3, <3>1
    <3>3. \A p \in PortRange :
            /\ open_ports'[p - StartPort] => p \in OpenPorts /\ (config.shared \/ p \in answered)
            /\ closed_ports'[p - StartPort] => config.shared \/ p \notin OpenPorts
      BY <1>3, <2>4, <2>6, <3>1, <3>2 DEF FoundInv
    <3>4. FoundInv'
      BY <1>1, <1>2, <3>3 DEF FoundInv
    <3>5. AnnouncedInv'
      BY <1>1, <1>2, <1>3, <3>1 DEF AnnouncedInv
    <3> QED BY <1>5, <3>4, <3>5 DEF TruthInv
  <2> QED BY <2>1, <2>5, <2>6
<1> QED BY <1>1, <1>6, <1>7

LEMMA TruthInit == Init => TruthInv
<1> SUFFICES ASSUME Init PROVE TruthInv
  OBVIOUS
<1>1. TypeInv
  BY TypeInit
<1>2. /\ on_wire = {} /\ sockbuf = <<>> /\ announced = <<>>
      /\ \A k \in Index : ~open_ports[k] /\ ~closed_ports[k]
  BY DEF Init
<1>3. \A p \in PortRange : p - StartPort \in Index
  BY <1>1, RangeFacts
<1>4. PacketsInv
  BY <1>2 DEF PacketsInv
<1>5. FoundInv
  BY <1>2, <1>3 DEF FoundInv
<1>6. AnnouncedInv
  BY <1>2, <1>3 DEF AnnouncedInv
<1> QED BY <1>4, <1>5, <1>6 DEF TruthInv

LEMMA TruthStep == IInv /\ TruthInv /\ [Next]_vars => TruthInv'
<1> SUFFICES ASSUME TypeInv, TruthInv, [Next]_vars PROVE TruthInv'
  BY DEF IInv
<1>1. CASE UNCHANGED Truth
  <2>1. /\ UNCHANGED <<on_wire, sockbuf, answered, open_ports, closed_ports, announced>>
        /\ UNCHANGED <<config, StartPort, PortRange>>
    BY <1>1, TruthFrame DEF Truth
  <2>2. PacketsInv'
    BY <2>1 DEF TruthInv, PacketsInv
  <2>3. FoundInv'
    BY <2>1 DEF TruthInv, FoundInv
  <2>4. AnnouncedInv'
    BY <2>1 DEF TruthInv, AnnouncedInv
  <2> QED BY <2>2, <2>3, <2>4 DEF TruthInv
<1> QED BY <1>1, TruthFrame, TruthSend, TruthDrain, TruthArrive

LEMMA TruthInvariant == Spec => []TruthInv
BY TruthInit, TruthStep, IInvariant, PTL DEF Spec

(* Each port printed while scanning is open on the target and printed      *)
(* once, and without -j every port found is printed: whatever answers      *)
(* come, late, again or to another process.                                *)
THEOREM AnnouncedIsOpen == Spec => []AnnouncedOnce
<1>1. ASSUME TypeInv, TruthInv PROVE AnnouncedOnce
  <2>1. AnnouncedInv /\ FoundInv
    BY <1>1 DEF TruthInv
  <2>2. /\ announced \in Seq(PortRange) /\ config.json \in BOOLEAN
        /\ \A a, b \in 1 .. Len(announced) : announced[a] = announced[b] => a = b
    <3>1. config \in Scenario
      BY <1>1, ScenariosAssumption DEF TypeInv, TypeOK
    <3> QED BY <2>1, <3>1 DEF AnnouncedInv, Scenario
  <2>3. \A a \in 1 .. Len(announced) : announced[a] \in PortRange
    BY <2>2, ElementOfSeq, LenProperties
  <2>4. \A p \in PortRange : p - StartPort \in Index /\ p \in Int
    BY <1>1, RangeFacts
  <2>5. \A k \in Index : StartPort + k \in PortRange /\ (StartPort + k) - StartPort = k
    <3>1. StartPort \in Int /\ EndPort \in Int /\ NumPorts = EndPort - StartPort + 1
      BY <1>1, RangeFacts DEF NumPorts
    <3> QED BY <3>1 DEF Index, PortRange
  <2>6. \A a \in 1 .. Len(announced) : announced[a] \in OpenPorts
    <3> SUFFICES ASSUME NEW a \in 1 .. Len(announced) PROVE announced[a] \in OpenPorts
      OBVIOUS
    <3>1. ~config.json /\ announced[a] \in PortRange
      BY <2>1, <2>3 DEF AnnouncedInv
    <3>2. open_ports[announced[a] - StartPort]
      BY <2>1, <3>1 DEF AnnouncedInv
    <3> QED BY <2>1, <3>1, <3>2 DEF FoundInv
  <2>7. ASSUME ~config.json
        PROVE  {k \in Index : open_ports[k]}
                 = {announced[a] - StartPort : a \in 1 .. Len(announced)}
    <3>1. \A p \in PortRange :
            open_ports[p - StartPort] <=> \E a \in 1 .. Len(announced) : announced[a] = p
      BY <2>1, <2>7 DEF AnnouncedInv
    <3>2. ASSUME NEW k \in Index, open_ports[k]
          PROVE  \E a \in 1 .. Len(announced) : announced[a] - StartPort = k
      <4>1. \E a \in 1 .. Len(announced) : announced[a] = StartPort + k
        BY <2>5, <3>1, <3>2
      <4> QED BY <2>5, <4>1
    <3>3. ASSUME NEW a \in 1 .. Len(announced)
          PROVE  announced[a] - StartPort \in Index /\ open_ports[announced[a] - StartPort]
      BY <2>3, <2>4, <3>1
    <3> QED BY <3>2, <3>3
  <2> QED BY <2>2, <2>6, <2>7 DEF AnnouncedOnce
<1> QED BY <1>1, IInvariant, TruthInvariant, PTL DEF IInv

-------------------------------------------------------------------------------
(* The report.  Below the last port of all, the loops over the ports end   *)
(* one past the range and never look beyond the arrays.                    *)
LowEnd == EndPort < PortMod - 1

ListedInv ==
  /\ port \in StartPort .. EndPort + 1
  /\ listed \in Seq(PortRange)
  /\ pc \notin {"report", "done"} => listed = <<>>
  /\ pc = "done" /\ Reports => port = EndPort + 1
  /\ \A a, b \in 1 .. Len(listed) : a < b => listed[a] < listed[b]
  /\ \A a \in 1 .. Len(listed) : listed[a] < port
  /\ ~config.udp => \A a \in 1 .. Len(listed) : open_ports[listed[a] - StartPort]
  /\ config.udp /\ ~config.shared /\ pc \in {"report", "done"} =>
       \A p \in PortRange : p < port /\ p \in OpenPorts =>
         \E a \in 1 .. Len(listed) : listed[a] = p

LEMMA ListedInit == Init => ListedInv
<1> SUFFICES ASSUME Init PROVE ListedInv
  OBVIOUS
<1>1. StartPort \in Int /\ EndPort \in Int /\ StartPort <= EndPort
  BY TypeInit, RangeFacts, ConfigFacts DEF Init
<1>2. port = StartPort /\ listed = <<>> /\ pc = "shuffle"
  BY DEF Init
<1> QED BY <1>1, <1>2 DEF ListedInv

(* Most steps leave the report alone. *)
LEMMA ListedFrame ==
  ASSUME TypeInv, [Next]_vars
  PROVE  \/ UNCHANGED <<listed, port>> /\ pc \notin {"report", "done"}
            /\ pc' \notin {"report", "done"}
         \/ UNCHANGED <<listed, port, pc, open_ports>>
         \/ WaitEnd \/ GrabBanner \/ BannersEnd \/ Report \/ ReportEnd
<1>1. Shuffle \/ ShuffleEnd \/ Refill \/ BeginSleep \/ Wake \/ SendProbe \/ ScanEnd \/ WaitMore
      \/ PollReturns
        => /\ UNCHANGED <<listed, port>> /\ pc \notin {"report", "done"}
           /\ pc' \notin {"report", "done"}
  BY DEF Shuffle, ShuffleEnd, Refill, BeginSleep, Wake, SendProbe, ScanEnd, WaitMore, PollReturns,
         output
<1>2. resume \notin {"report", "done"}
  BY DEF TypeInv, TypeOK
<1>3. Drain \/ DrainEnd
        => /\ UNCHANGED <<listed, port>> /\ pc \notin {"report", "done"}
           /\ pc' \notin {"report", "done"}
  BY <1>2 DEF Drain, DrainEnd, output
<1>4. Tick \/ ArriveAnswer \/ ArriveShared \/ ArriveOther \/ UNCHANGED vars
        => UNCHANGED <<listed, port, pc, open_ports>>
  BY DEF Tick, ArriveAnswer, ArriveShared, ArriveOther, Enqueue, vars, output, found
<1> QED BY <1>1, <1>3, <1>4 DEF Next, Process, Terminated

(* A port more is looked at. *)
LEMMA NextPortFacts ==
  ASSUME TypeInv, LowEnd, port \in StartPort .. EndPort + 1, MorePorts
  PROVE  /\ port \in PortRange /\ NextPort = port + 1 /\ NextPort \in StartPort .. EndPort + 1
         /\ IndexOf(port) = port - StartPort /\ port - StartPort \in Index
<1>1. StartPort \in Port /\ EndPort \in Port /\ PortMod \in Nat
  BY ConfigFacts, ConstantFacts DEF TypeInv, TypeOK
<1>2. StartPort \in Nat /\ EndPort \in Nat
  BY <1>1 DEF Port
<1>3. port \in Int /\ StartPort <= port /\ port <= EndPort /\ EndPort < PortMod - 1
  BY <1>2 DEF MorePorts, LowEnd
<1>4. port \in PortRange
  BY <1>2, <1>3 DEF PortRange
<1>5. port + 1 \in 0 .. PortMod - 1
  BY <1>1, <1>2, <1>3
<1>6. (port + 1) % PortMod = port + 1
  BY <1>1, <1>5
<1>7. NextPort = port + 1 /\ NextPort \in StartPort .. EndPort + 1
  BY <1>2, <1>3, <1>6 DEF NextPort
<1> QED BY <1>4, <1>7, RangeFacts

LEMMA ListedReport ==
  ASSUME TypeInv, FoundInv, LowEnd, ListedInv, Report
  PROVE  ListedInv'
<1>1. /\ pc = "report" /\ MorePorts /\ UNCHANGED <<config, pc, open_ports>> /\ port' = NextPort
      /\ \E open \in Reads(open_ports, IndexOf(port)), closed \in Reads(closed_ports, IndexOf(port)),
            banner \in Reads(banners, IndexOf(port)) :
           listed' = IF Lists(open, closed, banner) THEN Append(listed, port) ELSE listed
  BY DEF Report, found
<1>2. UNCHANGED <<StartPort, EndPort, PortRange>>
  BY <1>1 DEF StartPort, PortRange, EndPort
<1>3. /\ port \in PortRange /\ port' = port + 1 /\ port' \in StartPort .. EndPort + 1
      /\ IndexOf(port) = port - StartPort /\ port - StartPort \in Index
  BY <1>1, NextPortFacts DEF ListedInv
<1>4. PICK banner : listed' = IF Lists(open_ports[port - StartPort], closed_ports[port - StartPort],
                                       banner)
                              THEN Append(listed, port) ELSE listed
  BY <1>1, <1>3 DEF Reads
<1>5. /\ ~config.udp /\ Lists(open_ports[port - StartPort], closed_ports[port - StartPort], banner)
           => open_ports[port - StartPort]
      /\ config.udp => (Lists(open_ports[port - StartPort], closed_ports[port - StartPort], banner)
                          <=> ~closed_ports[port - StartPort])
  <2>1. open_ports[port - StartPort] \in BOOLEAN /\ closed_ports[port - StartPort] \in BOOLEAN
    BY <1>3 DEF TypeInv, TypeOK
  <2> QED BY <2>1 DEF Lists
<1>6. StartPort \in Int /\ EndPort \in Int /\ port \in Int /\ PortRange \subseteq Int
  BY <1>3, RangeFacts DEF PortRange
<1>7. /\ listed \in Seq(PortRange) /\ Len(listed) \in Nat
      /\ \A a, b \in 1 .. Len(listed) : a < b => listed[a] < listed[b]
      /\ \A a \in 1 .. Len(listed) : listed[a] < port /\ listed[a] \in PortRange
      /\ ~config.udp => \A a \in 1 .. Len(listed) : open_ports[listed[a] - StartPort]
      /\ config.udp /\ ~config.shared =>
           \A p \in PortRange : p < port /\ p \in OpenPorts =>
             \E a \in 1 .. Len(listed) : listed[a] = p
  BY <1>1, ElementOfSeq, LenProperties DEF ListedInv
<1>8. \A p \in PortRange : p < port + 1 => p < port \/ p = port
  BY <1>6
<1>9. config.udp /\ ~config.shared /\ port \in OpenPorts => ~closed_ports[port - StartPort]
  BY <1>3 DEF FoundInv
<1>10. ASSUME NEW a \in 1 .. Len(listed) PROVE listed[a] < port + 1
  <2>1. listed[a] \in Int /\ listed[a] < port
    BY <1>6, <1>7
  <2> QED BY <1>6, <2>1
<1>11. CASE listed' = listed /\ (config.udp => closed_ports[port - StartPort])
  <2>1. \A a \in 1 .. Len(listed) : listed[a] < port + 1
    BY <1>10
  <2>2. config.udp /\ ~config.shared =>
          \A p \in PortRange : p < port + 1 /\ p \in OpenPorts =>
            \E a \in 1 .. Len(listed) : listed[a] = p
    BY <1>7, <1>8, <1>9, <1>11
  <2> QED BY <1>1, <1>2, <1>3, <1>7, <1>11, <2>1, <2>2 DEF ListedInv
<1>12. CASE listed' = Append(listed, port) /\ (~config.udp => open_ports[port - StartPort])
  <2> DEFINE n == Len(listed) + 1
  <2>1. /\ listed' \in Seq(PortRange) /\ Len(listed') = n
        /\ \A a \in 1 .. Len(listed) : listed'[a] = listed[a]
        /\ listed'[n] = port
        /\ \A a \in 1 .. n : a \in 1 .. Len(listed) \/ a = n
        /\ \A a \in 1 .. Len(listed) : a \in 1 .. n /\ a < n
        /\ n \in 1 .. n
    <3>1. /\ listed' \in Seq(PortRange) /\ Len(listed') = n
          /\ \A a \in 1 .. Len(listed) : listed'[a] = listed[a]
          /\ listed'[n] = port
      BY <1>3, <1>7, <1>12, AppendProperties
    <3>2. n \in Nat /\ n >= 1
      BY <1>7
    <3>3. \A a \in 1 .. Len(listed) : a \in 1 .. n /\ a < n
      BY <1>7
    <3>4. \A a \in 1 .. n : a \in 1 .. Len(listed) \/ a = n
      BY <1>7
    <3> QED BY <3>1, <3>2, <3>3, <3>4
  <2>2. n \in Nat
    BY <1>7
  <2> HIDE DEF n
  <2>3. ASSUME NEW a \in 1 .. n, NEW b \in 1 .. n, a < b PROVE listed'[a] < listed'[b]
    <3>1. a \in 1 .. Len(listed)
      BY <2>1, <2>2, <2>3
    <3>2. CASE b \in 1 .. Len(listed)
      BY <1>7, <2>1, <2>3, <3>1, <3>2
    <3>3. CASE b = n
      BY <1>7, <2>1, <3>1, <3>3
    <3> QED BY <2>1, <3>2, <3>3
  <2>4. ASSUME NEW a \in 1 .. n PROVE listed'[a] < port + 1
    <3>1. CASE a \in 1 .. Len(listed)
      BY <1>10, <2>1, <3>1
    <3>2. CASE a = n
      BY <1>6, <2>1, <3>2
    <3> QED BY <2>1, <3>1, <3>2
  <2>5. ~config.udp => \A a \in 1 .. n : open_ports[listed'[a] - StartPort]
    BY <1>7, <1>12, <2>1
  <2>6. config.udp /\ ~config.shared =>
          \A p \in PortRange : p < port + 1 /\ p \in OpenPorts =>
            \E a \in 1 .. n : listed'[a] = p
    <3> SUFFICES ASSUME config.udp, ~config.shared, NEW p \in PortRange, p < port + 1, p \in OpenPorts
                 PROVE  \E a \in 1 .. n : listed'[a] = p
      OBVIOUS
    <3>1. CASE p = port
      BY <2>1, <3>1
    <3>2. CASE p < port
      <4>1. PICK a \in 1 .. Len(listed) : listed[a] = p
        BY <1>7, <3>2
      <4> QED BY <2>1, <4>1
    <3> QED BY <1>8, <3>1, <3>2
  <2> QED BY <1>1, <1>2, <1>3, <2>1, <2>3, <2>4, <2>5, <2>6 DEF ListedInv
<1> QED BY <1>4, <1>5, <1>11, <1>12

LEMMA ListedStep == IInv /\ TruthInv /\ LowEnd /\ ListedInv /\ [Next]_vars => ListedInv'
<1> SUFFICES ASSUME TypeInv, TruthInv, LowEnd, ListedInv, [Next]_vars PROVE ListedInv'
  BY DEF IInv
<1>1. UNCHANGED <<config, StartPort, EndPort, PortRange>>
  BY Frame DEF TypeInv, TypeOK
<1>2. StartPort \in Int /\ EndPort \in Int /\ StartPort <= EndPort
  BY RangeFacts, ConfigFacts DEF TypeInv, TypeOK
<1>3. CASE /\ UNCHANGED <<listed, port>> /\ pc \notin {"report", "done"}
           /\ pc' \notin {"report", "done"}
  <2>1. listed = <<>> /\ listed' = <<>>
    BY <1>3 DEF ListedInv
  <2>2. port' \in StartPort' .. EndPort' + 1
    BY <1>1, <1>3 DEF ListedInv
  <2> QED BY <1>3, <2>1, <2>2 DEF ListedInv
<1>4. CASE UNCHANGED <<listed, port, pc, open_ports>>
  BY <1>1, <1>4 DEF ListedInv, Reports
<1>5. CASE WaitEnd \/ BannersEnd
  <2>1. pc \in {"wait", "banner"} /\ pc' \in {"banner", "report"} /\ port' = StartPort
        /\ listed' = listed
    BY <1>5 DEF WaitEnd, BannersEnd
  <2>2. listed = <<>> /\ listed' = <<>>
    BY <2>1 DEF ListedInv
  <2>3. port' \in StartPort' .. EndPort' + 1
    BY <1>1, <1>2, <2>1
  <2>4. \A p \in PortRange' : ~(p < port')
    BY <1>1, <1>2, <2>1 DEF PortRange
  <2> QED BY <2>1, <2>2, <2>3, <2>4 DEF ListedInv
<1>6. CASE GrabBanner
  <2>1. pc = "banner" /\ pc' = pc /\ MorePorts /\ port' = NextPort /\ listed' = listed
    BY <1>6 DEF GrabBanner
  <2>2. listed = <<>> /\ listed' = <<>>
    BY <2>1 DEF ListedInv
  <2>3. port' \in StartPort' .. EndPort' + 1
    BY <1>1, <2>1, NextPortFacts DEF ListedInv
  <2> QED BY <2>1, <2>2, <2>3 DEF ListedInv
<1>7. CASE Report
  BY <1>7, ListedReport DEF TruthInv
<1>8. CASE ReportEnd
  <2>1. /\ pc = "report" /\ pc' = "done" /\ ~(Reports /\ MorePorts)
        /\ UNCHANGED <<listed, port, open_ports>>
    BY <1>8 DEF ReportEnd, output, found
  <2>2. Reports => port = EndPort + 1
    BY <1>2, <2>1 DEF ListedInv, MorePorts
  <2>3. Reports' = Reports /\ (config.udp => Reports)
    BY <1>1 DEF Reports
  <2> QED BY <1>1, <2>1, <2>2, <2>3 DEF ListedInv
<1> QED BY <1>3, <1>4, <1>5, <1>6, <1>7, <1>8, ListedFrame

LEMMA ListedInvariant == Spec => [](LowEnd => ListedInv)
<1>1. Init => (LowEnd => ListedInv)
  BY ListedInit
<1>2. IInv /\ TruthInv /\ (LowEnd => ListedInv) /\ [Next]_vars => (LowEnd => ListedInv)'
  <2> SUFFICES ASSUME IInv, TruthInv, LowEnd => ListedInv, [Next]_vars, LowEnd' PROVE ListedInv'
    OBVIOUS
  <2>1. UNCHANGED EndPort
    BY Frame DEF IInv, TypeInv, TypeOK
  <2>2. LowEnd
    BY <2>1 DEF LowEnd
  <2> QED BY <2>2, ListedStep
<1> QED BY <1>1, <1>2, IInvariant, TruthInvariant, PTL DEF Spec

(* The report of a range that ends below the last port of all is in order  *)
(* and names a port at most once; it names open ports only, and with -u    *)
(* every open port, whatever answers were lost.                            *)
THEOREM ReportIsSound == Spec => [](LowEnd => ReportSound)
<1>1. ASSUME IInv, TruthInv, LowEnd, ListedInv PROVE ReportSound
  <2> DEFINE L == {listed[a] : a \in 1 .. Len(listed)}
  <2>1. /\ listed \in Seq(PortRange)
        /\ \A a, b \in 1 .. Len(listed) : a < b => listed[a] < listed[b]
    BY <1>1 DEF ListedInv
  <2>2. ASSUME ~config.shared, config.udp, pc = "done", NEW p \in PortRange, p \in OpenPorts
        PROVE  p \in L
    <3>1. p < port
      <4> Reports
        BY <2>2 DEF Reports
      <4>1. port = EndPort + 1 /\ EndPort \in Int /\ StartPort \in Int
        BY <1>1, <2>2, RangeFacts DEF ListedInv, IInv
      <4> QED BY <4>1 DEF PortRange
    <3> QED BY <1>1, <2>2, <3>1 DEF ListedInv
  <2>3. ASSUME ~config.shared, ~config.udp, NEW a \in 1 .. Len(listed)
        PROVE  listed[a] \in OpenPorts /\ listed[a] \in answered
    <3>1. listed[a] \in PortRange
      BY <2>1, ElementOfSeq, LenProperties
    <3>2. open_ports[listed[a] - StartPort]
      BY <1>1, <2>3 DEF ListedInv
    <3> QED BY <1>1, <2>3, <3>1, <3>2 DEF TruthInv, FoundInv
  <2>4. PortRange = StartPort .. EndPort
    BY DEF PortRange
  <2>5. ~config.shared => IF config.udp
          THEN pc = "done" => (StartPort .. EndPort) \cap OpenPorts \subseteq L
          ELSE L \subseteq OpenPorts \cap answered
    BY <2>2, <2>3, <2>4
  <2> QED BY <2>1, <2>5 DEF ReportSound
<1> QED BY <1>1, IInvariant, TruthInvariant, ListedInvariant, PTL

-------------------------------------------------------------------------------
(* The scan does not go round in circles.                                  *)

(* The first component that differs is smaller.                            *)
Lower(a, b) == \E k \in DOMAIN b : a[k] < b[k] /\ \A j \in 1 .. k - 1 : a[j] = b[j]

LEMMA LowerFive ==
  ASSUME NEW a1, NEW a2, NEW a3, NEW a4, NEW a5, NEW b1, NEW b2, NEW b3, NEW b4, NEW b5,
         \/ a1 < b1
         \/ a1 = b1 /\ a2 < b2
         \/ a1 = b1 /\ a2 = b2 /\ a3 < b3
         \/ a1 = b1 /\ a2 = b2 /\ a3 = b3 /\ a4 < b4
         \/ a1 = b1 /\ a2 = b2 /\ a3 = b3 /\ a4 = b4 /\ a5 < b5
  PROVE  Lower(<<a1, a2, a3, a4, a5>>, <<b1, b2, b3, b4, b5>>)
<1> DEFINE a == <<a1, a2, a3, a4, a5>>
           b == <<b1, b2, b3, b4, b5>>
<1>1. /\ a[1] = a1 /\ a[2] = a2 /\ a[3] = a3 /\ a[4] = a4 /\ a[5] = a5
      /\ b[1] = b1 /\ b[2] = b2 /\ b[3] = b3 /\ b[4] = b4 /\ b[5] = b5
      /\ DOMAIN b = 1 .. 5
  OBVIOUS
<1> HIDE DEF a, b
<1>2. /\ 1 .. 1 - 1 = {} /\ 1 .. 2 - 1 = {1} /\ 1 .. 3 - 1 = {1, 2} /\ 1 .. 4 - 1 = {1, 2, 3}
      /\ 1 .. 5 - 1 = {1, 2, 3, 4} /\ {1, 2, 3, 4, 5} \subseteq 1 .. 5
  OBVIOUS
<1>3. Lower(a, b)
  <2>1. CASE a1 < b1
    BY <2>1, <1>1, <1>2 DEF Lower
  <2>2. CASE a1 = b1 /\ a2 < b2
    BY <2>2, <1>1, <1>2 DEF Lower
  <2>3. CASE a1 = b1 /\ a2 = b2 /\ a3 < b3
    BY <2>3, <1>1, <1>2 DEF Lower
  <2>4. CASE a1 = b1 /\ a2 = b2 /\ a3 = b3 /\ a4 < b4
    BY <2>4, <1>1, <1>2 DEF Lower
  <2>5. CASE a1 = b1 /\ a2 = b2 /\ a3 = b3 /\ a4 = b4 /\ a5 < b5
    BY <2>5, <1>1, <1>2 DEF Lower
  <2> QED BY <2>1, <2>2, <2>3, <2>4, <2>5
<1> QED BY <1>3 DEF a, b

Positive(x) == IF x > 0 THEN x ELSE 0

(* What the bucket lacks of a token at t, if it was filled last at since,  *)
(* and what the wait for late answers lacks of -W.                         *)
Short(rate, held, since, t) == IF rate = 0 THEN 0 ELSE Positive(NsPerS - held - rate * (t - since))
Late(begun, t) == Positive(begun + Timeout - t)

LEMMA ShortFacts ==
  ASSUME NEW rate \in Nat, NEW held \in Nat, NEW since \in Nat, NEW t \in Nat, NEW u \in Nat, t <= u
  PROVE  /\ Short(rate, held, since, t) \in Nat
         /\ Short(rate, held, since, u) <= Short(rate, held, since, t)
         /\ t < u /\ Short(rate, held, since, t) > 0
              => Short(rate, held, since, u) < Short(rate, held, since, t)
<1> DEFINE p == rate * (t - since)
           q == rate * (u - since)
           d == rate * (u - t)
<1>1. p \in Int /\ q \in Int /\ d \in Nat /\ q = p + d
  OBVIOUS
<1>2. rate > 0 /\ t < u => d > 0
  OBVIOUS
<1>3. NsPerS \in Nat
  BY ConstantFacts
<1>4. Short(rate, held, since, t) = (IF rate = 0 THEN 0 ELSE Positive(NsPerS - held - p))
      /\ Short(rate, held, since, u) = (IF rate = 0 THEN 0 ELSE Positive(NsPerS - held - q))
  BY DEF Short
<1> HIDE DEF p, q, d
<1> QED BY <1>1, <1>2, <1>3, <1>4 DEF Positive

LEMMA LateFacts ==
  ASSUME NEW begun \in Nat, NEW t \in Nat, NEW u \in Nat, t <= u
  PROVE  /\ Late(begun, t) \in Nat
         /\ Late(begun, u) <= Late(begun, t)
         /\ t < u /\ Late(begun, t) > 0 => Late(begun, u) < Late(begun, t)
BY ConstantFacts DEF Late, Positive

AfterScan == pc = "drain" /\ resume = "wait"
ShortNow  == Short(config.rate, tokens, last_time, clock)
ShortThen == Short(config.rate, tokens, last_time, wake_at)

(* The stages of a run, and what a stage has left to do. *)
Stage ==
  CASE pc = "shuffle"                        -> 5
    [] pc \in {"wait", "poll"} \/ AfterScan  -> 3
    [] pc = "banner"                         -> 2
    [] pc = "report"                         -> 1
    [] pc = "done"                           -> 0
    [] OTHER                                 -> 4

Work ==
  CASE Stage = 5        -> i
    [] Stage = 4        -> NumPorts - i
    [] Stage \in {1, 2} -> Positive(EndPort + 1 - port)
    [] OTHER            -> 0

PacketsLeft == config.max_arrivals - arrivals + Len(sockbuf)

(* How long the bucket or the wait still takes: twice, so that the step to *)
(* sleep and the step from it both count.                                  *)
WaitLeft ==
  CASE Stage = 4 /\ pc = "asleep" -> IF ShortThen = 0 THEN 0 ELSE 2 * ShortThen + 1
    [] Stage = 4 /\ pc # "asleep" -> 2 * ShortNow
    [] pc = "wait"                -> 2 * Late(start_wait, clock)
    [] pc = "poll"                -> 2 * Late(start_wait, wake_at) + 1
    [] AfterScan                  -> IF sockbuf = <<>> THEN 2 * Late(start_wait, clock) + 1 ELSE 0
    [] OTHER                      -> 0

Phase ==
  CASE pc = "drain"   -> IF resume = "next" THEN 6 ELSE 4
    [] pc = "next"    -> IF ShortNow > 0 THEN 5 ELSE IF config.rate > 0 /\ tokens < NsPerS THEN 1 ELSE 0
    [] pc = "sleep"   -> 3
    [] pc = "asleep"  -> 2
    [] OTHER          -> 0

Measure == <<Stage, Work, PacketsLeft, WaitLeft, Phase>>

(* One step further. *)
Further ==
  \/ Stage' < Stage
  \/ Stage' = Stage /\ Work' < Work
  \/ Stage' = Stage /\ Work' = Work /\ PacketsLeft' < PacketsLeft
  \/ Stage' = Stage /\ Work' = Work /\ PacketsLeft' = PacketsLeft /\ WaitLeft' < WaitLeft
  \/ /\ Stage' = Stage /\ Work' = Work /\ PacketsLeft' = PacketsLeft /\ WaitLeft' = WaitLeft
     /\ Phase' < Phase

Advances ==
  /\ Process => Lower(Measure', Measure)
  /\ Lower(Measure', Measure) \/ Measure' = Measure

LEMMA FurtherLowers ==
  ASSUME Further
  PROVE  Lower(Measure', Measure)
<1> DEFINE a1 == Stage'
           a2 == Work'
           a3 == PacketsLeft'
           a4 == WaitLeft'
           a5 == Phase'
           b1 == Stage
           b2 == Work
           b3 == PacketsLeft
           b4 == WaitLeft
           b5 == Phase
<1>1. \/ a1 < b1
      \/ a1 = b1 /\ a2 < b2
      \/ a1 = b1 /\ a2 = b2 /\ a3 < b3
      \/ a1 = b1 /\ a2 = b2 /\ a3 = b3 /\ a4 < b4
      \/ a1 = b1 /\ a2 = b2 /\ a3 = b3 /\ a4 = b4 /\ a5 < b5
  BY DEF Further
<1>2. Measure' = <<a1, a2, a3, a4, a5>> /\ Measure = <<b1, b2, b3, b4, b5>>
  BY DEF Measure
<1> HIDE DEF a1, a2, a3, a4, a5, b1, b2, b3, b4, b5
<1>3. Lower(<<a1, a2, a3, a4, a5>>, <<b1, b2, b3, b4, b5>>)
  BY <1>1, LowerFive
<1> QED BY <1>2, <1>3

LEMMA MeasureFacts ==
  ASSUME TypeInv
  PROVE  /\ StartPort \in Int /\ EndPort \in Int /\ NumPorts \in Nat /\ port \in Int /\ i \in 0 .. NumPorts
         /\ config.rate \in Nat /\ tokens \in Nat /\ last_time \in Nat
         /\ clock \in Nat /\ wake_at \in Nat /\ start_wait \in Nat /\ NsPerS \in Nat
         /\ resume \in {"next", "sleep", "wait"}
         /\ ShortNow \in Nat /\ ShortThen \in Nat
         /\ Late(start_wait, clock) \in Nat /\ Late(start_wait, wake_at) \in Nat
         /\ Stage \in 0 .. 5 /\ Work \in Nat /\ WaitLeft \in Nat /\ Phase \in Nat
<1>1. /\ StartPort \in Int /\ EndPort \in Int /\ NumPorts \in Nat /\ i \in 0 .. NumPorts /\ port \in Int
      /\ config.rate \in Nat /\ tokens \in Nat /\ last_time \in Nat /\ clock \in Nat /\ NsPerS \in Nat
      /\ resume \in {"next", "sleep", "wait"}
  BY RangeFacts, BucketFacts, ConfigFacts DEF TypeInv, TypeOK
<1>2. /\ wake_at \in Nat /\ start_wait \in Nat
      /\ clock <= clock /\ wake_at <= wake_at
  BY <1>1 DEF TypeInv, TypeOK
<1>3. ShortNow \in Nat /\ ShortThen \in Nat
  BY <1>1, <1>2, ShortFacts DEF ShortNow, ShortThen
<1>4. Late(start_wait, clock) \in Nat /\ Late(start_wait, wake_at) \in Nat
  BY <1>1, <1>2, LateFacts
<1>5. Stage \in 0 .. 5
  BY DEF Stage
<1>6. Work \in Nat
  <2>1. Positive(EndPort + 1 - port) \in Nat
    BY <1>1 DEF Positive
  <2>2. i \in Nat /\ NumPorts - i \in Nat
    BY <1>1
  <2> QED BY <2>1, <2>2 DEF Work
<1>7. WaitLeft \in Nat
  <2> DEFINE late   == Late(start_wait, clock)
             asleep == Late(start_wait, wake_at)
  <2>1. {0, 2 * ShortNow, 2 * ShortThen + 1} \subseteq Nat
    BY <1>3
  <2>2. late \in Nat /\ asleep \in Nat
    BY <1>4
  <2>3. WaitLeft \in {0, 2 * ShortNow, 2 * ShortThen + 1, 2 * late, 2 * late + 1, 2 * asleep + 1}
    BY DEF WaitLeft
  <2> HIDE DEF late, asleep
  <2> QED BY <2>1, <2>2, <2>3
<1>8. Phase \in Nat
  BY DEF Phase
<1> QED BY <1>1, <1>2, <1>3, <1>4, <1>5, <1>6, <1>7, <1>8

LEMMA MeasureIsNatural ==
  ASSUME TypeInv, PacketsInv
  PROVE  \A k \in 1 .. 5 : Measure[k] \in Nat
<1>1. PacketsLeft \in Nat
  <2>1. Len(sockbuf) \in Nat
    BY LenProperties DEF PacketsInv
  <2>2. arrivals \in 0 .. config.max_arrivals /\ config.max_arrivals \in Nat
    BY ConfigFacts DEF TypeInv, TypeOK
  <2> QED BY <2>1, <2>2 DEF PacketsLeft
<1> QED BY <1>1, MeasureFacts DEF Measure

LEMMA StageAdvances ==
  ASSUME TypeInv, ShuffleEnd \/ ScanEnd \/ WaitEnd \/ BannersEnd \/ ReportEnd
  PROVE  Further
<1>1. Stage' < Stage
  BY DEF ShuffleEnd, ScanEnd, WaitEnd, BannersEnd, ReportEnd, Stage, AfterScan
<1> QED BY <1>1 DEF Further

LEMMA WorkAdvances ==
  ASSUME TypeInv, LowEnd, Shuffle \/ SendProbe \/ GrabBanner \/ Report
  PROVE  Further
<1>0. UNCHANGED <<config, StartPort, EndPort, NumPorts>>
  BY Frame DEF TypeInv, TypeOK, Next, Process
<1>1. CASE Shuffle
  <2>1. pc = "shuffle" /\ pc' = pc /\ i > 0 /\ i' = i - 1
    BY <1>1 DEF Shuffle
  <2>2. Stage = 5 /\ Stage' = 5 /\ Work' < Work
    BY <2>1, MeasureFacts DEF Stage, Work, AfterScan
  <2> QED BY <2>2 DEF Further
<1>2. CASE SendProbe
  <2>1. pc = "next" /\ pc' = "drain" /\ resume' # "wait" /\ i < NumPorts /\ i' = i + 1
    BY <1>2 DEF SendProbe
  <2>2. Stage = 4 /\ Stage' = 4
    BY <2>1 DEF Stage, AfterScan
  <2>3. Work' < Work
    BY <1>0, <2>1, <2>2, MeasureFacts DEF Work
  <2> QED BY <2>2, <2>3 DEF Further
<1>3. CASE GrabBanner \/ Report
  <2>1. pc \in {"banner", "report"} /\ pc' = pc /\ MorePorts /\ port' = NextPort
    BY <1>3 DEF GrabBanner, Report
  <2>2. Stage \in {1, 2} /\ Stage' = Stage
    BY <2>1 DEF Stage, AfterScan
  <2>3. port \in Nat /\ port <= EndPort /\ EndPort < PortMod - 1 /\ PortMod \in Nat /\ EndPort \in Int
    BY <2>1, MeasureFacts, ConstantFacts DEF MorePorts, LowEnd, TypeInv, TypeOK, Port
  <2>4. port + 1 \in 0 .. PortMod - 1
    BY <2>3
  <2>5. (port + 1) % PortMod = port + 1
    BY <2>3, <2>4
  <2>6. port' = port + 1
    BY <2>1, <2>5 DEF NextPort
  <2>7. Positive(EndPort + 1 - port') < Positive(EndPort + 1 - port)
    BY <2>3, <2>6 DEF Positive
  <2>8. Work' = Positive(EndPort + 1 - port') /\ Work = Positive(EndPort + 1 - port)
    BY <1>0, <2>2 DEF Work
  <2> QED BY <2>2, <2>7, <2>8 DEF Further
<1> QED BY <1>1, <1>2, <1>3

(* A refill brings what was due by now: the bucket lacks as much after it, *)
(* and if it has a token that is sent next.                                *)
LEMMA RefillAdvances ==
  ASSUME TypeInv, ClockInv, Refill
  PROVE  Further
<1>1. /\ pc = "next" /\ config.rate > 0 /\ tokens < NsPerS
      /\ tokens' = Refilled(last_time) /\ last_time' = clock
      /\ \/ tokens' < NsPerS /\ pc' = "drain" /\ resume' = "sleep"
         \/ ~(tokens' < NsPerS) /\ pc' = "next" /\ resume' = resume
      /\ UNCHANGED <<config, clock, i, sockbuf, arrivals>>
  BY DEF Refill, RefillTime, world, One
<1>2. config.rate \in Nat /\ tokens \in Nat /\ tokens' \in Nat /\ NsPerS \in Nat
      /\ clock \in Nat /\ last_time \in Nat /\ Burst * NsPerS \in Nat /\ NsPerS <= Burst * NsPerS
  BY MeasureFacts, BucketFacts, RefillFacts
<1>3. UNCHANGED NumPorts
  BY Frame DEF TypeInv, TypeOK, Next, Process
<1>4. Stage = 4 /\ Stage' = 4 /\ Work' = Work /\ PacketsLeft' = PacketsLeft
  BY <1>1, <1>3 DEF Stage, AfterScan, Work, PacketsLeft
<1>5. ShortNow' = ShortNow /\ (tokens' < NsPerS <=> ShortNow > 0)
  <2> DEFINE p == config.rate * (clock - last_time)
  <2>1. p \in Int /\ (clock - last_time) * config.rate = p /\ config.rate * (clock - clock) = 0
    BY <1>2
  <2>2. tokens' = IF tokens + p > Burst * NsPerS THEN Burst * NsPerS ELSE tokens + p
    BY <1>1, <2>1 DEF Refilled, One
  <2>3. ShortNow = Positive(NsPerS - tokens - p)
    BY <1>1, <1>2 DEF ShortNow, Short
  <2>4. ShortNow' = Positive(NsPerS - tokens' - config.rate * (clock - clock))
    BY <1>1, <1>2 DEF ShortNow, Short
  <2> HIDE DEF p
  <2>5. ShortNow' = Positive(NsPerS - tokens')
    BY <1>2, <2>1, <2>4
  <2> QED BY <1>2, <2>1, <2>2, <2>3, <2>5 DEF Positive
<1>6. WaitLeft' = WaitLeft
  BY <1>1, <1>4, <1>5 DEF WaitLeft, AfterScan
<1>7. Phase' < Phase
  BY <1>1, <1>2, <1>5, MeasureFacts DEF Phase
<1> QED BY <1>4, <1>6, <1>7 DEF Further

LEMMA SleepAdvances ==
  ASSUME TypeInv, BeginSleep \/ Wake
  PROVE  Further
<1>1. /\ UNCHANGED <<config, resume, i, tokens, last_time, clock, sockbuf, arrivals>>
      /\ pc \in {"sleep", "asleep"} /\ pc' \in {"asleep", "next"}
  BY DEF BeginSleep, Wake, bucket, world
<1>2. UNCHANGED NumPorts
  BY Frame DEF TypeInv, TypeOK, Next, Process
<1>3. Stage = 4 /\ Stage' = 4 /\ Work' = Work /\ PacketsLeft' = PacketsLeft
  BY <1>1, <1>2 DEF Stage, AfterScan, Work, PacketsLeft
<1>4. CASE BeginSleep
  <2>1. /\ pc = "sleep" /\ pc' = "asleep"
        /\ wake_at' = clock + (IF config.rate > 0 THEN SleepNs ELSE 0)
    BY <1>4 DEF BeginSleep
  <2>2. SleepNs \in Nat /\ SleepNs > 0
    BY TimesAssumption
  <2>3. wake_at' \in Nat /\ clock <= wake_at' /\ (config.rate > 0 => clock < wake_at')
    BY <2>1, <2>2, MeasureFacts
  <2>4. ShortThen' = Short(config.rate, tokens, last_time, wake_at')
    BY <1>1 DEF ShortThen
  <2>5. /\ ShortThen' \in Nat /\ ShortThen' <= ShortNow
        /\ ShortNow > 0 => ShortThen' < ShortNow
    <3>1. ShortNow > 0 => config.rate > 0
      BY MeasureFacts DEF ShortNow, Short
    <3>2. /\ Short(config.rate, tokens, last_time, wake_at') <= Short(config.rate, tokens, last_time, clock)
          /\ clock < wake_at' /\ Short(config.rate, tokens, last_time, clock) > 0
               => Short(config.rate, tokens, last_time, wake_at') < Short(config.rate, tokens, last_time, clock)
      BY <2>3, MeasureFacts, ShortFacts
    <3>3. wake_at' <= wake_at'
      BY <2>3
    <3>4. Short(config.rate, tokens, last_time, wake_at') \in Nat
      BY <2>3, <3>3, MeasureFacts, ShortFacts
    <3> QED BY <2>3, <2>4, <3>1, <3>2, <3>4 DEF ShortNow
  <2>6. /\ WaitLeft = 2 * ShortNow
        /\ WaitLeft' = IF ShortThen' = 0 THEN 0 ELSE 2 * ShortThen' + 1
    BY <1>3, <2>1 DEF WaitLeft, AfterScan
  <2>7. WaitLeft' < WaitLeft \/ WaitLeft' = WaitLeft
    BY <2>5, <2>6, MeasureFacts
  <2>8. Phase = 3 /\ Phase' = 2
    BY <2>1 DEF Phase
  <2> QED BY <1>3, <2>7, <2>8 DEF Further
<1>5. CASE Wake
  <2>1. pc = "asleep" /\ pc' = "next" /\ wake_at <= clock
    BY <1>5, MeasureFacts DEF Wake
  <2>2. ShortNow' = ShortNow /\ ShortNow <= ShortThen
    <3>1. ShortNow' = ShortNow
      BY <1>1 DEF ShortNow
    <3> QED BY <2>1, <3>1, MeasureFacts, ShortFacts DEF ShortNow, ShortThen
  <2>3. WaitLeft' = 2 * ShortNow /\ WaitLeft = IF ShortThen = 0 THEN 0 ELSE 2 * ShortThen + 1
    BY <1>3, <2>1, <2>2 DEF WaitLeft, AfterScan
  <2>4. CASE ShortThen = 0
    <3>1. ShortNow = 0
      BY <2>2, <2>4, MeasureFacts
    <3>2. WaitLeft' = WaitLeft /\ Phase = 2 /\ Phase' \in {0, 1}
      BY <2>1, <2>2, <2>3, <2>4, <3>1 DEF Phase
    <3> QED BY <1>3, <3>2 DEF Further
  <2>5. CASE ShortThen # 0
    <3>1. WaitLeft' < WaitLeft
      BY <2>2, <2>3, <2>5, MeasureFacts
    <3> QED BY <1>3, <3>1 DEF Further
  <2> QED BY <2>4, <2>5
<1> QED BY <1>4, <1>5

LEMMA DrainAdvances ==
  ASSUME TypeInv, PacketsInv, Drain \/ DrainEnd
  PROVE  Further
<1>1. /\ pc = "drain" /\ pc' \in {"drain", resume} /\ resume' = resume
      /\ UNCHANGED <<config, i, tokens, last_time, clock, arrivals, start_wait>>
  BY DEF Drain, DrainEnd, bucket, world
<1>2. UNCHANGED NumPorts
  BY Frame DEF TypeInv, TypeOK, Next, Process
<1>3. Stage' = Stage /\ Stage \in {3, 4}
  BY <1>1, MeasureFacts DEF Stage, AfterScan
<1>4. Work' = Work
  BY <1>1, <1>2, <1>3 DEF Work
<1>5. CASE Drain
  <2>1. sockbuf # <<>> /\ sockbuf' = Tail(sockbuf)
    BY <1>5 DEF Drain
  <2>2. Len(sockbuf') = Len(sockbuf) - 1 /\ Len(sockbuf) \in Nat
    BY <2>1, HeadTailProperties, LenProperties DEF PacketsInv
  <2>3. PacketsLeft' < PacketsLeft
    <3>1. arrivals \in Int /\ config.max_arrivals \in Int
      BY ConfigFacts DEF TypeInv, TypeOK
    <3> QED BY <1>1, <2>2, <3>1 DEF PacketsLeft
  <2> QED BY <1>3, <1>4, <2>3 DEF Further
<1>6. CASE DrainEnd
  <2>1. pc' = resume /\ sockbuf = <<>> /\ sockbuf' = sockbuf
    BY <1>6 DEF DrainEnd, world
  <2>2. PacketsLeft' = PacketsLeft
    BY <1>1, <2>1 DEF PacketsLeft
  <2>3. CASE resume = "wait"
    <3>1. Stage = 3
      BY <1>1, <2>3 DEF Stage, AfterScan
    <3>2. WaitLeft = 2 * Late(start_wait, clock) + 1 /\ WaitLeft' = 2 * Late(start_wait, clock)
      BY <1>1, <1>3, <2>1, <2>3, <3>1 DEF WaitLeft, AfterScan
    <3>3. WaitLeft' < WaitLeft
      BY <3>2, MeasureFacts
    <3> QED BY <1>3, <1>4, <2>2, <3>3 DEF Further
  <2>4. CASE resume # "wait"
    <3>1. Stage = 4 /\ pc' \in {"next", "sleep"} /\ ShortNow' = ShortNow
      BY <1>1, <2>1, <2>4, MeasureFacts DEF Stage, AfterScan, ShortNow
    <3>2. WaitLeft = 2 * ShortNow
      BY <1>1, <2>4, <3>1 DEF WaitLeft, AfterScan
    <3>3. WaitLeft' = 2 * ShortNow
      BY <1>3, <3>1 DEF WaitLeft, AfterScan
    <3>4. Phase' < Phase
      <4>1. Phase = (IF resume = "next" THEN 6 ELSE 4)
        BY <1>1 DEF Phase
      <4>2. pc' = "next" => Phase' \in {0, 1, 5}
        BY DEF Phase
      <4>3. pc' = "sleep" => Phase' = 3
        BY DEF Phase
      <4> QED BY <2>1, <3>1, <4>1, <4>2, <4>3
    <3> QED BY <1>3, <1>4, <2>2, <3>2, <3>3, <3>4 DEF Further
  <2> QED BY <2>3, <2>4
<1> QED BY <1>5, <1>6

LEMMA WaitAdvances ==
  ASSUME TypeInv, WaitMore \/ PollReturns
  PROVE  Further
<1>1. /\ UNCHANGED <<config, i, clock, sockbuf, arrivals, start_wait>>
      /\ pc \in {"wait", "poll"} /\ pc' \in {"wait", "poll", "drain"}
      /\ pc' = "drain" => resume' = "wait"
  BY DEF WaitMore, PollReturns, world
<1>2. Stage = 3 /\ Stage' = 3 /\ Work' = Work /\ PacketsLeft' = PacketsLeft
  BY <1>1 DEF Stage, AfterScan, Work, PacketsLeft
<1>3. CASE WaitMore
  <2>1. pc = "wait" /\ pc' = "poll" /\ clock - start_wait < Timeout /\ wake_at' = clock + PollNs
    BY <1>3 DEF WaitMore
  <2>2. PollNs \in Nat /\ PollNs > 0 /\ Timeout \in Nat
    BY TimesAssumption, ConstantFacts
  <2>3. Late(start_wait, clock) > 0
    BY <2>1, <2>2, MeasureFacts DEF Late, Positive
  <2>4. wake_at' \in Nat /\ clock < wake_at' /\ clock <= wake_at' /\ wake_at' <= wake_at'
    BY <2>1, <2>2, MeasureFacts
  <2>5. Late(start_wait, wake_at') < Late(start_wait, clock) /\ Late(start_wait, wake_at') \in Nat
    BY <2>3, <2>4, MeasureFacts, LateFacts
  <2>6. WaitLeft = 2 * Late(start_wait, clock) /\ WaitLeft' = 2 * Late(start_wait, wake_at') + 1
    BY <1>1, <1>2, <2>1 DEF WaitLeft, AfterScan
  <2>7. WaitLeft' < WaitLeft
    BY <2>5, <2>6, MeasureFacts
  <2> QED BY <1>2, <2>7 DEF Further
<1>4. CASE PollReturns /\ sockbuf # <<>>
  <2>1. pc = "poll" /\ pc' = "drain" /\ resume' = "wait"
    BY <1>4 DEF PollReturns
  <2>2. WaitLeft = 2 * Late(start_wait, wake_at) + 1 /\ WaitLeft' = 0
    BY <1>1, <1>2, <1>4, <2>1 DEF WaitLeft, AfterScan
  <2>3. WaitLeft' < WaitLeft
    BY <2>2, MeasureFacts
  <2> QED BY <1>2, <2>3 DEF Further
<1>5. CASE PollReturns /\ sockbuf = <<>>
  <2>1. pc = "poll" /\ pc' = "wait" /\ wake_at <= clock
    BY <1>5, MeasureFacts DEF PollReturns
  <2>2. Late(start_wait, clock) <= Late(start_wait, wake_at)
    BY <2>1, MeasureFacts, LateFacts
  <2>3. WaitLeft = 2 * Late(start_wait, wake_at) + 1 /\ WaitLeft' = 2 * Late(start_wait, clock)
    BY <1>1, <1>2, <2>1 DEF WaitLeft, AfterScan
  <2>4. WaitLeft' < WaitLeft
    BY <2>2, <2>3, MeasureFacts
  <2> QED BY <1>2, <2>4 DEF Further
<1> QED BY <1>3, <1>4, <1>5

LEMMA ScanStepAdvances ==
  ASSUME TypeInv, ClockInv, PacketsInv, LowEnd, Process
  PROVE  Further
BY StageAdvances, WorkAdvances, RefillAdvances, SleepAdvances, DrainAdvances, WaitAdvances DEF Process

(* Time and packets take nothing back. *)
LEMMA TickKeepsMeasure ==
  ASSUME TypeInv, Tick
  PROVE  Further \/ Measure' = Measure
<1>1. /\ UNCHANGED <<config, pc, resume, i, tokens, last_time, start_wait, wake_at, port, sockbuf, arrivals>>
      /\ clock' \in {clock, clock + 1}
  BY DEF Tick, bucket, output
<1>2. UNCHANGED <<StartPort, EndPort, NumPorts>>
  BY Frame DEF TypeInv, TypeOK, Next
<1>3. Stage' = Stage /\ PacketsLeft' = PacketsLeft /\ ShortThen' = ShortThen
  BY <1>1 DEF Stage, AfterScan, PacketsLeft, ShortThen
<1>4. Work' = Work
  BY <1>1, <1>2, <1>3 DEF Work
<1>5. clock \in Nat /\ clock' \in Nat /\ clock <= clock' /\ clock' <= clock'
  BY <1>1, MeasureFacts
<1>6. ShortNow' \in Nat /\ ShortNow' <= ShortNow
  <2>1. ShortNow' = Short(config.rate, tokens, last_time, clock')
    BY <1>1 DEF ShortNow
  <2> QED BY <1>5, <2>1, MeasureFacts, ShortFacts DEF ShortNow
<1>7. Late(start_wait, clock') \in Nat /\ Late(start_wait, clock') <= Late(start_wait, clock)
  BY <1>5, MeasureFacts, LateFacts
<1>8. CASE pc \in {"wait", "poll"} \/ AfterScan
  <2>1. Stage = 3
    BY <1>8 DEF Stage, AfterScan
  <2>2. WaitLeft' < WaitLeft \/ WaitLeft' = WaitLeft
    <3>1. CASE pc = "wait"
      <4>1. WaitLeft = 2 * Late(start_wait, clock) /\ WaitLeft' = 2 * Late(start_wait, clock')
        BY <1>1, <1>3, <2>1, <3>1 DEF WaitLeft, AfterScan
      <4> QED BY <1>7, <4>1, MeasureFacts
    <3>2. CASE pc = "poll"
      BY <1>1, <1>3, <2>1, <3>2 DEF WaitLeft, AfterScan
    <3>3. CASE AfterScan
      <4>1. /\ WaitLeft = IF sockbuf = <<>> THEN 2 * Late(start_wait, clock) + 1 ELSE 0
            /\ WaitLeft' = IF sockbuf = <<>> THEN 2 * Late(start_wait, clock') + 1 ELSE 0
        BY <1>1, <1>3, <2>1, <3>3 DEF WaitLeft, AfterScan
      <4>2. Late(start_wait, clock) \in Nat
        BY MeasureFacts
      <4>3. CASE sockbuf = <<>>
        BY <1>7, <4>1, <4>2, <4>3
      <4>4. CASE sockbuf # <<>>
        BY <4>1, <4>4
      <4> QED BY <4>3, <4>4
    <3> QED BY <1>8, <3>1, <3>2, <3>3
  <2>3. Phase' = Phase
    BY <1>1, <1>8 DEF Phase, AfterScan
  <2> QED BY <1>3, <1>4, <2>2, <2>3 DEF Further, Measure
<1>9. CASE ~(pc \in {"wait", "poll"} \/ AfterScan)
  <2>1. WaitLeft' < WaitLeft \/ (WaitLeft' = WaitLeft /\ (pc = "next" => ShortNow' = ShortNow))
    <3>1. CASE Stage = 4 /\ pc # "asleep"
      <4>1. WaitLeft = 2 * ShortNow /\ WaitLeft' = 2 * ShortNow'
        BY <1>1, <1>3, <1>9, <3>1 DEF WaitLeft, AfterScan
      <4> QED BY <1>6, <4>1, MeasureFacts
    <3>2. CASE Stage = 4 /\ pc = "asleep"
      BY <1>1, <1>3, <1>9, <3>2 DEF WaitLeft, AfterScan
    <3>3. CASE Stage # 4
      <4>1. pc # "next"
        BY <3>3 DEF Stage, AfterScan
      <4> QED BY <1>1, <1>3, <1>9, <3>3, <4>1 DEF WaitLeft, AfterScan
    <3> QED BY <3>1, <3>2, <3>3
  <2>2. (pc = "next" => ShortNow' = ShortNow) => Phase' = Phase
    BY <1>1 DEF Phase
  <2> QED BY <1>3, <1>4, <2>1, <2>2 DEF Further, Measure
<1> QED BY <1>8, <1>9

LEMMA ArrivalKeepsMeasure ==
  ASSUME TypeInv, PacketsInv, ArriveAnswer \/ ArriveShared \/ ArriveOther
  PROVE  Further \/ Measure' = Measure
<1>1. PICK p : Enqueue(p)
  BY DEF ArriveAnswer, ArriveShared, ArriveOther
<1>2. /\ UNCHANGED <<config, pc, resume, i, tokens, last_time, start_wait, wake_at, port, clock>>
      /\ sockbuf' = Append(sockbuf, p) /\ arrivals' = arrivals + 1
  BY <1>1 DEF Enqueue, bucket, output
<1>3. UNCHANGED <<StartPort, EndPort, NumPorts>>
  BY Frame DEF TypeInv, TypeOK, Next
<1>4. Len(sockbuf') = Len(sockbuf) + 1 /\ Len(sockbuf) \in Nat /\ sockbuf' # <<>>
  <2>1. sockbuf \in Seq(PacketType \cup {p})
    BY SeqMonotonic DEF PacketsInv
  <2>2. Len(sockbuf') = Len(sockbuf) + 1 /\ Len(sockbuf) \in Nat
    BY <1>2, <2>1, AppendProperties, LenProperties
  <2>3. sockbuf' # <<>>
    BY <1>2, <2>1, AppendProperties
  <2> QED BY <2>2, <2>3
<1>5. PacketsLeft' = PacketsLeft
  <2>1. arrivals \in Int /\ config.max_arrivals \in Int
    BY ConfigFacts DEF TypeInv, TypeOK
  <2>2. config' = config /\ arrivals' = arrivals + 1
    BY <1>2
  <2>3. Len(sockbuf') = Len(sockbuf) + 1 /\ Len(sockbuf) \in Int
    BY <1>4
  <2> QED BY <2>1, <2>2, <2>3 DEF PacketsLeft
<1>6. Stage' = Stage /\ ShortNow' = ShortNow /\ ShortThen' = ShortThen
  BY <1>2 DEF Stage, AfterScan, ShortNow, ShortThen
<1>7. Work' = Work /\ Phase' = Phase
  BY <1>2, <1>3, <1>6 DEF Work, Phase
<1>8. CASE AfterScan /\ sockbuf = <<>>
  <2>1. Stage = 3
    BY <1>8 DEF Stage, AfterScan
  <2>2. WaitLeft = 2 * Late(start_wait, clock) + 1 /\ WaitLeft' = 0
    BY <1>2, <1>4, <1>6, <1>8, <2>1 DEF WaitLeft, AfterScan
  <2>3. WaitLeft' < WaitLeft
    BY <2>2, MeasureFacts
  <2> QED BY <1>5, <1>6, <1>7, <2>3 DEF Further
<1>9. CASE ~(AfterScan /\ sockbuf = <<>>)
  <2>1. WaitLeft' = WaitLeft
    BY <1>2, <1>4, <1>6, <1>9 DEF WaitLeft, AfterScan
  <2> QED BY <1>5, <1>6, <1>7, <2>1 DEF Measure
<1> QED BY <1>8, <1>9

(* Below the last port of all, whatever the rate, the timing and the       *)
(* packets: every step of the process lowers a tuple of natural numbers -  *)
(* the stage of the run, the ports it has left, packets left to read, what *)
(* is left to wait, steps to the next clock read - and neither time nor    *)
(* packets raise it.  So pscan never spins; in particular every sleep      *)
(* brings the bucket nearer to a token, however small the rate is.         *)
THEOREM ScanAdvances ==
  Spec => [](\A k \in 1 .. 5 : Measure[k] \in Nat) /\ [][LowEnd => Advances]_vars
<1>1. IInv /\ TruthInv /\ [Next]_vars => [LowEnd => Advances]_vars
  <2> SUFFICES ASSUME IInv, TruthInv, Next, LowEnd
               PROVE  Advances
    OBVIOUS
  <2>0. TypeInv /\ ClockInv /\ PacketsInv
    BY DEF IInv, TruthInv
  <2>1. CASE Process
    BY <2>0, <2>1, ScanStepAdvances, FurtherLowers DEF Advances
  <2>2. CASE ~Process /\ ~Terminated
    BY <2>0, <2>2, TickKeepsMeasure, ArrivalKeepsMeasure, FurtherLowers DEF Next, Advances
  <2>3. CASE ~Process /\ Terminated
    <3>1. UNCHANGED <<config, pc, resume, i, tokens, last_time, start_wait, wake_at, port, clock,
                      sockbuf, arrivals>>
      BY <2>3 DEF Terminated, vars, bucket, output, world
    <3>2. UNCHANGED <<StartPort, EndPort, NumPorts>>
      BY <2>0, Frame DEF TypeInv, TypeOK
    <3>3. Measure' = Measure
      BY <3>1, <3>2 DEF Measure, Stage, AfterScan, Work, PacketsLeft, WaitLeft, Phase, ShortNow, ShortThen
    <3> QED BY <2>3, <3>3 DEF Advances
  <2> QED BY <2>1, <2>2, <2>3
<1>2. IInv /\ TruthInv => \A k \in 1 .. 5 : Measure[k] \in Nat
  BY MeasureIsNatural DEF IInv, TruthInv
<1> QED BY <1>1, <1>2, IInvariant, TruthInvariant, PTL DEF Spec

===============================================================================
