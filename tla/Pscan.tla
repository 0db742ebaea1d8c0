---------------------------------- MODULE Pscan ----------------------------------
(***************************************************************************)
(* pscan_run: a list of ports, shuffled or not, is probed under a token    *)
(* bucket while answers are drained between probes; then a wait for late   *)
(* answers, and the report.  The tokens of the code are a double in units  *)
(* of one probe; here they are exact, in units of 1/NsPerS of a probe.     *)
(***************************************************************************)
EXTENDS Integers, Sequences, FiniteSets

CONSTANTS
  PortMod,      \* how many values a u_short has: 65536
  Scenarios,    \* the runs that are looked at: see the variable config
  Timeout,      \* -W, in ticks
  NsPerS, PollNs, SleepNs,        \* ticks in a second, in poll's 100 ms, in usleep(1000)
  Burst,        \* the most probes the bucket saves up: 10
  OpenPorts,    \* the ports the target has open
  ClockEnd      \* bound: here the clock stops; no run that comes to an end gets so far

Port == 0 .. PortMod - 1

(* The options -p (the numbers in it, and whether a dash stands between    *)
(* the first two), -r (0: no limit), -u, -R, -j and -s; and the            *)
(* environment: whether answers to other processes look like answers to    *)
(* this one, how many packets may ever reach the socket and how many ticks *)
(* the process may be delayed between two steps (both are bounds).         *)
Scenario ==
  [ports : [dash : BOOLEAN, numbers : Seq(Port \ {0})],
   rate : Nat, udp : BOOLEAN, randomize : BOOLEAN, json : BOOLEAN, banner : BOOLEAN,
   shared : BOOLEAN, max_arrivals : Nat, max_lag : Nat]

ASSUME ScenariosAssumption ==
  /\ PortMod \in Nat \ {0} /\ OpenPorts \subseteq Port /\ Scenarios \subseteq Scenario
  /\ \A s \in Scenarios :
       /\ Len(s.ports.numbers) >= 1
       /\ s.ports.dash => /\ Len(s.ports.numbers) >= 2
                          /\ s.ports.numbers[1] <= s.ports.numbers[2]
ASSUME TimesAssumption ==
  {Timeout, ClockEnd} \subseteq Nat /\ {NsPerS, PollNs, SleepNs, Burst} \subseteq Nat \ {0}

VARIABLES
  config,          \* a Scenario: pscan_config_t and the environment; never changed
  pc, resume,      \* where pscan_run is; where it goes on after drain_packets
  port_list, i,
  tokens, last_time, start_wait, wake_at,
  open_ports, closed_ports, banners,
  port             \* the loop variable of the reports, a u_short
VARIABLES clock, lag, on_wire, sockbuf, arrivals
VARIABLES
  probed,          \* history: the ports probed, in order, each with its time
  answered,        \* history: the ports the target has answered a probe of
  announced,       \* history: the ports printed as open while scanning
  listed           \* history: the port numbers in the final report

(* -p is read with atoi: up to the dash and after it, or one number only.  *)
StartPort == config.ports.numbers[1]
EndPort   == IF config.ports.dash THEN config.ports.numbers[2] ELSE StartPort

NumPorts == EndPort - StartPort + 1
Index    == 0 .. NumPorts - 1
InRange(p) == StartPort <= p /\ p <= EndPort
IndexOf(p) == (p - StartPort) % PortMod   \* a u_short

bucket == <<tokens, last_time>>
found  == <<open_ports, closed_ports, announced>>
output == <<banners, port, listed>>
world  == <<clock, on_wire, sockbuf, arrivals, answered>>
vars   == <<config, pc, resume, port_list, i, bucket, start_wait, wake_at, found, output,
            world, lag, probed>>

StartTime == 1
One == NsPerS   \* a token

Init ==
  /\ config \in Scenarios
  /\ pc = "shuffle" /\ resume = "next"
  /\ port_list = [k \in Index |-> StartPort + k]
  /\ i = NumPorts - 1
  /\ tokens = One /\ last_time = 0 /\ start_wait = 0 /\ wake_at = 0
  /\ open_ports = [k \in Index |-> FALSE] /\ closed_ports = [k \in Index |-> FALSE]
  /\ banners = [k \in Index |-> FALSE]
  /\ port = StartPort
  /\ clock = StartTime /\ lag = 0 /\ on_wire = {} /\ sockbuf = <<>> /\ arrivals = 0
  /\ probed = <<>> /\ answered = {} /\ announced = <<>> /\ listed = <<>>

-------------------------------------------------------------------------------
BugSwap(list, a, b) == [list EXCEPT ![a] = list[b]]
Swap(list, a, b)    == [list EXCEPT ![a] = list[b], ![b] = list[a]]

Shuffle ==
  /\ pc = "shuffle" /\ config.randomize /\ i > 0
  /\ \E j \in 0 .. i : port_list' = Swap(port_list, i, j)
  /\ i' = i - 1 /\ lag' = 0
  /\ UNCHANGED <<config, pc, resume, bucket, start_wait, wake_at, found, output, world,
                 probed>>

ShuffleEnd ==
  /\ pc = "shuffle" /\ (~config.randomize \/ i = 0)
  /\ pc' = "next" /\ i' = 0 /\ last_time' = clock /\ lag' = 0
  /\ UNCHANGED <<config, resume, port_list, tokens, start_wait, wake_at, found, output,
                 world, probed>>

(* The bucket is refilled only when it holds less than a token. *)
BugRefilled(since) == tokens + (clock - since) * config.rate
BugRefilledWhole(since) ==
  LET t == tokens + (clock - since) * config.rate
  IN  IF t > Burst * One THEN Burst * One ELSE t - (t % One)
Refilled(since)    == LET t == tokens + (clock - since) * config.rate
                      IN  IF t > Burst * One THEN Burst * One ELSE t

BugRefillTime == last_time
RefillTime    == clock

Refill ==
  /\ pc = "next" /\ i < NumPorts /\ config.rate > 0 /\ tokens < One
  /\ tokens' = Refilled(last_time)
  /\ last_time' = RefillTime
  /\ IF tokens' < One THEN pc' = "drain" /\ resume' = "sleep" ELSE UNCHANGED <<pc,
                                                                               resume>>
  /\ lag' = 0
  /\ UNCHANGED <<config, port_list, i, start_wait, wake_at, found, output, world, probed>>

BeginSleep ==
  /\ pc = "sleep"
  /\ pc' = "asleep" /\ wake_at' = clock + (IF config.rate > 0 THEN SleepNs ELSE 0) /\ lag' = 0
  /\ UNCHANGED <<config, resume, port_list, i, bucket, start_wait, found, output, world,
                 probed>>

Wake ==
  /\ pc = "asleep" /\ clock >= wake_at
  /\ pc' = "next" /\ lag' = 0
  /\ UNCHANGED <<config, resume, port_list, i, bucket, start_wait, wake_at, found, output,
                 world, probed>>

(* The send time, kept for the rtt, is left out; a failed send goes        *)
(* unnoticed.                                                              *)
SendProbe ==
  /\ pc = "next" /\ i < NumPorts /\ (config.rate > 0 => tokens >= One)
  /\ tokens' = IF config.rate > 0 THEN tokens - One ELSE tokens
  /\ probed' = Append(probed, [port |-> port_list[i], at |-> clock])
  /\ on_wire' \in {on_wire, on_wire \cup {port_list[i]}}
  /\ i' = i + 1
  /\ pc' = "drain" /\ resume' = (IF config.rate = 0 THEN "sleep" ELSE "next") /\ lag' = 0
  /\ UNCHANGED <<config, port_list, last_time, start_wait, wake_at, found, output, clock,
                 sockbuf, arrivals, answered>>

(* process_packet *)
BugIsOpen(p) == p.kind \in {"syn_ack", "rst"} /\ ~open_ports[IndexOf(p.port)]
IsOpen(p)    == p.kind = "syn_ack" /\ ~open_ports[IndexOf(p.port)]

ProcessPacket(p) ==
  /\ open_ports' =
       IF ~config.udp /\ InRange(p.port) /\ IsOpen(p)
       THEN [open_ports EXCEPT ![IndexOf(p.port)] = TRUE] ELSE open_ports
  /\ announced' =
       IF ~config.udp /\ InRange(p.port) /\ IsOpen(p) /\ ~config.json
       THEN Append(announced, p.port) ELSE announced
  /\ closed_ports' =
       IF config.udp /\ p.kind = "port_unreach" /\ InRange(p.port)
       THEN [closed_ports EXCEPT ![IndexOf(p.port)] = TRUE] ELSE closed_ports

Drain ==
  /\ pc = "drain" /\ sockbuf # <<>>
  /\ sockbuf' = Tail(sockbuf)
  /\ IF Head(sockbuf).kind = "error"
     THEN pc' = resume /\ UNCHANGED <<open_ports, closed_ports, announced>>
     ELSE ProcessPacket(Head(sockbuf)) /\ UNCHANGED pc
  /\ lag' = 0
  /\ UNCHANGED <<config, resume, port_list, i, bucket, start_wait, wake_at, output, clock,
                 on_wire, arrivals, answered, probed>>

DrainEnd ==
  /\ pc = "drain" /\ sockbuf = <<>>
  /\ pc' = resume /\ lag' = 0
  /\ UNCHANGED <<config, resume, port_list, i, bucket, start_wait, wake_at, found, output,
                 world, probed>>

ScanEnd ==
  /\ pc = "next" /\ i = NumPorts
  /\ pc' = "wait" /\ start_wait' = clock /\ lag' = 0
  /\ UNCHANGED <<config, resume, port_list, i, bucket, wake_at, found, output, world,
                 probed>>

WaitMore ==
  /\ pc = "wait" /\ clock - start_wait < Timeout
  /\ pc' = "poll" /\ wake_at' = clock + PollNs /\ lag' = 0
  /\ UNCHANGED <<config, resume, port_list, i, bucket, start_wait, found, output, world,
                 probed>>

PollReturns ==
  /\ pc = "poll"
  /\ \/ sockbuf # <<>> /\ pc' = "drain" /\ resume' = "wait"
     \/ sockbuf = <<>> /\ clock >= wake_at /\ pc' = "wait" /\ UNCHANGED resume
  /\ lag' = 0
  /\ UNCHANGED <<config, port_list, i, bucket, start_wait, wake_at, found, output, world,
                 probed>>

WaitEnd ==
  /\ pc = "wait" /\ clock - start_wait >= Timeout
  /\ pc' = IF config.banner /\ ~config.udp THEN "banner" ELSE "report"
  /\ port' = StartPort /\ lag' = 0
  /\ UNCHANGED <<config, resume, port_list, i, bucket, start_wait, wake_at, found,
                 banners, listed, world, probed>>

-------------------------------------------------------------------------------
(* The loops over the ports: port is a u_short, compared with EndPort and  *)
(* then incremented.  What an index beyond the arrays reads is anything.   *)
MorePorts == port <= EndPort
NextPort  == (port + 1) % PortMod
Reads(a, k) == IF k \in Index THEN {a[k]} ELSE BOOLEAN

GrabBanner ==
  /\ pc = "banner" /\ MorePorts
  /\ \E open \in Reads(open_ports, IndexOf(port)) :
       IF open /\ IndexOf(port) \in Index
       THEN \E b \in BOOLEAN : banners' = [banners EXCEPT ![IndexOf(port)] = b]
       ELSE UNCHANGED banners
  /\ port' = NextPort /\ lag' = 0
  /\ UNCHANGED <<config, pc, resume, port_list, i, bucket, start_wait, wake_at, found,
                 listed, world, probed>>

BannersEnd ==
  /\ pc = "banner" /\ ~MorePorts
  /\ pc' = "report" /\ port' = StartPort /\ lag' = 0
  /\ UNCHANGED <<config, resume, port_list, i, bucket, start_wait, wake_at, found,
                 banners, listed, world, probed>>

(* Plain output lists open TCP ports again only if they have a banner. *)
BugLists(open, closed, banner) == open
Lists(open, closed, banner) ==
  CASE config.udp                  -> ~closed
    [] ~config.udp /\ config.json -> open
    [] OTHER                      -> config.banner /\ open /\ banner

(* Plain output of a TCP scan has no report. *)
Reports == config.udp \/ config.json \/ config.banner

Report ==
  /\ pc = "report" /\ Reports /\ MorePorts
  /\ \E open \in Reads(open_ports, IndexOf(port)), closed \in Reads(closed_ports, IndexOf(port)),
        banner \in Reads(banners, IndexOf(port)) :
       listed' = IF Lists(open, closed, banner) THEN Append(listed, port) ELSE listed
  /\ port' = NextPort /\ lag' = 0
  /\ UNCHANGED <<config, pc, resume, port_list, i, bucket, start_wait, wake_at, found,
                 banners, world, probed>>

ReportEnd ==
  /\ pc = "report" /\ ~(Reports /\ MorePorts)
  /\ pc' = "done" /\ lag' = 0
  /\ UNCHANGED <<config, resume, port_list, i, bucket, start_wait, wake_at, found, output,
                 world, probed>>

Process == Shuffle \/ ShuffleEnd \/ Refill \/ BeginSleep \/ Wake \/ SendProbe \/ Drain
           \/ DrainEnd \/ ScanEnd \/ WaitMore \/ PollReturns \/ WaitEnd \/ GrabBanner
           \/ BannersEnd \/ Report \/ ReportEnd

-------------------------------------------------------------------------------
(* The environment. *)
Waiting == (pc = "asleep" \/ (pc = "poll" /\ sockbuf = <<>>)) /\ clock < wake_at

(* A delay before a step that reads no clock shows in the next that does.  *)
ReadsClock == pc \in {"next", "sleep", "wait"}

Tick ==
  /\ Waiting \/ (ReadsClock /\ lag < config.max_lag)
  /\ clock' = IF clock < ClockEnd THEN clock + 1 ELSE clock
  /\ lag' = IF Waiting THEN lag ELSE lag + 1
  /\ UNCHANGED <<config, pc, resume, port_list, i, bucket, start_wait, wake_at, found,
                 output, on_wire, sockbuf, arrivals, answered, probed>>

Enqueue(p) ==
  /\ pc # "done" /\ arrivals < config.max_arrivals
  /\ sockbuf' = Append(sockbuf, p)
  /\ arrivals' = arrivals + 1
  /\ UNCHANGED <<config, pc, resume, port_list, i, bucket, start_wait, wake_at, found,
                 output, clock, lag, on_wire, probed>>

(* A closed UDP port draws an ICMP error, an open one nothing. *)
AnswerTo(p) ==
  CASE config.udp                      -> "port_unreach"
    [] ~config.udp /\ p \in OpenPorts -> "syn_ack"
    [] OTHER                          -> "rst"

ArriveAnswer ==
  \E p \in on_wire :
    /\ config.udp => p \notin OpenPorts
    /\ Enqueue([kind |-> AnswerTo(p), port |-> p])
    /\ answered' = answered \cup {p}

(* The target answers a connection another process on this host makes from *)
(* the same source port; with -u, an ICMP error about a datagram of another *)
(* process, whoever it went to.                                            *)
ArriveShared ==
  /\ config.shared
  /\ \E p \in OpenPorts :
       Enqueue([kind |-> IF config.udp THEN "port_unreach" ELSE "syn_ack", port |-> p])
  /\ UNCHANGED answered

(* A pending socket error, or a segment that is not for the source port.   *)
ArriveOther ==
  /\ \E k \in {"error", "foreign"} : Enqueue([kind |-> k, port |-> StartPort])
  /\ UNCHANGED answered

Terminated == pc = "done" /\ UNCHANGED vars

Next == Process \/ Tick \/ ArriveAnswer \/ ArriveShared \/ ArriveOther \/ Terminated

Spec     == Init /\ [][Next]_vars
FairSpec == Spec /\ WF_vars(Process) /\ WF_vars(Tick)

-------------------------------------------------------------------------------
(* Every variable has its type, and the bucket never owes or overflows. *)
TypeOK ==
  /\ config \in Scenarios
  /\ pc \in {"shuffle", "next", "drain", "sleep", "asleep", "wait", "poll", "banner",
             "report", "done"}
  /\ resume \in {"next", "sleep", "wait"}
  /\ port_list \in [Index -> Port] /\ i \in 0 .. NumPorts
  /\ tokens \in 0 .. Burst * One
  /\ {last_time, start_wait, wake_at, clock, lag} \subseteq Nat
  /\ open_ports \in [Index -> BOOLEAN] /\ closed_ports \in [Index -> BOOLEAN]
  /\ banners \in [Index -> BOOLEAN] /\ port \in Port
  /\ arrivals \in 0 .. config.max_arrivals

(* Shuffled or not, the scan probes every port of the range exactly once.  *)
EachPortProbedOnce ==
  /\ \A a, b \in 1 .. Len(probed) : probed[a].port = probed[b].port => a = b
  /\ pc \in {"wait", "report", "done"} =>
       {probed[k].port : k \in 1 .. Len(probed)} = StartPort .. EndPort

(* Over the whole scan the rate is kept: one probe at once, and then no    *)
(* more than the rate a second.                                                *)
RateKept ==
  config.rate > 0 => (Len(probed) - 1) * NsPerS <= config.rate * (clock - StartTime)

(* In no stretch of the scan does a delayed process catch up by more than  *)
(* two full buckets: one that was saved up, and one more when the bucket   *)
(* is refilled for the time since it was saved up.                         *)
BurstBounded ==
  config.rate > 0 => \A a, b \in 1 .. Len(probed) : a <= b =>
    (b - a + 1) * NsPerS <= 2 * Burst * NsPerS + config.rate * (probed[b].at - probed[a].at)

(* Each port printed while scanning is one the target has open, printed    *)
(* once, and without -j all those found are printed.  Where another        *)
(* process shares the source port, it may be printed before this scan has  *)
(* probed it.                                                              *)
AnnouncedOnce ==
  /\ \A a, b \in 1 .. Len(announced) : announced[a] = announced[b] => a = b
  /\ \A a \in 1 .. Len(announced) : announced[a] \in OpenPorts
  /\ ~config.json =>
       {k \in Index : open_ports[k]} = {announced[a] - StartPort : a \in 1 .. Len(announced)}

(* The report lists each port at most once, in order: with TCP only ports  *)
(* that are open and that have answered; with -u every port that is open,  *)
(* whatever was lost.  Assumed: no other process shares the source port.    *)
ReportSound ==
  /\ \A a, b \in 1 .. Len(listed) : a < b => listed[a] < listed[b]
  /\ LET L == {listed[a] : a \in 1 .. Len(listed)}
     IN  ~config.shared => IF config.udp
           THEN pc = "done" => (StartPort .. EndPort) \cap OpenPorts \subseteq L
           ELSE L \subseteq OpenPorts \cap answered

(* The scan comes to an end and its report, too. *)
Terminates == <>(pc = "done")

(* pscan.8:34: -p is "the port range to scan".  No array entry is looked   *)
(* up for a port outside it.                                               *)
ReportInRange ==
  pc = "banner" \/ (pc = "report" /\ Reports) =>
    (MorePorts => IndexOf(port) \in Index)
===============================================================================
