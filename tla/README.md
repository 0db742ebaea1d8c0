# A TLA+ model of knetutils

knetutils is a collection of network tools in C: `ping`, `tcping`, `arping`,
`traceroute`, `pscan` and `sniff`, in one binary. Each tool is a single thread
around `poll()`; what makes them hard is not threads but time, a network that
loses, doubles, delays and reorders, signals that come between any two
instructions, and 8- and 16-bit counters that wrap.

## The system

| component | source | state | operations |
|---|---|---|---|
| ping | `src/ping.c` | `ping_state_t`: sequence number, sent/received, per-slot send times and `replied_or_timeout`, head of the timeout sweep, rtt statistics; `keep_running` | `send_ping_request`, the timeout sweep, `drain_ping_replies`, `update_ping_stats`, deadline, signal handler |
| tcping | `src/tcping.c` | the same with a 32-bit TCP sequence number | `send_tcping_probe`, sweep, `drain_tcping_replies` |
| arping | `src/arping.c` | the same, numbered by `sent`; the MAC address probes go to | `send_arping_probe`, sweep, `drain_arping_replies`, `handle_arp_reply` |
| traceroute | `src/traceroute.c` | TTL, probe table of the hop, sequence number, `target_reached` | volley, `is_our_probe_*`, `check_is_target`, wait, print |
| pscan | `src/pscan.c` | port list, token bucket, open/closed/banner tables | shuffle, refill, `send_probe`, `drain_packets`, `process_packet`, wait, `grab_banner`, report |
| sniff | `src/sniff.c` | packet counter, limit, PCAP file behind a stdio stream; `keep_running` | open, poll, receive, print, `write_pcap_packet`, signal handler, close |
| socket layer | `src/base/net.c` | descriptor, `net_socket_t`, BPF read buffer (`bpf_buf`, `bpf_buf_pos`) | `open_raw_socket` and its unwinding, `recv_packet`, `close_raw_socket`; send, checksum, addresses |
| clock, logging, help, dispatcher | `src/base/utils.c`, `src/base/cli.c`, `src/main.c` | none | `get_time_ns`, `die`, ... |

A tool calls the socket layer and the clock; it shares state with nobody except
its own signal handler, which clears `keep_running`. Tools do not call each
other; the dispatcher picks one. The other party of every interaction is the
network: hosts that answer, other processes whose traffic reaches a raw socket.

What makes each one correct, in a sentence: *ping, tcping, arping* - every probe
meets exactly one fate, answered or timed out, and the run ends when it should;
*traceroute* - a hop's line shows answers to that hop's probes, and the search
ends; *pscan* - every port is probed once, at the rate asked for, and the report
agrees with what the target has open; *sniff* - no packet is lost between the kernel
and the count, the file holds what was counted, and the capture ends with as many as
asked for; *socket layer* - whichever step of opening fails, nothing stays acquired.

## Modules

| module | models |
|---|---|
| `ProbeWindow` | the arithmetic ping, tcping and arping share: wrapping slots, the window between the sweep's head and the next slot, `SweepStopsAt` (the sweep as a predicate on where it ends), the rounding of poll timeouts |
| `ProbeLedger` | the abstract specification: probes are sent, heard, answered or expired; a run completes when all are settled. No slots, no clock, no poll |
| `PingStats` | `update_ping_stats` and what `print_statistics` derives |
| `Ping` | `ping_run`, with `PingStats` |
| `PollLoop` | the loop that `tcping_run` and `arping_run` have in common, statement for statement |
| `Tcping`, `Arping` | the two tools, on `PollLoop` |
| `Traceroute`, `MCTraceroute` | `traceroute_run`; the options and environments (scenarios) used in its run |
| `Pscan`, `MCPscan` | `pscan_run` and the reading of `-p`; the options and environments (scenarios) used in runs |
| `CaptureSocket` | the link-layer socket of `net.c` in both builds: `open_raw_socket` step by step with the failure of each, what `poll()` sees, `recv_packet`, `close_raw_socket`, the kernel's queue |
| `Sniff` | `sniff_run` and `write_pcap_packet` on a `CaptureSocket`, with stdio's buffer, the disk and signals |
| `CaptureLog` | the abstract specification of a capture: the log holds the packets received, from the first on, each once and in order; a complete one as many as asked for |
| `ProbeWindowProofs` | lemmas about slots, windows, rounding, the pace that keeps a slot free and the order of headway, shared by the proofs about the tools |
| `PollLoopProofs` | lemmas about the accounts, the types, the last steps and the headway of `PollLoop`, for its two users |
| `PingProofs`, `TcpingProofs`, `ArpingProofs`, `TracerouteProofs`, `PscanProofs`, `SniffProofs` | theorems about the six modules |

How they correspond to the code:

* `pc` names where the process is. A step runs from one point where something
  else can be noticed - a clock read, a test of `keep_running`, `poll()`, a
  receive - to the next. In `Ping`: `head` (the loop test, sending included),
  `sweep` (from the second clock read through the sweep, the test of the count
  and the computation of the poll timeout), `call` (about to call `poll()`),
  `poll`, `drain` (one packet a step). In `Traceroute` the receiving loop is
  `wait` (the loop test with the first clock read, and the search for an open
  probe), `timeout` (the second clock read, with the way out at
  `traceroute.c:524`), `call`, `poll`. A signal may come before any step; one
  that comes while `pc = "poll"` wakes `poll()`, one that comes just before does not.
* `poll()` counts its timeout from when it is entered. `poll_until` is when it gives up;
  while the process is delayed in `call`, `Tick` moves it along with the clock.
* Options that a run varies are variables chosen by `Init` and never changed
  (`quit_on_reply`, `keep_broadcast`, and `config` in pscan and traceroute, which
  holds the environment as well), so that one run looks at all of them; the others
  are constants.
* Variables have the names of the fields they stand for. History variables
  (`heard`, `answered`, `expired`, `misfits`, `swallowed`, `printed`,
  `target_ttls`, `probed`, `safe`, ...) record what happened; no guard reads them.
  `heard` is filled by the network, from the probe a reply is really about;
  `answered` by the tool, from the slot it credits. `misfits` counts the credited
  packets that are about none of the probes slots belong to.
* The loop of the timeout sweep is one step: `SweepStopsAt(head, h, ...)` says
  that every slot before `h` is answered or expired and `h` is neither, which
  determines `h`.
* The network is a set `on_wire` of probes that were sent - a send may fail, a
  probe or its answer may be lost - from which answers are put into `sockbuf`
  at any later time and any number of times. Foreign packets are put there, too.
* Time is `clock`, in ticks; `NsPerMs` and the like say how many ticks make a
  unit, so that rounding is real. `Tick` moves it while `poll()` waits, and
  up to `MaxLag` ticks between two steps of the process: a scheduling delay. In
  `Traceroute` (`max_lag`) a delay is possible before each of the two clock reads and
  before `poll()`; before a step that reads no clock it would show only in the next
  that does.
* A file written through stdio is three things: what the stream holds (`stdio`), what is
  on disk (`disk`) and whether the disk is full. `fwrite` may push out any part when
  the buffer runs over; `fflush` pushes out all, or part of it if the disk is full;
  the code looks at no result (`sniff.c:134`), so neither do the actions. Killing the
  process at any moment leaves `disk`: `FileReadable` speaks about every state. A record is
  two pieces, its header and the packet; a reader (`RecordsIn`) goes by lengths alone, so
  behind a piece that is missing it takes the next record for packet bytes, and
  does not notice. A refused write that stores a part of a piece stores none of it
  here: nothing is claimed of what a reader finds behind it either way.
* Packets sniff may receive are numbered as the kernel queues them; those above `fetched`
  are in the kernel, the last `InBuffer` of those fetched in the BPF buffer.
* `pscan`'s tokens are a `double`; here they are exact, scaled by `NsPerS`. An
  index beyond its arrays reads any value.
* An operator named `Bug...` is a plausible mistake in the operator it stands
  next to. Nothing uses it; it serves to show that a property notices the
  mistake.

## Runs

Each run `x_y` is the configuration `X_y.cfg`. Passing runs:

| run | shows |
|---|---|
| `ping_count` | `ping -c`: types; no probe is reported twice; the run ends by its count only when all is settled; credit only for replies that came; `poll()` neither spins nor oversleeps; the run ends; it implements `ProbeLedger` |
| `ping_endless` | four probes in two slots, reused while old replies are under way, and another process with the same 16-bit id, whose replies meet slots used and unused: `received` exceeds the probes whose own reply came, each counted once, by at most the number of packets taken for a reply that answer no probe of a slot; the run stops after a signal, also one just before `poll()` |
| `ping_deadline` | `-A -w`: statistics are consistent, the variance never underflows, `poll()` respects the deadline unless it passed before the second clock read |
| `tcping_count` | types, the end, `received` off by no more than the segments counted that answer no probe (an RST without ACK hits slot 0), and the implementation of `ProbeLedger`; with signals and a socket that may not open |
| `arping_count` | with and without `-f` and `-b`: one fate per probe, unicast only after a reply of the target, one reply with `-f` although several are queued, the end; with an address conflict and foreign replies |
| `traceroute_paths` | ICMP and UDP, on a free path and through a router that answers with ICMP unreachable: answers are printed for the very probe they answer; the route is in order and ends at the target; the wait is bounded although the process may be late at either clock read and before `poll()`; the search ends, also with a signal just before `poll()` |
| `sniff_capture` | Linux and BSD, with and without `-c` and `-w`, a failing open, an interface that goes down, a full disk, signals: no packet is lost, doubled or overtaken inside; killed at any moment, the file can be read up to the last packet counted before a write was refused; the socket is released; packets of other interfaces are bounded; a signal stops it; it keeps up; it implements `CaptureLog` |
| `pscan_scans` | the eight scenarios of `MCPscan`: each port probed once, the rate kept, a delayed process caught up by two buckets at most, ports announced once, the reports sound, the end |

Runs that show where the program departs from its documentation:

| run | finds |
|---|---|
| `ping_deadline_hang` | `ping -w` can hang: the remaining time is an unsigned difference of two clock reads (`ping.c:583`) |
| `arping_foreign_reply` | an ARP reply about another address ends the wait for a probe (`arping.c:283`) |
| `pscan_top_port` | a range up to 65535 never ends and reads out of bounds (`pscan.c:582`) |
| `sniff_bpf_count` | on BSD, `sniff -c` waits for one more packet than it was asked for: those read ahead into the BPF buffer do not wake `poll()` (`net.c:402`) |

More that the modules show without a run of their own:

* with `-i` longer than `-W`, ping looks for timeouts only when the next request is
  due, so a reply that comes after `-W` still counts as received (`DrainCredit` has no
  test of the age, `ping.c:285`);
* tcping, which `README.md:106` says needs no root, ends at once if it may not open its
  raw socket (`SetupSocket`, `tcping.c:118`);
* `traceroute -m 255` does not end by itself: a `u_char` is always `<= 255`
  (`traceroute.c:470`; `NextTtl` and `WireTtl` model the wrap, the run stays below it);
* `pscan -p 80,443`, as in `README.md:83`, scans port 80 only (the reading of `-p`
  stops at the comma);
* on a full disk sniff counts packets as captured that its file does not hold, or holds in
  part (`sniff.c:134`): if the disk takes a record header, refuses its packet and then takes
  the next record, a reader takes that record for the packet's bytes. `FileReadable` claims
  the packets counted before the first refused write, and a complete file only while none
  was refused;
* on Linux the packet socket receives from every interface between `socket()` and
  `bind()` (`net.c:184`), and what is queued then stays queued: a capture may
  begin with packets of other interfaces. `OtherInterfacesBounded` says how many.

### Bounds, and why they are enough

* `SeqMod` slots (65536 in the code): two to seven. The code does the same thing
  at every wrap; what matters is whether probes outnumber the slots
  (`ping_endless`; the proof of `ReportedOnce` covers every number) or not, and
  both occur. In `traceroute_paths` ports and sequence numbers wrap, but no two
  probes of one search share a number, as with 65536 of them.
* `AckMod`, the range of TCP's numbers: nine, and two probes that stay below it. The wrap,
  where the answer's acknowledgement number is 0 and is not lowered by one (`tcping.c:305`),
  counts as a segment that names no probe a slot belongs to; the theorem `CountErrorIsBounded` covers it, and a run reaches it
  only after 2^32 probes or with a start near the end of the range.
* `Count` two, `Timeout` and `Interval` one to three ticks: enough for two probes to be open at once, for one to expire while the
  next is sent, and for an answer to come before, at and after the timeout.
* `NsPerMs`, the ticks in a millisecond: two, so that rounding shows, and one where a
  run does not ask about it (`ping_endless`, `arping_count`).
* `MaxArrivals` two (three in pscan), `QueueLen` two: a reply, its duplicate and a
  foreign packet, in any order.
* `MaxLag` one (two where a clock difference is the question): the process may
  be late at each step. `traceroute_paths` has two groups of scenarios: `Matching`, with
  two arrivals and no delays, asks which probe an answer is taken for; `Delayed`, with one
  arrival and a delay of up to one tick at each clock read and at `poll()`, asks
  for the time. Both at once are more states than a short run can hold; the theorems
  have no such split.
* `ClockEnd`: the clock stops there, so that a run that never ends has finitely
  many states. No passing run gets there. `MaxClock` bounds the clock of a run
  without `-c` while no signal has come.
* pscan: two to four ports, a bucket of one token, a second of two ticks, and
  rates of half a probe and of three probes a tick: waiting for a token and
  being late for many. Each scenario is one of the ways through the code (limit or
  none, shuffled, `-u`, `-j`, `-s`), with the arrivals that matter to it.

* sniff: two packets in the kernel's queue and two in the BPF buffer, three packets in all
  and limits of none and two: a buffer that holds more than the limit still needs,
  one that is used up and filled again, and a packet more than was asked for.

### Fairness

`FairSpec` asks for weak fairness of `Process` (the operating system runs a
runnable thread; each step is enabled until taken) and of `Tick` (time goes on).
Nothing is asked of the network or of signals: answers may all be lost, signals
may never come. So `Terminates` holds by the timeouts alone. `Sniff` has no clock: the 100
ms of its `poll()` are the step `PollTimesOut` of the process, and `FairSpec` asks
for weak fairness of `Process` only; packets, the disk and the interface do as they like.

## Proofs

Everything below holds for every value of the constants that satisfies the named
`ASSUME`s of the modules; a theorem that needs more says so in its statement. Each
argument has the same shape: an inductive invariant made of named parts, proved to
hold initially and to be kept by each action, one step per action, and the property
as its consequence.

### The window of probes

`ProbeWindowProofs` has the arithmetic: increments and distances modulo `SeqMod`, how
a window splits when the sweep advances, that the sweep stops in exactly one place, what
rounding does to a timeout, that `x % SeqMod` is the slot of number `x`.
`PollLoopProofs` has what tcping and arping share: `OwnerOf` (the probe a slot stands
for), and how four facts about the arrays survive a send, a sweep and a closed slot:
`UsedSlots` (a slot has been used just if its owner is a probe, and the window holds
used slots only), `OpenUnfiled` (the owner of an open slot has met no fate yet),
`NoneForgotten` (a used slot is filed, or open and still to be swept), and `AllFiled`
and `SweepTakesOldest`, their consequences; then the types that the steps of the loop
keep.

Two arguments serve several tools: the first those that keep a window, the second all but sniff.

*The slots are enough.* With as many probes as slots in the window it looks empty when it
is full, and nothing that follows would be true. `EnoughSlots` is the condition under which
that cannot happen: `-c` is below the number of slots, or `RingLasts`, that is
`Timeout <= (SeqMod - 2) * pace`. Then the window always has room, in runs of any length and
without `-c`: requests are at least `pace` apart and the sweep, which runs before the next
one, drops those older than the timeout (`Spaced`, `Fresh`, `RoomToSend`; for ping
`pace` is the interval, or 2 ms with `-A` if that is less). With 65536 slots `-i 1`, a millisecond,
is enough for timeouts up to 65 seconds; with `-i 0` only the first condition can hold.
TLC finds the bound tight: with 3 slots, an interval of 2 and 4 probes
`CountExitIsComplete` holds for a timeout of 2 and not for 3.

*The loop makes headway.* `Lower` is the lexicographic order of tuples of naturals. Each tool
has a `Measure` - for the three with a window: whether the run goes on, the length of the
window, packets still to be read, how often `poll()` may still give up, steps to the next
`poll()` - and every step of the process lowers it, except a request, which begins a new round.
`Turns` is why waiting counts: one sleep of whole milliseconds, then one for the rest.
These theorems (`LoopAdvances`, `SearchAdvances`, `ScanAdvances`) are the safety half of
`Terminates` and `SignalStops`: no cycle of the process's own steps, for any constants. That a
sleep ends and that a step is taken at all is fairness, which stays with TLC. They hold
as well where TLC's runs do not go, without `-c` and for any timing.

### ping

* `TypeCorrect`: the part with content is that only probes that were sent are ever filed
  (`answered`, `expired` within `1 .. sent`), which needs to know which probe each slot
  stands for when slots wrap. `TypeInv` adds that the sequence number is `sent` modulo
  `SeqMod` and that slots of the window have been used.
* `ReportedOnce` (no stray replies): the property is not inductive. `ReportedInv` adds that
  an open slot belongs to a probe that is in neither set, and that packets under way name slots
  that were used or slots of stray replies. Overwriting a slot makes its old
  probe unreachable, which keeps all this true at a wrap, with any number of probes.
* `CountErrorIsBounded`, with any stray replies and delays: `received` is what `misfits` says
  off the replies that really came. `CountInv` is that `received` is at most the probes that are
  both credited and heard, plus `misfits`. A packet that fits (`Fits`: it answers one of the last
  `SeqMod` probes) is credited to the very probe it answers, which was not credited yet
  (`FitIsAnswer`, from `GenuineInv` below), so it adds to that set; any other adds to `misfits`,
  be its slot unused or in use by a probe whose own reply is lost. Nothing
  ties the packets of another process to the number of slots: 65536 of them after each wrap can
  be wrong.
* `FatesStayApart`: the part of `ReportedOnce` that holds whatever another process does.
* `CountExitComplete` and `NoneIsForgotten`, with enough slots: leaving by the count means that
  every probe is settled; and at any time, also of a run without `-c`, a probe that is not
  settled has an open slot that the sweep is yet to come to.
* `PollIsShort`, `PollEndsByDeadline`: from bounds on the send and expiry times
  (`PollInv`), through the rounding of `WaitMs`; `Late` is the delay between the second clock
  read and `poll()`. The first also says that `poll()` is told to return at once only when
  a request is due. The second is about iterations in which the second clock read comes before
  the deadline; `ping_deadline_hang` shows what happens in the others.
* `CreditIsGenuine`: a credited probe was answered by the host. A slot names a probe only up to
  whole rings of slots, so a reply that is 65536 probes late, or one to another process, would be
  credited to the wrong one: `AnswersTimely` says that every reply in the socket `Fits`,
  and the theorem is about the runs in which that always holds. `GenuineInv` keeps the number
  of the probe with the packet. `CreditIsGenuineWhenShort` needs no such condition when there
  are no stray replies and `-c` is at most the number of slots; TLC finds that bound tight too.
* `StatisticsAreSound`, under the same conditions: minimum, mean and maximum are in order and
  the unsigned variance does not underflow. `StatsInv` keeps `rtt_sum^2 <= received * rtt_sum_sq`
  (Cauchy's inequality, one step at a time: `SquaresStep`); the truncated means follow
  (`VarianceFacts`).
* `PingIsALedger`: with enough slots, `Spec /\ []AnswersTimely => RefinesLedger`, also for runs
  without an end. `LedgerStep` maps each step to a step of
  `ProbeLedger` or a stutter; a sweep expires the oldest outstanding probes, and an exit is
  what its status says (`ExitInv`). `PingIsALedgerWhenShort` is about `Spec` alone.
* `SignalIsHeeded`: an action property. Once `keep_running` is cleared it stays so, nothing is
  sent, no reply is counted and each step of the process lowers `StepsLeft`, which is at most five.
* `LoopAdvances`, for any `-w`. There is one exception, found by the proof: within the last
  millisecond before `-w` is over `d_ms` is 0 (ping.c:583-588), `poll()` does not wait and
  ping spins until the deadline. That costs less than a millisecond of processor time and is
  no error; the statement names it (`Sweep /\ LastMs`).

### tcping and arping

* tcping, `TypeCorrect`: as for ping, with `tail` the low 16 bits of a 32-bit number that
  does not start at 0 (`TailFacts`).
* tcping, `CountErrorIsBounded`: as for ping; the segments that do not fit are the RSTs without
  ACK, answers a whole ring of slots late, and the answer to the last of TCP's numbers, whose
  acknowledgement number is 0 (`tcping.c:305`).
* tcping, `FatesStayApart`, `CountExitComplete`, `NoneIsForgotten`: as for ping, the last two
  with enough slots.
* `TcpingIsALedger`: with enough slots, `Spec /\ []AnswersTimely => RefinesLedger`;
  `TcpingIsALedgerWhenShort`, for fewer probes than slots, numbers that do not wrap and no
  stray segments, is about `Spec` alone. Beside ping's parts: an answer to probe `p` carries
  `INITIAL_SEQ + p` in 32 bits (`GenuineInv`), so the slot it is taken for stands for `p` (`NumberOfProbe`).
* arping, `TypeCorrect`: a reply carries no number and is taken for the oldest open probe; that
  only sent probes are filed needs `UsedSlots`.
* arping, `FatesStayApart`, without conditions; `EveryProbeSettledOnce` and `NoneIsForgotten`,
  with enough slots. `FateInv` keeps answered, timed out and
  swallowed probes apart and every open slot's probe out of them; `CompleteInv` has every
  probe filed or still to be swept (`NoneForgotten`). The slot a reply is taken for is where
  a walk over settled slots stops (`WalkStops`). A failed send opens its slot and leaves the
  loop without counting; only then the arrays disagree with `sent` (`Sound`).
* `OneReplyIsEnough` from `QuitInv`: with `-f`, `-d` or `-c 1` a counted reply clears
  `keep_running`, and the drain stops there.
* `UnicastAfterReply` from `UnicastInv`: a reply of the target in the buffer has been heard.
* `SignalIsHeeded` and `LoopAdvances` for both, from `LastLoopSteps` and `WorldFurther` of
  `PollLoopProofs`; with `-f`, `-d` or `-c 1` the reply that is enough counts as a signal.
  `poll()` gives up at most three times before a probe is sent or filed, beside the packets it
  wakes up for.

### traceroute

* `TypeCorrect`, `WaitsEndInTime`: the second from `WaitInv`. From the search to `poll()` a
  probe is open; the second clock read lets `poll()` be called only while time is left, its
  timeout is rounded up by less than a millisecond (`TimeoutFacts`), and what delays the process
  after that is in `lag`.
* `TimesAreGenuine`: for `-m` below 255 and `MaxTtl * Queries < SeqMod`, which then holds for
  every `-q`. The probe with TTL `t` and index `i` is the `Offset(t) + i`-th of the run, and
  both ways of numbering are injective in that (`NumbersDiffer`). `SeqInv` says where in the
  run `seq` and `base_seq` are; `SentInv` and `AnswersInv` that what is under way carries the
  number of the probe it is about; so a packet that is matched is about the probe it is
  matched with (`CreditIsGenuine`).
* `HopsInOrder` adds `OrderInv` (the lines printed are the TTLs up to this one) and `RouteInv`
  (no probe is sent once the target was reached, and none went further).
* `SignalIsHeeded`: no probe is sent any more, the line of the hop under way is the last one,
  at most six steps are left, also if the signal comes between the loop test and `poll()`.
* `SearchAdvances`, for `-m` below 255: hops left, phase of the hop, probes of the hop to send,
  packets to read and turns of waiting. Those are counted through both clock reads
  (`WaitAt`): a delay between them either ends the wait or leaves less of it (`TurnsLeft`,
  `LaterTurns`). `poll()` gives up at most twice for a hop, beside the packets it wakes up for.

### pscan

* `TypeCorrect`, `PortsProbedOnce`, `RateIsKept`, `BurstIsBounded` from `IInv`: the types; the
  list is a permutation of the range whatever is swapped while it is shuffled (`PortsInv`);
  those probed are a prefix of it (`ProbedInv`); the clock is ordered (`ClockInv`); the tokens
  spent and held never exceed those earned (`RateInv`), and the bucket is never more than
  one refill over its size (`BurstInv`).
* `AnnouncedIsOpen` and `ReportIsSound` from `TruthInv`: packets under way, marks and
  announcements only say what the target has. That a port announced was probed by
  this scan is not claimed: its answer is told by the port alone, and with a source port that
  another process shares it may come before the probe. The second, about the final report, is stated for
  ranges whose last port is below the largest `u_short` (`LowEnd`); `pscan_top_port` shows
  that without that it is false.
* `ScanAdvances`, also under `LowEnd`: the tuple is the stage of the run, the ports it has left,
  packets to read, what is left to wait and the steps to the next clock read. The part with
  content is the token bucket: the sleep computed for the missing tokens is rounded, and still
  every sleep brings the bucket nearer to a token, however small the rate.

### sniff

* `TypeCorrect`, `NothingIsLost`, `SocketIsReleased`, `OtherInterfacesAreBounded` from `IInv`:
  what is held at each stage of opening (`HeldFits`, `StageFits`), that Linux has no BPF
  buffer, that a packet taken from the kernel is in the buffer, in hand or captured, that the
  limit is kept, and that packets queued before `bind()` are few.
* `FileIsReadable` from `FileInv` and `SafeOnDisk`. What the process has put into the file, on the disk
  or still in stdio's buffer, is `Whole`. As long as no write failed it is the file header and
  the records of the captured packets with nothing missing, and those counted are out on the
  disk (`Everything`). What is on the disk stays there at its offset (`DiskGrows`), so a
  reader that goes by lengths alone finds the packets counted before the first refused write also
  after it (`SafeOnDisk`); where it reads on, it may read anything.
* `CaptureIsALog`: `Spec => RefinesCaptureLog`, each step a step of `CaptureLog` or a stutter.
* `SignalIsHeeded`: after a signal at most one packet more is captured, however many are queued,
  and at most seven steps are left.

### Model-checked only

Liveness under fairness (`Terminates`, `SignalStops`, `CountStops`, `KeepsUp`, ...) and `ENABLED`
are out of the prover's reach. Every invariant and refinement that a passing run checks
is a theorem, under the conditions it states.

## Not modelled, and why

* Printing, formatting, option parsing other than pscan's `-p`, help: wording.
* The layout of headers and checksums: a packet is a record of the fields that
  decide what is done with it. Length checks drop a packet, like a foreign one.
* Overflow of the `int` that holds a poll timeout in milliseconds: it takes an
  interval or timeout of more than 24 days.
* `poll()` returning an error on the socket of the ping-like tools: the loop goes
  round as after a timeout.
* sniff's `process_packet` and the dumps: they read a packet and print.
* the wrappers of `net.c` other than those of `CaptureSocket`: `send_packet` is a packet
  that goes out or does not, `setsockopt` wrappers have no state here. The ICMP
  datagram socket of unprivileged systems: the kernel then chooses the identifier.
* `calculate_checksum` and the parsing of addresses: pure conversions.
* sniff, between opening its socket and its file, asks for promiscuous mode and gives up
  the rights of root (`sniff.c:446-453`). It looks at neither result, and neither changes
  anything the model looks at: what the interface then receives is the network's choice anyway.
* pscan `-u`: ICMP errors about datagrams of other processes to the ports it scans.
* traceroute: datagrams of other processes to the ports that `-U` probes.

## Plan

Done: the loop of the ping-like tools and its three users, traceroute, pscan, sniff with its
socket, two abstract specifications, and the proofs above. Left, in this order:

1. Pure functions: `calculate_checksum` against the ones'-complement sum, `integer_sqrt`
   against its definition, over bounded inputs.
2. The send and receive wrappers of `net.c` that the ping-like tools use, composed with
   `PollLoop`, and the errors they pass on.
3. An abstract specification of arping, whose replies carry no number, and its refinement.
4. Theorems about the modules of 1 and 2.
