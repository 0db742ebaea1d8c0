------------------------------ MODULE PollLoopProofs ------------------------------
(****************************************************************************)
(* What the proofs about Tcping and Arping share.  First, the accounts of   *)
(* a window of probes, as facts about arrays st (sent_times) and res        *)
(* (replied_or_timeout), the head and the tail of the window, the number n  *)
(* of probes sent and the set filed of those that have met their fate, and  *)
(* about the pace that keeps a slot free; then the types the steps of       *)
(* PollLoop keep, the steps after keep_running was cleared, and a measure   *)
(* that the others lower.                                                   *)
(****************************************************************************)
EXTENDS PollLoop, ProbeWindowProofs, FiniteSetTheorems, TLAPS

(* The probe slot s belongs to: PollLoop's Owner. *)
OwnerOf(s, t, n) == n + 1 - (IF s = t THEN SeqMod ELSE Dist(s, t))

UsedSlots(st, head, t, n) ==
  /\ \A s \in Slot : st[s] > 0 <=> OwnerOf(s, t, n) >= 1
  /\ Dist(head, t) <= n

(* A slot still open belongs to a probe that has not been filed. *)
OpenUnfiled(st, res, t, n, filed) ==
  \A s \in Slot : st[s] > 0 /\ ~res[s] => OwnerOf(s, t, n) \notin filed

(* A slot in use is open and will be swept, or its probe has been filed;  *)
(* and so has every probe that lost its slot to a later one.               *)
NoneForgotten(st, res, head, t, n, filed) ==
  /\ 1 .. n - SeqMod \subseteq filed
  /\ \A s \in Slot : st[s] > 0 =>
       IF res[s] THEN OwnerOf(s, t, n) \in filed ELSE s \in Window(head, t)

LEMMA OwnerOfFacts ==
  ASSUME NEW t \in Slot, NEW n \in Nat
  PROVE  /\ \A s \in Slot : OwnerOf(s, t, n) \in Int /\ OwnerOf(s, t, n) <= n
         /\ OwnerOf(t, t, n) = n + 1 - SeqMod
         /\ \A s \in Slot : s # t => OwnerOf(s, t, n) = n + 1 - Dist(s, t)
         /\ \A r, s \in Slot : OwnerOf(r, t, n) = OwnerOf(s, t, n) => r = s
BY SeqModAssumption DEF Slot, OwnerOf, Dist

LEMMA OwnerOfAfterSend ==
  ASSUME NEW t \in Slot, NEW n \in Nat, NEW s \in Slot
  PROVE  OwnerOf(s, Succ(t), n + 1) = IF s = t THEN n + 1 ELSE OwnerOf(s, t, n)
BY SeqModAssumption DEF Slot, OwnerOf, Dist, Succ

LEMMA OwnerOfInWindow ==
  ASSUME NEW t \in Slot, NEW n \in Nat, NEW head \in Slot, Dist(head, t) <= n,
         NEW s \in Window(head, t)
  PROVE  s \in Slot /\ OwnerOf(s, t, n) >= 1
BY SeqModAssumption DEF Slot, OwnerOf, Dist, Window

LEMMA OwnerOfOnto ==
  ASSUME NEW t \in Slot, NEW n \in Nat, NEW p \in 1 .. n, p > n - SeqMod
  PROVE  \E s \in Slot : OwnerOf(s, t, n) = p
<1>1. CASE p = n + 1 - SeqMod
  BY <1>1 DEF OwnerOf
<1>2. CASE p # n + 1 - SeqMod
  <2>1. n + 1 - p \in 1 .. SeqMod - 1
    BY <1>2, SeqModAssumption
  <2>2. PICK s \in Slot : s # t /\ Dist(s, t) = n + 1 - p
    BY <2>1, SlotBefore
  <2> QED BY <2>2, SeqModAssumption DEF OwnerOf, Slot
<1> QED BY <1>1, <1>2

-------------------------------------------------------------------------------
(* A probe is sent: slot t is opened for it. *)

LEMMA UsedAfterSend ==
  ASSUME NEW t \in Slot, NEW n \in Nat, NEW head \in Slot, NEW st \in [Slot -> Nat],
         NEW now \in Nat \ {0}, UsedSlots(st, head, t, n)
  PROVE  UsedSlots([st EXCEPT ![t] = now], head, Succ(t), n + 1)
<1>1. ASSUME NEW s \in Slot
      PROVE  [st EXCEPT ![t] = now][s] > 0 <=> OwnerOf(s, Succ(t), n + 1) >= 1
  <2>1. OwnerOf(s, Succ(t), n + 1) = IF s = t THEN n + 1 ELSE OwnerOf(s, t, n)
    BY OwnerOfAfterSend
  <2>2. [st EXCEPT ![t] = now][s] = IF s = t THEN now ELSE st[s]
    OBVIOUS
  <2> QED BY <2>1, <2>2 DEF UsedSlots
<1>2. Dist(head, Succ(t)) <= n + 1
  <2>1. Dist(head, t) \in Int /\ Dist(head, t) <= n
    BY SlotFacts DEF UsedSlots
  <2>2. Dist(head, Succ(t)) \in {0, Dist(head, t) + 1}
    BY DistToSucc
  <2> QED BY <2>1, <2>2
<1> QED BY <1>1, <1>2 DEF UsedSlots

LEMMA UnfiledAfterSend ==
  ASSUME NEW t \in Slot, NEW n \in Nat, NEW st \in [Slot -> Nat], NEW res \in [Slot -> BOOLEAN],
         NEW now, NEW filed, filed \subseteq 1 .. n, OpenUnfiled(st, res, t, n, filed)
  PROVE  OpenUnfiled([st EXCEPT ![t] = now], [res EXCEPT ![t] = FALSE], Succ(t), n + 1, filed)
<1>1. n + 1 \notin filed
  OBVIOUS
<1>2. ASSUME NEW s \in Slot, [st EXCEPT ![t] = now][s] > 0, ~[res EXCEPT ![t] = FALSE][s]
      PROVE  OwnerOf(s, Succ(t), n + 1) \notin filed
  <2>1. OwnerOf(s, Succ(t), n + 1) = IF s = t THEN n + 1 ELSE OwnerOf(s, t, n)
    BY OwnerOfAfterSend
  <2>2. s # t => st[s] > 0 /\ ~res[s]
    BY <1>2
  <2> QED BY <1>1, <2>1, <2>2 DEF OpenUnfiled
<1> QED BY <1>2 DEF OpenUnfiled

LEMMA ForgottenAfterSend ==
  ASSUME NEW t \in Slot, NEW n \in Nat, NEW head \in Slot, NEW st \in [Slot -> Nat],
         NEW res \in [Slot -> BOOLEAN], NEW now, NEW filed,
         UsedSlots(st, head, t, n), Dist(head, t) < SeqMod - 1,
         NoneForgotten(st, res, head, t, n, filed)
  PROVE  NoneForgotten([st EXCEPT ![t] = now], [res EXCEPT ![t] = FALSE], head, Succ(t), n + 1, filed)
<1>1. 1 .. (n + 1) - SeqMod \subseteq filed
  <2>1. 1 .. n - SeqMod \subseteq filed
    BY DEF NoneForgotten
  <2>2. ASSUME n + 1 - SeqMod >= 1 PROVE n + 1 - SeqMod \in filed
    <3>1. OwnerOf(t, t, n) = n + 1 - SeqMod
      BY OwnerOfFacts
    <3>2. st[t] > 0 /\ t \notin Window(head, t)
      BY <2>2, <3>1, SlotFacts DEF UsedSlots, Window
    <3> QED BY <3>1, <3>2 DEF NoneForgotten
  <2>3. ASSUME NEW p \in 1 .. (n + 1) - SeqMod PROVE p \in filed
    <3>1. p \in 1 .. n - SeqMod \/ p = n + 1 - SeqMod
      BY SeqModAssumption
    <3> QED BY <2>1, <2>2, <2>3, <3>1, SeqModAssumption
  <2> QED BY <2>3
<1>2. ASSUME NEW s \in Slot, [st EXCEPT ![t] = now][s] > 0
      PROVE  IF [res EXCEPT ![t] = FALSE][s] THEN OwnerOf(s, Succ(t), n + 1) \in filed
             ELSE s \in Window(head, Succ(t))
  <2>1. OwnerOf(s, Succ(t), n + 1) = IF s = t THEN n + 1 ELSE OwnerOf(s, t, n)
    BY OwnerOfAfterSend
  <2>2. s \in Window(head, Succ(t)) <=> s \in Window(head, t) \/ s = t
    BY WindowGrows
  <2>3. CASE s = t
    BY <2>2, <2>3
  <2>4. CASE s # t
    <3>1. st[s] > 0 /\ [res EXCEPT ![t] = FALSE][s] = res[s]
      BY <1>2, <2>4
    <3> QED BY <2>1, <2>2, <2>4, <3>1 DEF NoneForgotten
  <2> QED BY <2>3, <2>4
<1> QED BY <1>1, <1>2 DEF NoneForgotten

-------------------------------------------------------------------------------
(* The sweep goes on to h and gives up on the slots lost. *)

LEMMA SweptSlots ==
  ASSUME NEW t \in Slot, NEW n \in Nat, NEW head \in Slot, NEW h \in Slot,
         h \in Window(head, t) \cup {t}, NEW st \in [Slot -> Nat], NEW res \in [Slot -> BOOLEAN],
         UsedSlots(st, head, t, n), NEW s \in Window(head, h)
  PROVE  s \in Slot /\ s \in Window(head, t) /\ st[s] > 0 /\ OwnerOf(s, t, n) \in 1 .. n
<1>1. s \in Slot /\ s \in Window(head, t)
  BY WindowSplits DEF Window
<1>2. OwnerOf(s, t, n) >= 1
  BY <1>1, OwnerOfInWindow DEF UsedSlots
<1>3. OwnerOf(s, t, n) \in Int /\ OwnerOf(s, t, n) <= n
  BY <1>1, OwnerOfFacts
<1> QED BY <1>1, <1>2, <1>3 DEF UsedSlots

LEMMA UsedAfterSweep ==
  ASSUME NEW t \in Slot, NEW n \in Nat, NEW head \in Slot, NEW h \in Slot,
         h \in Window(head, t) \cup {t}, NEW st, UsedSlots(st, head, t, n)
  PROVE  UsedSlots(st, h, t, n)
<1>1. Dist(h, t) <= Dist(head, t)
  BY SeqModAssumption DEF Window, Dist, Slot
<1>2. Dist(h, t) \in Int /\ Dist(head, t) \in Int
  BY SlotFacts
<1> QED BY <1>1, <1>2 DEF UsedSlots

LEMMA UnfiledAfterSweep ==
  ASSUME NEW t \in Slot, NEW n \in Nat, NEW res \in [Slot -> BOOLEAN], NEW lost \in SUBSET Slot,
         NEW st, NEW filed, OpenUnfiled(st, res, t, n, filed)
  PROVE  OpenUnfiled(st, [s \in Slot |-> res[s] \/ s \in lost], t, n,
                     filed \cup {OwnerOf(s, t, n) : s \in lost})
<1> SUFFICES ASSUME NEW s \in Slot, st[s] > 0, ~res[s], s \notin lost
             PROVE  OwnerOf(s, t, n) \notin filed \cup {OwnerOf(r, t, n) : r \in lost}
  BY DEF OpenUnfiled
<1>1. OwnerOf(s, t, n) \notin filed
  BY DEF OpenUnfiled
<1>2. \A r \in lost : OwnerOf(r, t, n) # OwnerOf(s, t, n)
  BY OwnerOfFacts
<1> QED BY <1>1, <1>2

LEMMA ForgottenAfterSweep ==
  ASSUME NEW t \in Slot, NEW n \in Nat, NEW head \in Slot, NEW h \in Slot,
         h \in Window(head, t) \cup {t}, NEW res \in [Slot -> BOOLEAN], NEW st, NEW filed,
         NEW lost \in SUBSET Slot, NEW swept \in [Slot -> BOOLEAN], NEW settled,
         \A s \in Slot : s \in lost <=> s \in Window(head, h) /\ ~res[s],
         \A s \in Slot : swept[s] <=> res[s] \/ s \in lost,
         filed \subseteq settled, \A s \in lost : OwnerOf(s, t, n) \in settled,
         NoneForgotten(st, res, head, t, n, filed)
  PROVE  NoneForgotten(st, swept, h, t, n, settled)
<1> SUFFICES ASSUME NEW s \in Slot, st[s] > 0
             PROVE  IF res[s] \/ s \in lost THEN OwnerOf(s, t, n) \in settled
                                            ELSE s \in Window(h, t)
  BY DEF NoneForgotten
<1>1. CASE res[s]
  BY <1>1 DEF NoneForgotten
<1>2. CASE s \in lost
  BY <1>2
<1>3. CASE ~res[s] /\ s \notin lost
  <2>1. s \in Window(head, t) /\ s \notin Window(head, h)
    BY <1>3 DEF NoneForgotten
  <2> QED BY <1>3, <2>1, WindowSplits
<1> QED BY <1>1, <1>2, <1>3

-------------------------------------------------------------------------------
(* Slot s is closed; if it was in use, its probe is filed.                 *)

LEMMA UnfiledAfterClose ==
  ASSUME NEW t \in Slot, NEW n \in Nat, NEW res \in [Slot -> BOOLEAN], NEW s \in Slot,
         NEW st, NEW filed, OpenUnfiled(st, res, t, n, filed)
  PROVE  OpenUnfiled(st, [res EXCEPT ![s] = TRUE], t, n, filed \cup {OwnerOf(s, t, n)})
<1> SUFFICES ASSUME NEW r \in Slot, st[r] > 0, ~res[r], r # s
             PROVE  OwnerOf(r, t, n) \notin filed \cup {OwnerOf(s, t, n)}
  BY DEF OpenUnfiled
<1>1. OwnerOf(r, t, n) \notin filed
  BY DEF OpenUnfiled
<1>2. OwnerOf(r, t, n) # OwnerOf(s, t, n)
  BY OwnerOfFacts
<1> QED BY <1>1, <1>2

LEMMA ForgottenAfterClose ==
  ASSUME NEW t, NEW n, NEW head, NEW res \in [Slot -> BOOLEAN], NEW s \in Slot,
         NEW st, NEW filed, NEW more, filed \subseteq more, st[s] > 0 => OwnerOf(s, t, n) \in more,
         NoneForgotten(st, res, head, t, n, filed)
  PROVE  NoneForgotten(st, [res EXCEPT ![s] = TRUE], head, t, n, more)
<1> SUFFICES ASSUME NEW r \in Slot, st[r] > 0
             PROVE  IF [res EXCEPT ![s] = TRUE][r] THEN OwnerOf(r, t, n) \in more
                                                   ELSE r \in Window(head, t)
  BY DEF NoneForgotten
<1>1. CASE r = s
  BY <1>1
<1>2. CASE r # s
  <2>1. [res EXCEPT ![s] = TRUE][r] = res[r]
    BY <1>2
  <2> QED BY <2>1 DEF NoneForgotten
<1> QED BY <1>1, <1>2

-------------------------------------------------------------------------------
(* When the head has reached the tail, every probe has been filed.         *)
LEMMA AllFiled ==
  ASSUME NEW t \in Slot, NEW n \in Nat, NEW st, NEW res, NEW filed,
         UsedSlots(st, t, t, n), NoneForgotten(st, res, t, t, n, filed)
  PROVE  1 .. n \subseteq filed
<1> SUFFICES ASSUME NEW p \in 1 .. n, p > n - SeqMod PROVE p \in filed
  BY SeqModAssumption DEF NoneForgotten
<1>1. PICK s \in Slot : OwnerOf(s, t, n) = p
  BY OwnerOfOnto
<1>2. st[s] > 0
  BY <1>1 DEF UsedSlots
<1>3. s \notin Window(t, t)
  BY SeqModAssumption DEF Window, Dist, Slot
<1> QED BY <1>1, <1>2, <1>3 DEF NoneForgotten

(* The probes a sweep gives up on are the oldest that are outstanding.     *)
SweptAreOldest(head, h, t, n, res, filed) ==
  /\ n - Dist(h, t) \in 0 .. n
  /\ \A s \in Window(head, h) : ~res[s] =>
       OwnerOf(s, t, n) \in (1 .. n) \ filed /\ OwnerOf(s, t, n) <= n - Dist(h, t)
  /\ \A p \in (1 .. n) \ filed : p <= n - Dist(h, t) =>
       \E s \in Window(head, h) : ~res[s] /\ OwnerOf(s, t, n) = p

LEMMA SweepTakesOldest ==
  ASSUME NEW t \in Slot, NEW n \in Nat, NEW head \in Slot, NEW h \in Slot,
         h \in Window(head, t) \cup {t}, NEW st \in [Slot -> Nat], NEW res \in [Slot -> BOOLEAN],
         NEW filed, UsedSlots(st, head, t, n), OpenUnfiled(st, res, t, n, filed),
         NoneForgotten(st, res, head, t, n, filed)
  PROVE  SweptAreOldest(head, h, t, n, res, filed)
<1>1. /\ Dist(h, t) \in 0 .. SeqMod - 1 /\ Dist(head, t) \in 0 .. SeqMod - 1
      /\ Dist(h, t) <= Dist(head, t) /\ Dist(head, t) <= n
  BY SeqModAssumption DEF Window, Dist, Slot, UsedSlots
<1> DEFINE m == n - Dist(h, t)
<1>2. m \in 0 .. n
  BY <1>1
<1>3. ASSUME NEW s \in Window(head, h), ~res[s]
      PROVE  OwnerOf(s, t, n) \in (1 .. n) \ filed /\ OwnerOf(s, t, n) <= m
  <2>1. s \in Slot /\ st[s] > 0 /\ OwnerOf(s, t, n) \in 1 .. n
    BY SweptSlots
  <2>2. s # t /\ Dist(s, t) > Dist(h, t)
    BY <2>1, WindowOrder
  <2>3. Dist(s, t) \in Int
    BY <2>1, SlotFacts
  <2>4. OwnerOf(s, t, n) = n + 1 - Dist(s, t)
    BY <2>1, <2>2, OwnerOfFacts
  <2>5. OwnerOf(s, t, n) <= m
    BY <1>1, <2>2, <2>3, <2>4
  <2>6. OwnerOf(s, t, n) \notin filed
    BY <1>3, <2>1 DEF OpenUnfiled
  <2> QED BY <2>1, <2>5, <2>6
<1>4. ASSUME NEW p \in (1 .. n) \ filed, p <= m
      PROVE  \E s \in Window(head, h) : ~res[s] /\ OwnerOf(s, t, n) = p
  <2>0. p > n - SeqMod
    BY SeqModAssumption DEF NoneForgotten
  <2>1. PICK s \in Slot : OwnerOf(s, t, n) = p
    BY <2>0, OwnerOfOnto
  <2>2. st[s] > 0
    BY <2>1 DEF UsedSlots
  <2>3. ~res[s] /\ s \in Window(head, t)
    BY <2>1, <2>2 DEF NoneForgotten
  <2>4. ASSUME s \in Window(h, t) PROVE FALSE
    <3>1. s # t /\ Dist(s, t) <= Dist(h, t)
      BY <2>4, WindowOrder
    <3>2. Dist(s, t) \in Int /\ OwnerOf(s, t, n) = n + 1 - Dist(s, t)
      BY <3>1, SlotFacts, OwnerOfFacts
    <3> QED BY <1>1, <1>4, <2>1, <3>1, <3>2
  <2>5. s \in Window(head, h)
    BY <2>3, <2>4, WindowSplits
  <2> QED BY <2>1, <2>3, <2>5
<1> HIDE DEF m
<1> QED BY <1>2, <1>3, <1>4 DEF m, SweptAreOldest

-------------------------------------------------------------------------------
(* Room in the ring.  The pace of the sends and the sweep that follows each *)
(* of them keep the window short, whatever the delays of the process.      *)

Paced(st, head, t, next, now, swept) ==
  /\ \A s \in Slot : st[s] <= now
  /\ Spaced(st, head, t, Interval, next)
  /\ swept => Fresh(st, head, t, Timeout)

(* Either there are fewer probes than slots, or those of one timeout leave *)
(* room for the next.                                                      *)
EnoughSlots == Count \in 1 .. SeqMod - 1 \/ RingLasts(Interval, Timeout)

LEMMA RoomForProbe ==
  ASSUME EnoughSlots, NEW t \in Slot, NEW head \in Slot, NEW st \in [Slot -> Nat], NEW n \in Nat,
         Count = 0 \/ n < Count, UsedSlots(st, head, t, n), NEW next, NEW now,
         Paced(st, head, t, next, now, TRUE)
  PROVE  Dist(head, t) < SeqMod - 1
<1>1. CASE Count \in 1 .. SeqMod - 1
  <2>1. Dist(head, t) \in Int /\ Dist(head, t) <= n /\ n < Count
    BY <1>1, SlotFacts DEF UsedSlots
  <2> QED BY <1>1, <2>1, SeqModAssumption
<1>2. CASE RingLasts(Interval, Timeout)
  BY <1>2, RoomToSend, LoopAssumption DEF Paced
<1> QED BY <1>1, <1>2 DEF EnoughSlots

LEMMA PacedAfterSend ==
  ASSUME NEW t \in Slot, NEW head \in Slot, NEW st \in [Slot -> Nat], NEW next \in Nat,
         NEW now \in Nat, next <= now, Dist(head, t) < SeqMod - 1,
         NEW swept, Paced(st, head, t, next, now, swept)
  PROVE  Paced([st EXCEPT ![t] = now], head, Succ(t), now + Interval, now, FALSE)
<1>1. \A s \in Slot : [st EXCEPT ![t] = now][s] <= now
  BY DEF Paced
<1>2. now + Interval \in Nat /\ Interval \in Nat /\ now + Interval <= now + Interval
  BY LoopAssumption
<1>3. Spaced(st, head, t, Interval, next)
  BY DEF Paced
<1>4. Spaced([st EXCEPT ![t] = now], head, Succ(t), Interval, now + Interval)
  <2> DEFINE later == now + Interval
  <2>1. later \in Nat /\ now + Interval <= later
    BY <1>2
  <2> HIDE DEF later
  <2>2. Spaced([st EXCEPT ![t] = now], head, Succ(t), Interval, later)
    BY <1>2, <1>3, <2>1, SpacedAfterSend
  <2> QED BY <2>2 DEF later
<1> QED BY <1>1, <1>4 DEF Paced

LEMMA PacedAfterSweep ==
  ASSUME NEW t \in Slot, NEW head \in Slot, NEW h \in Slot, NEW st \in [Slot -> Nat], NEW res,
         NEW next, NEW now \in Nat, SweepStopsAt(head, h, t, res, st, now, Timeout),
         NEW swept, Paced(st, head, t, next, now, swept), NEW more
  PROVE  Paced(st, h, t, next, now, more)
<1>1. Fresh(st, h, t, Timeout)
  BY FreshAfterSweep, LoopAssumption DEF Paced
<1>2. h \in Window(head, t) \cup {t}
  BY DEF SweepStopsAt
<1>3. Spaced(st, h, t, Interval, next)
  BY <1>2, SpacedAfterSweep DEF Paced
<1> QED BY <1>1, <1>3 DEF Paced

LEMMA PacedLater ==
  ASSUME NEW t, NEW head, NEW st \in [Slot -> Nat], NEW next, NEW now \in Nat, NEW later \in Nat,
         later >= now, NEW swept, NEW still, still => swept,
         Paced(st, head, t, next, now, swept)
  PROVE  Paced(st, head, t, next, later, still)
BY DEF Paced

(* A probe that has met no fate is open in the window, where the sweep will *)
(* come to it.                                                             *)
LEMMA OutstandingInWindow ==
  ASSUME NEW t \in Slot, NEW n \in Nat, NEW head \in Slot, NEW st, NEW res, NEW filed,
         UsedSlots(st, head, t, n), NoneForgotten(st, res, head, t, n, filed),
         NEW p \in 1 .. n, p \notin filed
  PROVE  \E s \in Window(head, t) : ~res[s] /\ OwnerOf(s, t, n) = p
<1>1. p > n - SeqMod
  BY SeqModAssumption DEF NoneForgotten
<1>2. PICK s \in Slot : OwnerOf(s, t, n) = p
  BY <1>1, OwnerOfOnto
<1>3. st[s] > 0
  BY <1>2 DEF UsedSlots
<1> QED BY <1>2, <1>3 DEF NoneForgotten

-------------------------------------------------------------------------------
(* The steps of the loop. *)

LEMMA PollUntilType ==
  ASSUME NEW now \in Nat, NEW may, NEW next \in Int, NEW expiry \in Int
  PROVE  PollUntil(now, WaitMs(now, may, next, expiry)) \in Nat \cup {Forever}
<1>1. RoundedMs(next - now) \in Int /\ RoundedMs(expiry - now) \in Int
  BY RoundedMsFacts
<1>2. WaitMs(now, may, next, expiry) \in Int
  BY <1>1 DEF WaitMs
<1>3. ASSUME NEW ms \in Int PROVE PollUntil(now, ms) \in Nat \cup {Forever}
  <2>1. CASE ms < 0
    BY <2>1 DEF PollUntil
  <2>2. CASE ms >= 0
    <3>1. ms * NsPerMs \in Nat
      BY <2>2, NsPerMsAssumption
    <3> QED BY <2>2, <3>1 DEF PollUntil
  <2> QED BY <2>1, <2>2
<1> QED BY <1>2, <1>3

(* Those that look at no packet, send nothing and expire nothing. *)
QuietStep == HeadExit \/ HeadIdle \/ PollBegins \/ PollReturns \/ DrainEnd \/ HandleSigint
             \/ Tick \/ UNCHANGED loopvars

LEMMA QuietFacts ==
  ASSUME LoopTypeOK, QuietStep
  PROVE  /\ LoopTypeOK'
         /\ UNCHANGED <<sent, received, slots, history, on_wire, sockbuf, heard>>
         /\ keep_running' => keep_running
         /\ clock' >= clock /\ next_send_time' = next_send_time
         /\ pc' \in {pc, "head", "sweep", "poll", "drain", "done"} /\ (pc = "sweep" => pc' = "sweep")
         /\ \/ exit_by' = exit_by /\ (pc' = "done" <=> pc = "done")
            \/ exit_by' = "signal" /\ pc' = "done" /\ pc # "done" /\ ~keep_running
<1>1. CASE HeadExit
  BY <1>1 DEF HeadExit, Exit, LoopTypeOK, slots, history, world
<1>2. CASE HeadIdle \/ PollBegins \/ PollReturns \/ DrainEnd
  <2>1. /\ UNCHANGED <<exit_by, keep_running, sent, received, slots, next_send_time, poll_until,
                       world, history>>
        /\ lag' = 0 /\ pc \in {"head", "call", "poll", "drain"} /\ pc' \in {"sweep", "poll", "drain", "head"}
    BY <1>2 DEF HeadIdle, PollBegins, PollReturns, DrainEnd
  <2> QED BY <2>1 DEF LoopTypeOK, slots, history, world
<1>3. CASE HandleSigint
  <2>1. /\ UNCHANGED <<exit_by, sent, received, slots, next_send_time, poll_until, lag, world, history>>
        /\ keep_running' = FALSE /\ pc # "done" /\ pc' # "done" /\ pc' \in {"head", pc}
        /\ pc = "sweep" => pc' = "sweep"
    BY <1>3 DEF HandleSigint
  <2>2. LoopTypeOK'
    BY <2>1 DEF LoopTypeOK, slots, history, world
  <2>3. UNCHANGED clock /\ clock \in Nat /\ UNCHANGED <<on_wire, sockbuf, heard>>
    BY <2>1 DEF LoopTypeOK, world
  <2>4. clock' >= clock
    BY <2>3
  <2> QED BY <2>1, <2>2, <2>3, <2>4
<1>4. CASE Tick
  <2>1. clock' \in Nat \ {0} /\ clock' >= clock /\ lag' \in Nat
    BY <1>4 DEF Tick, LoopTypeOK
  <2>2. poll_until' \in Nat \cup {Forever}
    BY <1>4, <2>1 DEF Tick, LoopTypeOK
  <2> QED BY <1>4, <2>1, <2>2 DEF Tick, LoopTypeOK, slots, history
<1>5. CASE UNCHANGED loopvars
  BY <1>5 DEF loopvars, LoopTypeOK, slots, history, world
<1> QED BY <1>1, <1>2, <1>3, <1>4, <1>5 DEF QuietStep

LEMMA SendFacts ==
  ASSUME LoopTypeOK, NEW t \in Slot, OpenSlot(t), CountSend
  PROVE  /\ LoopTypeOK'
         /\ sent_times' = [sent_times EXCEPT ![t] = clock]
         /\ replied_or_timeout' = [replied_or_timeout EXCEPT ![t] = FALSE]
         /\ sent' = sent + 1 /\ pc = "head" /\ pc' = "sweep"
         /\ Count = 0 \/ sent < Count
         /\ next_send_time <= clock /\ next_send_time' = clock + Interval
         /\ UNCHANGED <<keep_running, received, exit_by, next_timeout_check_seq, clock,
                        sockbuf, heard, answered, expired>>
<1>1. answered' \subseteq 1 .. sent' /\ expired' \subseteq 1 .. sent'
  BY DEF LoopTypeOK, OpenSlot, CountSend, history
<1>2. next_send_time' \in Nat
  BY LoopAssumption DEF LoopTypeOK, CountSend
<1>3. /\ sent_times' = [sent_times EXCEPT ![t] = clock]
      /\ replied_or_timeout' = [replied_or_timeout EXCEPT ![t] = FALSE]
      /\ sent' = sent + 1 /\ pc = "head" /\ pc' = "sweep" /\ lag' = 0
      /\ Count = 0 \/ sent < Count
      /\ clock >= next_send_time /\ next_send_time' = clock + Interval
      /\ UNCHANGED <<keep_running, received, exit_by, next_timeout_check_seq, clock, poll_until,
                     arrivals, sockbuf, heard, answered, expired>>
  BY DEF OpenSlot, CountSend, SendDue, MaySend, history
<1>4. LoopTypeOK'
  BY <1>1, <1>2, <1>3 DEF LoopTypeOK
<1> QED BY <1>3, <1>4

LEMMA SweepFacts ==
  ASSUME LoopTypeOK, NEW t \in Slot, UsedSlots(sent_times, next_timeout_check_seq, t, sent), SweepTo(t)
  PROVE  /\ LoopTypeOK'
         /\ pc = "sweep" /\ pc' \in {"done", "call"}
         /\ UNCHANGED <<keep_running, sent, received, sent_times, on_wire, sockbuf, heard, answered,
                        clock, next_send_time>>
         /\ \E h \in Slot, lost \in SUBSET Slot :
              /\ h \in Window(next_timeout_check_seq, t) \cup {t}
              /\ SweepStopsAt(next_timeout_check_seq, h, t, replied_or_timeout, sent_times, clock,
                              Timeout)
              /\ lost = {s \in Window(next_timeout_check_seq, h) : ~replied_or_timeout[s]}
              /\ next_timeout_check_seq' = h
              /\ replied_or_timeout' = [s \in Slot |-> replied_or_timeout[s] \/ s \in lost]
              /\ expired' = expired \cup {OwnerOf(s, t, sent) : s \in lost}
              /\ IF AllDone(h, t) THEN pc' = "done" /\ exit_by' = "count"
                                  ELSE pc' = "call" /\ exit_by' = exit_by
<1>1. PICK h \in Slot :
        /\ SweepStopsAt(next_timeout_check_seq, h, t, replied_or_timeout,
                        sent_times, clock, Timeout)
        /\ next_timeout_check_seq' = h
        /\ replied_or_timeout' = [s \in Slot |-> replied_or_timeout[s] \/ s \in Lost(h)]
        /\ expired' = expired \cup {Owner(s, t) : s \in Lost(h)}
        /\ IF AllDone(h, t)
           THEN pc' = "done" /\ exit_by' = "count" /\ UNCHANGED poll_until
           ELSE /\ pc' = "call" /\ UNCHANGED exit_by
                /\ poll_until' = PollUntil(clock,
                     WaitMs(clock, MaySend, next_send_time, sent_times[h] + Timeout))
  BY DEF SweepTo
<1>2. /\ pc = "sweep" /\ lag' = 0
      /\ UNCHANGED <<keep_running, sent, received, sent_times, next_send_time, world, answered>>
  BY DEF SweepTo
<1>3. h \in Window(next_timeout_check_seq, t) \cup {t}
  BY <1>1 DEF SweepStopsAt
<1>4. Lost(h) = {s \in Window(next_timeout_check_seq, h) : ~replied_or_timeout[s]}
      /\ Lost(h) \subseteq Slot
  BY DEF Lost, Window
<1>5. \A s \in Slot : Owner(s, t) = OwnerOf(s, t, sent)
  BY DEF Owner, OwnerOf
<1>6. {Owner(s, t) : s \in Lost(h)} = {OwnerOf(s, t, sent) : s \in Lost(h)}
  BY <1>4, <1>5
<1>7. \A s \in Lost(h) : OwnerOf(s, t, sent) \in 1 .. sent
  BY <1>3, <1>4, SweptSlots DEF LoopTypeOK
<1>8. expired' \subseteq 1 .. sent
  <2>1. {OwnerOf(s, t, sent) : s \in Lost(h)} \subseteq 1 .. sent
    BY <1>7
  <2> QED BY <1>1, <1>6, <2>1 DEF LoopTypeOK
<1>9. poll_until' \in Nat \cup {Forever}
  <2>1. sent_times[h] + Timeout \in Int
    BY LoopAssumption DEF LoopTypeOK
  <2>2. PollUntil(clock, WaitMs(clock, MaySend, next_send_time, sent_times[h] + Timeout)) \in Nat \cup {Forever}
    BY <2>1, PollUntilType DEF LoopTypeOK
  <2> QED BY <1>1, <2>2 DEF LoopTypeOK
<1>10. replied_or_timeout' \in [Slot -> BOOLEAN]
  BY <1>1 DEF LoopTypeOK
<1>11. LoopTypeOK'
  BY <1>1, <1>2, <1>8, <1>9, <1>10 DEF LoopTypeOK, world
<1>12. UNCHANGED <<keep_running, sent, received, sent_times, on_wire, sockbuf, heard, answered, clock,
                   next_send_time>>
  BY <1>2 DEF world
<1>13. /\ IF AllDone(h, t) THEN pc' = "done" /\ exit_by' = "count"
                           ELSE pc' = "call" /\ exit_by' = exit_by
       /\ pc' \in {"done", "call"}
  BY <1>1
<1>14. expired' = expired \cup {OwnerOf(s, t, sent) : s \in Lost(h)}
  BY <1>1, <1>6
<1> QED BY <1>1, <1>2, <1>3, <1>4, <1>11, <1>12, <1>13, <1>14

LEMMA TakeFacts ==
  ASSUME LoopTypeOK, NEW P, sockbuf \in Seq(P), TakePacket
  PROVE  /\ keep_running' \in BOOLEAN /\ received' \in Nat
           /\ replied_or_timeout' \in [Slot -> BOOLEAN] /\ answered' \subseteq 1 .. sent
           => LoopTypeOK'
         /\ Head(sockbuf) = sockbuf[1] /\ 1 \in 1 .. Len(sockbuf) /\ sockbuf[1] \in P
         /\ sockbuf' \in Seq(P)
         /\ \A i \in 1 .. Len(sockbuf') : i + 1 \in 1 .. Len(sockbuf) /\ sockbuf'[i] = sockbuf[i + 1]
         /\ UNCHANGED <<pc, exit_by, sent, next_timeout_check_seq, sent_times, clock, on_wire,
                        heard, expired, next_send_time>>
         /\ pc = "drain" /\ keep_running
<1>1. sockbuf # <<>> /\ sockbuf' = Tail(sockbuf) /\ pc = "drain" /\ keep_running
  BY DEF TakePacket, Drains
<1>2. /\ Head(sockbuf) = sockbuf[1] /\ 1 \in 1 .. Len(sockbuf) /\ sockbuf[1] \in P
      /\ sockbuf' \in Seq(P) /\ Len(sockbuf') = Len(sockbuf) - 1 /\ Len(sockbuf) \in Nat
  BY <1>1
<1>3. \A i \in 1 .. Len(sockbuf') : i + 1 \in 1 .. Len(sockbuf) /\ sockbuf'[i] = sockbuf[i + 1]
  BY <1>1
<1>4. UNCHANGED <<pc, exit_by, sent, next_timeout_check_seq, sent_times, next_send_time,
                 poll_until, clock, on_wire, arrivals, heard, expired>> /\ lag' = 0
  BY DEF TakePacket
<1>5. Len(sockbuf') <= QueueLen
  BY <1>2, LoopAssumption DEF LoopTypeOK
<1> QED BY <1>1, <1>2, <1>3, <1>4, <1>5 DEF LoopTypeOK

LEMMA EnqueueFacts ==
  ASSUME LoopTypeOK, NEW P, sockbuf \in Seq(P), NEW p \in P, Enqueue(p)
  PROVE  /\ LoopTypeOK' /\ sockbuf' \in Seq(P) /\ pc # "done"
         /\ \A i \in 1 .. Len(sockbuf') :
              \/ i \in 1 .. Len(sockbuf) /\ sockbuf'[i] = sockbuf[i]
              \/ sockbuf'[i] = p
         /\ UNCHANGED <<pc, exit_by, keep_running, sent, received, slots, clock, on_wire, history,
                        next_send_time>>
<1>1. sockbuf' = Append(sockbuf, p) /\ Len(sockbuf) < QueueLen /\ arrivals < MaxArrivals
      /\ arrivals' = arrivals + 1 /\ pc # "done"
  BY DEF Enqueue
<1>2. sockbuf' \in Seq(P) /\ Len(sockbuf') <= QueueLen /\ arrivals' \in 0 .. MaxArrivals
  BY <1>1, LoopAssumption DEF LoopTypeOK
<1>3. \A i \in 1 .. Len(sockbuf') :
        \/ i \in 1 .. Len(sockbuf) /\ sockbuf'[i] = sockbuf[i]
        \/ sockbuf'[i] = p
  BY <1>1
<1>4. UNCHANGED <<pc, exit_by, keep_running, sent, received, slots, next_send_time, poll_until,
                  clock, lag, on_wire, history>>
  BY DEF Enqueue
<1> QED BY <1>1, <1>2, <1>3, <1>4 DEF LoopTypeOK, slots, history

-------------------------------------------------------------------------------
(* What is left to do after a signal.                                      *)

(* Steps of the process before the run is over, once keep_running is       *)
(* cleared; "setup" is tcping's.                                           *)
StepsLeft ==
  CASE pc = "done" -> 0 [] pc = "head" -> 1 [] pc \in {"drain", "setup"} -> 2 [] pc = "poll" -> 3
    [] pc = "call" -> 4 [] OTHER -> 5

(* Nothing is sent and no packet is filed any more; the sweep may still    *)
(* report probes that have timed out.                                      *)
Idle == UNCHANGED <<keep_running, sent, on_wire, received, answered>>

LEMMA LastLoopSteps ==
  ASSUME ~keep_running, NEW t,
         SweepTo(t) \/ HeadExit \/ HeadIdle \/ PollBegins \/ PollReturns \/ DrainEnd
  PROVE  Idle /\ StepsLeft' < StepsLeft
<1>1. CASE SweepTo(t)
  <2>1. /\ pc = "sweep" /\ pc' \in {"done", "call"}
        /\ UNCHANGED <<keep_running, sent, received, world, answered>>
    BY <1>1 DEF SweepTo
  <2> QED BY <2>1 DEF StepsLeft, Idle, world
<1>2. CASE HeadExit
  <2>1. pc = "head" /\ pc' = "done" /\ UNCHANGED <<keep_running, sent, received, world, history>>
    BY <1>2 DEF HeadExit, Exit
  <2> QED BY <2>1 DEF StepsLeft, Idle, world, history
<1>3. CASE PollBegins \/ PollReturns \/ DrainEnd
  <2>1. /\ \/ pc = "call" /\ pc' = "poll"
           \/ pc = "poll" /\ pc' \in {"drain", "head"}
           \/ pc = "drain" /\ pc' = "head"
        /\ UNCHANGED <<keep_running, sent, received, world, history>>
    BY <1>3 DEF PollBegins, PollReturns, DrainEnd
  <2> QED BY <2>1 DEF StepsLeft, Idle, world, history
<1> QED BY <1>1, <1>2, <1>3 DEF HeadIdle

(* The sending of a probe and the taking of a packet need keep_running.    *)
LEMMA NoMoreWork ==
  ASSUME ~keep_running
  PROVE  ~TakePacket /\ \A t : ~OpenSlot(t)
BY DEF TakePacket, Drains, OpenSlot

LEMMA Bystanders ==
  ASSUME Tick \/ \E p : Enqueue(p)
  PROVE  Idle /\ UNCHANGED pc
BY DEF Tick, Enqueue, Idle, history

-------------------------------------------------------------------------------
(* The loop does not go round in circles.                                  *)

(* When there is something to do, if no packet comes.                      *)
Due == IF MaySend THEN next_send_time ELSE sent_times[next_timeout_check_seq] + Timeout

(* How often poll() may still give up before; an emptied socket buffer     *)
(* counts as a new beginning.                                              *)
WaitLeft ==
  CASE ~keep_running \/ pc = "done" -> 0
    [] keep_running /\ pc \in {"call", "poll"} ->
         IF PollGaveUp /\ SendDue THEN 0 ELSE 2 * Turns(Due - poll_until) + 1
    [] keep_running /\ pc = "drain" -> IF sockbuf = <<>> THEN 5 ELSE 0
    [] keep_running /\ pc = "setup" -> 5
    [] OTHER                        -> 2 * Turns(Due - clock)

(* The steps from one poll() to the next; a probe that is due, or a packet *)
(* that waits, ends the turn.                                              *)
Phase ==
  CASE ~keep_running                -> StepsLeft
    [] keep_running /\ pc = "done"  -> 0
    [] keep_running /\ pc = "head"  -> IF SendDue THEN 1 ELSE 5
    [] keep_running /\ pc = "poll"  -> 2
    [] keep_running /\ pc = "call"  -> 3
    [] keep_running /\ pc = "sweep" -> 4
    [] OTHER                        -> IF pc = "drain" /\ sockbuf # <<>> THEN 1 ELSE 6

PacketsLeft == MaxArrivals - arrivals + Len(sockbuf)
Running     == IF keep_running THEN 1 ELSE 0

LEMMA DueTurns ==
  ASSUME LoopTypeOK
  PROVE  /\ Due \in Int /\ clock \in Nat /\ poll_until \in Int
         /\ Due - clock \in Int /\ Due - poll_until \in Int
         /\ Turns(Due - clock) \in 0 .. 2 /\ Turns(Due - poll_until) \in 0 .. 2
<1>1. Due \in Int /\ clock \in Nat /\ poll_until \in Int
  BY LoopAssumption DEF LoopTypeOK, Due, Forever
<1>2. Due - clock \in Int /\ Due - poll_until \in Int
  BY <1>1
<1> QED BY <1>1, <1>2, TurnsOrder

LEMMA DueInNext ==
  ASSUME LoopTypeOK'
  PROVE  Turns(Due' - clock') \in 0 .. 2
<1>1. Due' \in Int /\ clock' \in Nat
  <2>1. /\ next_send_time' \in Nat /\ sent_times' \in [Slot -> Nat]
        /\ next_timeout_check_seq' \in Slot /\ clock' \in Nat
    BY DEF LoopTypeOK
  <2> QED BY <2>1, LoopAssumption DEF Due
<1>2. Due' - clock' \in Int
  BY <1>1
<1> QED BY <1>2, TurnsOrder

LEMMA MeasuresAreNatural ==
  ASSUME LoopTypeOK, NEW P, sockbuf \in Seq(P)
  PROVE  Running \in Nat /\ PacketsLeft \in Nat /\ WaitLeft \in Nat /\ Phase \in Nat
<1>1. Running \in Nat
  BY DEF Running
<1>2. PacketsLeft \in Nat
  <2>1. Len(sockbuf) \in Nat
    OBVIOUS
  <2> QED BY <2>1, LoopAssumption DEF LoopTypeOK, PacketsLeft
<1>3. WaitLeft \in Nat
  BY DueTurns DEF WaitLeft
<1>4. Phase \in Nat
  BY DEF Phase, StepsLeft
<1> QED BY <1>1, <1>2, <1>3, <1>4

(* One step further: d and e are how long the window was and is. *)
Further(d, e) ==
  \/ Running' < Running
  \/ Running' = Running /\ e < d
  \/ Running' = Running /\ e = d /\ PacketsLeft' < PacketsLeft
  \/ Running' = Running /\ e = d /\ PacketsLeft' = PacketsLeft /\ WaitLeft' < WaitLeft
  \/ /\ Running' = Running /\ e = d /\ PacketsLeft' = PacketsLeft /\ WaitLeft' = WaitLeft
     /\ Phase' < Phase

LEMMA FurtherLowers ==
  ASSUME NEW d, NEW e, Further(d, e)
  PROVE  Lower(<<Running', e, PacketsLeft', WaitLeft', Phase'>>,
               <<Running, d, PacketsLeft, WaitLeft, Phase>>)
<1> DEFINE a1 == Running'
           a3 == PacketsLeft'
           a4 == WaitLeft'
           a5 == Phase'
           b1 == Running
           b3 == PacketsLeft
           b4 == WaitLeft
           b5 == Phase
<1>1. \/ a1 < b1
      \/ a1 = b1 /\ e < d
      \/ a1 = b1 /\ e = d /\ a3 < b3
      \/ a1 = b1 /\ e = d /\ a3 = b3 /\ a4 < b4
      \/ a1 = b1 /\ e = d /\ a3 = b3 /\ a4 = b4 /\ a5 < b5
  BY DEF Further
<1> HIDE DEF a1, a3, a4, a5, b1, b3, b4, b5
<1>2. Lower(<<a1, e, a3, a4, a5>>, <<b1, d, b3, b4, b5>>)
  BY <1>1, LowerFive
<1> QED BY <1>2 DEF a1, a3, a4, a5, b1, b3, b4, b5

LEMMA LoopStepFurther ==
  ASSUME LoopTypeOK, HeadExit \/ HeadIdle \/ PollBegins \/ PollReturns \/ DrainEnd, NEW d
  PROVE  Further(d, d) /\ next_timeout_check_seq' = next_timeout_check_seq
<1>0. /\ UNCHANGED <<keep_running, sent, slots, next_send_time, poll_until, world>>
      /\ next_timeout_check_seq' = next_timeout_check_seq
      /\ Due' = Due /\ SendDue' = SendDue /\ PacketsLeft' = PacketsLeft /\ Running' = Running
      /\ UNCHANGED <<clock, sockbuf>> /\ PollGaveUp' = PollGaveUp
  BY DEF HeadExit, Exit, HeadIdle, PollBegins, PollReturns, DrainEnd, Due, MaySend, SendDue, PacketsLeft,
         Running, PollGaveUp, slots, world
<1>1. CASE ~keep_running
  <2>1. StepsLeft' < StepsLeft
    BY <1>1, LastLoopSteps
  <2> QED BY <1>0, <1>1, <2>1 DEF Further, WaitLeft, Phase
<1>2. CASE keep_running /\ HeadIdle
  <2>1. pc = "head" /\ pc' = "sweep" /\ ~SendDue
    BY <1>2 DEF HeadIdle
  <2>2. WaitLeft' = WaitLeft /\ Phase' < Phase
    BY <1>0, <1>2, <2>1 DEF WaitLeft, Phase
  <2> QED BY <1>0, <2>2 DEF Further
<1>3. CASE keep_running /\ PollReturns
  <2>1. CASE sockbuf # <<>>
    <3>1. pc = "poll" /\ pc' = "drain"
      BY <1>3, <2>1 DEF PollReturns
    <3>2. WaitLeft' = 0 /\ WaitLeft \in Nat /\ Phase' = 1 /\ Phase = 2
      BY <1>0, <1>3, <2>1, <3>1, DueTurns DEF WaitLeft, Phase
    <3> QED BY <1>0, <3>2 DEF Further
  <2>2. CASE sockbuf = <<>>
    <3>1. pc = "poll" /\ pc' = "head" /\ PollGaveUp /\ clock >= poll_until
      BY <1>3, <2>2 DEF PollReturns, PollGaveUp
    <3>2. CASE SendDue
      <4>1. Due - clock <= 0 /\ Due - clock \in Int
        BY <3>2, DueTurns DEF SendDue, Due, LoopTypeOK
      <4>2. Turns(Due - clock) = 0
        BY <4>1 DEF Turns
      <4>3. WaitLeft' = 0 /\ WaitLeft = 0 /\ Phase' = 1 /\ Phase = 2
        BY <1>0, <1>3, <3>1, <3>2, <4>2 DEF WaitLeft, Phase
      <4> QED BY <1>0, <4>3 DEF Further
    <3>3. CASE ~SendDue
      <4>1. Due - clock <= Due - poll_until
        BY <3>1, DueTurns
      <4>2. Turns(Due - clock) <= Turns(Due - poll_until)
        BY <4>1, DueTurns, TurnsOrder
      <4>3. WaitLeft' = 2 * Turns(Due - clock) /\ WaitLeft = 2 * Turns(Due - poll_until) + 1
        BY <1>0, <1>3, <3>1, <3>3 DEF WaitLeft
      <4>4. WaitLeft' < WaitLeft
        BY <4>2, <4>3, DueTurns
      <4> QED BY <1>0, <4>4 DEF Further
    <3> QED BY <3>2, <3>3
  <2> QED BY <2>1, <2>2
<1>4. CASE keep_running /\ DrainEnd
  <2>1. pc = "drain" /\ pc' = "head" /\ sockbuf = <<>>
    BY <1>4 DEF DrainEnd, Drains
  <2>2. WaitLeft = 5 /\ WaitLeft' = 2 * Turns(Due - clock)
    BY <1>0, <1>4, <2>1 DEF WaitLeft
  <2>3. WaitLeft' < WaitLeft
    BY <2>2, DueTurns
  <2> QED BY <1>0, <2>3 DEF Further
<1>5. CASE keep_running /\ HeadExit
  BY <1>5 DEF HeadExit
<1>6. CASE keep_running /\ PollBegins
  <2>1. pc = "call" /\ pc' = "poll"
    BY <1>6 DEF PollBegins
  <2>2. poll_until' = poll_until
    BY <1>0
  <2>3. WaitLeft' = WaitLeft /\ Phase' = 2 /\ Phase = 3
    BY <1>0, <1>6, <2>1, <2>2 DEF WaitLeft, Phase
  <2> QED BY <1>0, <2>3 DEF Further
<1> QED BY <1>0, <1>1, <1>2, <1>3, <1>4, <1>5, <1>6

LEMMA SweepFurther ==
  ASSUME LoopTypeOK, NEW t \in Slot, SweepTo(t)
  PROVE  Further(Dist(next_timeout_check_seq, t), Dist(next_timeout_check_seq', t))
<1> DEFINE n == next_timeout_check_seq
<1>1. PICK h \in Slot :
        /\ SweepStopsAt(n, h, t, replied_or_timeout, sent_times, clock, Timeout)
        /\ next_timeout_check_seq' = h
        /\ IF AllDone(h, t)
           THEN pc' = "done"
           ELSE /\ pc' = "call"
                /\ poll_until' = PollUntil(clock,
                     WaitMs(clock, MaySend, next_send_time, sent_times[h] + Timeout))
  BY DEF SweepTo
<1>2. /\ pc = "sweep" /\ UNCHANGED <<keep_running, sent, sent_times, next_send_time, clock, sockbuf, arrivals>>
      /\ Running' = Running /\ PacketsLeft' = PacketsLeft
      /\ MaySend' = MaySend /\ SendDue' = SendDue
  BY DEF SweepTo, world, Running, PacketsLeft, MaySend, SendDue
<1>3. n \in Slot /\ Dist(n, t) \in Int /\ Dist(h, t) \in Int
  BY SlotFacts DEF LoopTypeOK
<1>4. CASE h # n
  <2>1. h \in Window(n, t) \cup {t}
    BY <1>1 DEF SweepStopsAt
  <2>2. n \in Window(n, h)
    BY <1>3, <1>4, SlotFacts DEF Window
  <2>3. Dist(n, t) > Dist(h, t)
    BY <2>1, <2>2, <1>3, WindowOrder
  <2> QED BY <1>1, <1>2, <1>3, <2>3 DEF Further
<1>5. CASE h = n
  <2>0. Due' = Due
    BY <1>1, <1>2, <1>5 DEF Due
  <2>1. CASE ~keep_running
    <3>1. StepsLeft' < StepsLeft
      BY <2>1, LastLoopSteps
    <3> QED BY <1>1, <1>2, <1>5, <2>1, <3>1 DEF Further, WaitLeft, Phase
  <2>2. CASE keep_running /\ AllDone(h, t)
    <3>1. WaitLeft' = 0 /\ WaitLeft \in Nat /\ Phase' = 0 /\ Phase = 4
      BY <1>1, <1>2, <2>2, DueTurns DEF WaitLeft, Phase
    <3> QED BY <1>1, <1>2, <1>5, <3>1 DEF Further
  <2>3. CASE keep_running /\ ~AllDone(h, t) /\ SendDue
    <3>1. /\ WaitMs(clock, MaySend, next_send_time, sent_times[h] + Timeout) = 0
          /\ clock \in Nat /\ NsPerMs \in Nat
      BY <2>3, NsPerMsAssumption DEF SendDue, WaitMs, LoopTypeOK
    <3>2. poll_until' = clock
      BY <1>1, <2>3, <3>1 DEF PollUntil
    <3>3. PollGaveUp' /\ SendDue' /\ pc' = "call"
      BY <1>1, <1>2, <2>3, <3>1, <3>2 DEF PollGaveUp, Forever
    <3>4. WaitLeft' = 0 /\ WaitLeft \in Nat /\ Phase' = 3 /\ Phase = 4
      BY <1>2, <2>3, <3>3, DueTurns DEF WaitLeft, Phase
    <3> QED BY <1>1, <1>2, <1>5, <3>4 DEF Further
  <2>4. CASE keep_running /\ ~AllDone(h, t) /\ ~SendDue
    <3>1. Due > clock
      <4>1. CASE MaySend
        BY <4>1, <2>4 DEF Due, SendDue, LoopTypeOK
      <4>2. CASE ~MaySend
        <5>1. h # t
          BY <4>2, <2>4, LoopAssumption DEF MaySend, AllDone, LoopTypeOK
        <5>2. ~Passes(h, replied_or_timeout, sent_times, clock, Timeout)
          BY <5>1, <1>1 DEF SweepStopsAt
        <5> QED BY <4>2, <5>2, <1>5, LoopAssumption DEF Passes, Due, LoopTypeOK
      <4> QED BY <4>1, <4>2
    <3>2. WaitMs(clock, MaySend, next_send_time, sent_times[h] + Timeout) = RoundedMs(Due - clock)
      BY <3>1, <1>5 DEF WaitMs, Due
    <3>3. poll_until' = PollUntil(clock, RoundedMs(Due - clock)) /\ pc' = "call"
      BY <1>1, <2>4, <3>2
    <3>4. /\ poll_until' \in Nat /\ poll_until' > clock
          /\ Turns(Due - poll_until') < Turns(Due - clock)
      BY <3>1, <3>3, DueTurns, TurnsPass
    <3>5. Turns(Due - poll_until') \in 0 .. 2 /\ Turns(Due - clock) \in 0 .. 2
      <4>1. Due - poll_until' \in Int
        BY <3>4, DueTurns
      <4> QED BY <4>1, DueTurns, TurnsOrder
    <3>6. WaitLeft' = 2 * Turns(Due - poll_until') + 1 /\ WaitLeft = 2 * Turns(Due - clock)
      BY <1>2, <2>0, <2>4, <3>3 DEF WaitLeft
    <3>7. WaitLeft' < WaitLeft
      BY <3>4, <3>5, <3>6
    <3> QED BY <1>1, <1>2, <1>5, <3>7 DEF Further
  <2> QED BY <2>1, <2>2, <2>3, <2>4
<1> QED BY <1>4, <1>5

LEMMA TakeFurther ==
  ASSUME LoopTypeOK, NEW P, sockbuf \in Seq(P), TakePacket, NEW d
  PROVE  Further(d, d) /\ next_timeout_check_seq' = next_timeout_check_seq
<1>1. /\ keep_running /\ sockbuf # <<>> /\ sockbuf' = Tail(sockbuf) /\ arrivals' = arrivals
      /\ next_timeout_check_seq' = next_timeout_check_seq
  BY DEF TakePacket, Drains
<1>2. Len(sockbuf') = Len(sockbuf) - 1 /\ Len(sockbuf) \in Nat
  BY <1>1
<1>3. PacketsLeft' < PacketsLeft
  BY <1>1, <1>2, LoopAssumption DEF PacketsLeft, LoopTypeOK
<1>4. Running' < Running \/ Running' = Running
  BY <1>1 DEF Running
<1> QED BY <1>1, <1>3, <1>4 DEF Further

(* What happens outside the process takes nothing back. *)
SameMeasures == UNCHANGED <<Running, PacketsLeft, WaitLeft, Phase>>

LEMMA WorldFurther ==
  ASSUME LoopTypeOK, NEW P, sockbuf \in Seq(P), NEW d,
         HandleSigint \/ Tick \/ \E p \in P : Enqueue(p)
  PROVE  /\ SameMeasures \/ Further(d, d)
         /\ UNCHANGED <<next_timeout_check_seq, sent>>
<1>1. CASE HandleSigint
  <2>1. keep_running /\ ~keep_running' /\ UNCHANGED <<next_timeout_check_seq, sent>>
    BY <1>1 DEF HandleSigint, slots
  <2> QED BY <2>1 DEF Further, Running
<1>2. CASE Tick
  <2>1. /\ UNCHANGED <<pc, keep_running, sent, next_timeout_check_seq, sent_times, next_send_time,
                       sockbuf, arrivals>>
        /\ clock' \in {clock, clock + 1}
    BY <1>2 DEF Tick, slots
  <2>0. /\ poll_until' \in Int /\ poll_until <= poll_until'
        /\ poll_until # Forever => poll_until' # Forever
        /\ poll_until' = poll_until
           \/ (poll_until # Forever /\ poll_until' - poll_until = clock' - clock)
    BY <1>2, <2>1 DEF Tick, LoopTypeOK, Forever
  <2>2. /\ Running' = Running /\ PacketsLeft' = PacketsLeft /\ Due' = Due /\ MaySend' = MaySend
        /\ StepsLeft' = StepsLeft
    BY <2>1 DEF Running, PacketsLeft, Due, MaySend, StepsLeft
  <2>3. (SendDue => SendDue') /\ (PollGaveUp => PollGaveUp')
    <3>1. clock \in Int /\ clock' \in Int /\ clock <= clock'
      BY <2>1 DEF LoopTypeOK
    <3>2. next_send_time \in Int /\ next_send_time' = next_send_time
      BY <2>1 DEF LoopTypeOK
    <3>3. poll_until \in Int
      BY DEF LoopTypeOK, Forever
    <3>4. SendDue => SendDue'
      BY <2>2, <3>1, <3>2 DEF SendDue
    <3>5. PollGaveUp => PollGaveUp'
      <4>1. ASSUME poll_until # Forever, clock >= poll_until PROVE PollGaveUp'
        <5>1. poll_until' # Forever
          BY <4>1, <2>0
        <5>2. clock' >= poll_until'
          BY <4>1, <3>1, <3>3, <2>0
        <5> QED BY <5>1, <5>2 DEF PollGaveUp
      <4> QED BY <4>1 DEF PollGaveUp
    <3> QED BY <3>4, <3>5
  <2>4. /\ Turns(Due - clock') \in 0 .. 2 /\ Turns(Due - clock') <= Turns(Due - clock)
    <3>1. Due - clock' \in Int /\ Due - clock' <= Due - clock
      BY <2>1, DueTurns
    <3> QED BY <3>1, DueTurns, TurnsOrder
  <2>5. WaitLeft \in Nat /\ WaitLeft' \in Nat /\ WaitLeft' <= WaitLeft
    <3>1. CASE ~keep_running \/ pc \in {"done", "setup", "drain"}
      BY <2>1, <3>1 DEF WaitLeft
    <3>2. CASE keep_running /\ pc \in {"call", "poll"}
      <4> DEFINE before == Turns(Due - poll_until)
                 after  == Turns(Due - poll_until')
      <4>1. before \in Nat /\ after \in Nat /\ after <= before
        <5>1. Due - poll_until' \in Int /\ Due - poll_until' <= Due - poll_until
          BY <2>0, DueTurns
        <5> QED BY <5>1, DueTurns, TurnsOrder
      <4>2. /\ WaitLeft  = IF PollGaveUp /\ SendDue THEN 0 ELSE 2 * before + 1
            /\ WaitLeft' = IF PollGaveUp' /\ SendDue' THEN 0 ELSE 2 * after + 1
        BY <2>1, <2>2, <3>2 DEF WaitLeft
      <4> HIDE DEF before, after
      <4> QED BY <2>3, <4>1, <4>2
    <3>3. CASE keep_running /\ pc \notin {"done", "setup", "drain", "call", "poll"}
      <4>1. WaitLeft = 2 * Turns(Due - clock) /\ WaitLeft' = 2 * Turns(Due - clock')
        BY <2>1, <2>2, <3>3 DEF WaitLeft
      <4> DEFINE before == Turns(Due - clock)
                 after  == Turns(Due - clock')
      <4>2. before \in Nat /\ after \in Nat /\ after <= before
        BY <2>4, DueTurns
      <4>3. WaitLeft = 2 * before /\ WaitLeft' = 2 * after
        BY <4>1
      <4> HIDE DEF before, after
      <4> QED BY <4>2, <4>3
    <3> QED BY <3>1, <3>2, <3>3
  <2>6. Phase \in Nat /\ Phase' \in Nat /\ Phase' <= Phase
    BY <2>1, <2>2, <2>3 DEF Phase, StepsLeft
  <2> QED BY <2>1, <2>2, <2>5, <2>6 DEF SameMeasures, Further
<1>3. CASE \E p \in P : Enqueue(p)
  <2>1. PICK p \in P : Enqueue(p)
    BY <1>3
  <2>2. /\ UNCHANGED <<pc, keep_running, sent, next_timeout_check_seq, sent_times, next_send_time,
                       poll_until, clock>>
        /\ sockbuf' = Append(sockbuf, p) /\ arrivals' = arrivals + 1
    BY <2>1 DEF Enqueue, slots
  <2>3. Len(sockbuf') = Len(sockbuf) + 1 /\ Len(sockbuf) \in Nat /\ sockbuf' # <<>>
    BY <2>2
  <2>4. PacketsLeft' = PacketsLeft
    BY <2>2, <2>3, LoopAssumption DEF PacketsLeft, LoopTypeOK
  <2>5. /\ Running' = Running /\ Due' = Due /\ SendDue' = SendDue /\ PollGaveUp' = PollGaveUp
        /\ StepsLeft' = StepsLeft
    BY <2>2 DEF Running, Due, MaySend, SendDue, PollGaveUp, StepsLeft
  <2>6. CASE keep_running /\ pc = "drain" /\ sockbuf = <<>>
    <3>1. WaitLeft = 5 /\ WaitLeft' = 0
      BY <2>2, <2>3, <2>6 DEF WaitLeft
    <3> QED BY <2>2, <2>4, <2>5, <3>1 DEF Further
  <2>7. CASE ~(keep_running /\ pc = "drain" /\ sockbuf = <<>>)
    <3>1. WaitLeft' = WaitLeft
      BY <2>2, <2>3, <2>5, <2>7 DEF WaitLeft
    <3>2. Phase' = Phase
      BY <2>2, <2>3, <2>5, <2>7 DEF Phase
    <3> QED BY <2>2, <2>4, <2>5, <3>1, <3>2 DEF SameMeasures
  <2> QED BY <2>6, <2>7
<1> QED BY <1>1, <1>2, <1>3

===============================================================================
