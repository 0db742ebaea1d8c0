----------------------------- MODULE ProbeWindowProofs -----------------------------
(****************************************************************************)
(* Arithmetic of the slots, for every number of them: what a wrapping       *)
(* number, the window between two of them and the sweep over it do; when    *)
(* the ring of slots is long enough for probes sent at a pace; and the      *)
(* order in which the loops of the tools make headway.                      *)
(****************************************************************************)
EXTENDS ProbeWindow, WellFoundedInduction, TLAPS

LEMMA SlotFacts ==
  /\ SeqMod \in Nat /\ SeqMod >= 2
  /\ \A s \in Slot : Succ(s) \in Slot
  /\ \A s, t \in Slot : Dist(s, t) \in 0 .. SeqMod - 1
  /\ \A s, t \in Slot : Dist(s, t) = 0 <=> s = t
BY SeqModAssumption DEF Slot, Succ, Dist

(* The n-th predecessor of a slot exists.                                  *)
LEMMA SlotBefore ==
  ASSUME NEW t \in Slot, NEW n \in 1 .. SeqMod - 1
  PROVE  \E s \in Slot : s # t /\ Dist(s, t) = n
<1>1. CASE n <= t
  <2>1. t - n \in Slot /\ t - n # t /\ Dist(t - n, t) = n
    BY <1>1, SeqModAssumption DEF Slot, Dist
  <2> QED BY <2>1
<1>2. CASE n > t
  <2>1. t - n + SeqMod \in Slot /\ t - n + SeqMod # t /\ Dist(t - n + SeqMod, t) = n
    BY <1>2, SeqModAssumption DEF Slot, Dist
  <2> QED BY <2>1
<1> QED BY <1>1, <1>2, SeqModAssumption DEF Slot

(* A walk from head to stop and on to tail visits each slot in one half.   *)
LEMMA WindowSplits ==
  ASSUME NEW head \in Slot, NEW tail \in Slot,
         NEW stop \in Window(head, tail) \cup {tail}, NEW s \in Slot
  PROVE  s \in Window(head, tail) <=> s \in Window(head, stop) \/ s \in Window(stop, tail)
BY SeqModAssumption DEF Slot, Dist, Window

LEMMA DistToSucc ==
  ASSUME NEW head \in Slot, NEW tail \in Slot
  PROVE  Dist(head, Succ(tail)) = IF Succ(tail) = head THEN 0 ELSE Dist(head, tail) + 1
BY SeqModAssumption DEF Slot, Dist, Succ

LEMMA WindowGrows ==
  ASSUME NEW head \in Slot, NEW tail \in Slot, Dist(head, tail) < SeqMod - 1, NEW s \in Slot
  PROVE  s \in Window(head, Succ(tail)) <=> s \in Window(head, tail) \/ s = tail
BY SeqModAssumption DEF Slot, Dist, Window, Succ

-------------------------------------------------------------------------------
(* Waiting.  Rounding to milliseconds costs at most one of them.           *)

LEMMA DivisionFacts ==
  ASSUME NEW x \in Int, NEW n \in Nat \ {0}
  PROVE  x \div n \in Int /\ (x \div n) * n <= x /\ x < (x \div n) * n + n
BY Z3

LEMMA RoundedMsFacts ==
  ASSUME NEW ns \in Int
  PROVE  /\ RoundedMs(ns) \in Int
         /\ ns > 0 => RoundedMs(ns) >= 1 /\ RoundedMs(ns) * NsPerMs <= ns + NsPerMs
<1> DEFINE q == ns \div NsPerMs
<1>1. NsPerMs \in Nat \ {0}
  BY NsPerMsAssumption
<1>2. q \in Int /\ q * NsPerMs <= ns /\ ns < q * NsPerMs + NsPerMs
  BY <1>1, DivisionFacts
<1>3. RoundedMs(ns) = IF q = 0 THEN 1 ELSE q
  BY DEF RoundedMs
<1> HIDE DEF q
<1>4. ASSUME ns > 0 PROVE q >= 0
  <2>1. CASE q <= -1
    <3>1. q * NsPerMs <= (-1) * NsPerMs
      BY <1>1, <1>2, <2>1
    <3> QED BY <1>1, <1>2, <1>4, <3>1
  <2> QED BY <1>2, <2>1
<1> QED BY <1>1, <1>2, <1>3, <1>4


(* Slots before stop are farther from the tail than those from stop on.    *)
LEMMA WindowOrder ==
  ASSUME NEW head \in Slot, NEW tail \in Slot,
         NEW stop \in Window(head, tail) \cup {tail}, NEW s \in Slot
  PROVE  /\ s \in Window(head, stop) => s # tail /\ Dist(s, tail) > Dist(stop, tail)
         /\ s \in Window(stop, tail) => s # tail /\ Dist(s, tail) <= Dist(stop, tail)
BY SeqModAssumption DEF Slot, Dist, Window


-------------------------------------------------------------------------------
(* Numbers reduced to a slot. *)

LEMMA RemainderDefined ==
  ASSUME NEW x \in Int, NEW n \in Int, n > 0
  PROVE  x % n = x - n * (x \div n)
BY Z3

LEMMA RemainderFacts ==
  ASSUME NEW x \in Nat, NEW n \in Nat \ {0}
  PROVE  \E q \in Int, r \in 0 .. n - 1 : x % n = r /\ x = q * n + r
<1>1. x \div n \in Int /\ x % n \in 0 .. n - 1
  BY Z3
<1>2. ASSUME NEW q \in Int, NEW r \in Int, r = x - n * q PROVE x = q * n + r
  BY <1>2
<1> DEFINE q == x \div n
           r == x % n
<1>3. r = x - n * q
  BY RemainderDefined
<1>4. q \in Int /\ r \in 0 .. n - 1 /\ r \in Int
  BY <1>1
<1>r. x % n = r
  OBVIOUS
<1> HIDE DEF q, r
<1>5. x = q * n + r
  BY <1>2, <1>3, <1>4
<1> QED BY <1>4, <1>5, <1>r

LEMMA SlotAfter ==
  ASSUME NEW x \in Nat, NEW d \in 0 .. SeqMod - 1
  PROVE  /\ x % SeqMod \in Slot
         /\ (x + d) % SeqMod = IF (x % SeqMod) + d < SeqMod THEN (x % SeqMod) + d
                                                         ELSE (x % SeqMod) + d - SeqMod
<1> DEFINE M == SeqMod
<1>1. M \in Nat /\ M >= 2 /\ M \in Nat \ {0} /\ d \in Nat /\ d < M /\ x + d \in Nat
  BY SeqModAssumption
<1>2. PICK q \in Int, r \in 0 .. M - 1 : x % M = r /\ x = q * M + r
  BY <1>1, RemainderFacts
<1>3. PICK q2 \in Int, r2 \in 0 .. M - 1 : (x + d) % M = r2 /\ x + d = q2 * M + r2
  BY <1>1, RemainderFacts
<1>4. r \in Slot /\ M = SeqMod
  BY DEF Slot
<1> DEFINE k == q2 - q
<1> HIDE DEF M
<1>k. k \in Int
  OBVIOUS
<1>5. k \in Int /\ k * M \in Int
  BY <1>1, <1>k
<1>6. q2 * M = q * M + k * M /\ q * M \in Int /\ q2 * M \in Int
  BY <1>1
<1> HIDE DEF k
<1>a. x = q * M + r /\ x + d = q2 * M + r2
  BY <1>2, <1>3
<1>7. r2 = r + d - k * M
  BY <1>1, <1>a, <1>5, <1>6
<1>8. k * M < 2 * M /\ k * M > -M
  BY <1>1, <1>5, <1>7
<1>9. ASSUME k >= 2 PROVE FALSE
  <2>1. k * M >= 2 * M
    BY <1>1, <1>5, <1>9
  <2> QED BY <1>1, <1>5, <1>8, <2>1
<1>10. ASSUME k <= -1 PROVE FALSE
  <2>1. k * M <= (-1) * M
    BY <1>1, <1>5, <1>10
  <2> QED BY <1>1, <1>5, <1>8, <2>1
<1>11. r2 = IF r + d < M THEN r + d ELSE r + d - M
  <2>1. CASE k = 0
    BY <1>1, <1>7, <2>1
  <2>2. CASE k = 1
    BY <1>1, <1>7, <2>2
  <2> QED BY <1>5, <1>9, <1>10, <2>1, <2>2
<1>12. r2 = IF r + d < SeqMod THEN r + d ELSE r + d - SeqMod
  BY <1>11 DEF M
<1>13. x % SeqMod = r /\ (x + d) % SeqMod = r2
  BY <1>2, <1>3 DEF M
<1> QED BY <1>4, <1>12, <1>13, Zenon

(* Consecutive numbers have consecutive slots, and while there are fewer of *)
(* them than slots, they are as far apart as their slots.                  *)
LEMMA NumberToSlot ==
  ASSUME NEW x \in Nat
  PROVE  /\ x % SeqMod \in Slot
         /\ (x + 1) % SeqMod = Succ(x % SeqMod)
         /\ \A d \in 1 .. SeqMod - 1 :
              /\ x % SeqMod # (x + d) % SeqMod
              /\ Dist(x % SeqMod, (x + d) % SeqMod) = d
<1> DEFINE r == x % SeqMod
<1>1. SeqMod \in Nat /\ SeqMod >= 2 /\ 0 \in 0 .. SeqMod - 1 /\ 1 \in 0 .. SeqMod - 1
  BY SeqModAssumption
<1>2. r \in Slot
  BY <1>1, SlotAfter
<1>3. ASSUME NEW d \in 0 .. SeqMod - 1
      PROVE  (x + d) % SeqMod = IF r + d < SeqMod THEN r + d ELSE r + d - SeqMod
  BY SlotAfter
<1> HIDE DEF r
<1>4. (x + 1) % SeqMod = Succ(r)
  BY <1>1, <1>2, <1>3 DEF Succ, Slot
<1>5. ASSUME NEW d \in 1 .. SeqMod - 1
      PROVE  r # (x + d) % SeqMod /\ Dist(r, (x + d) % SeqMod) = d
  <2>1. (x + d) % SeqMod = IF r + d < SeqMod THEN r + d ELSE r + d - SeqMod
    BY <1>1, <1>3
  <2>2. ASSUME NEW y, y = IF r + d < SeqMod THEN r + d ELSE r + d - SeqMod
        PROVE  r # y /\ Dist(r, y) = d
    BY <1>1, <1>2, <2>2 DEF Dist, Slot
  <2> QED BY <2>1, <2>2
<1> QED BY <1>2, <1>4, <1>5 DEF r

-------------------------------------------------------------------------------
(* A walk from head to tail stops in exactly one place: at the first slot   *)
(* that is not passed, or at the tail.                                     *)

LEMMA LeastNumber ==
  ASSUME NEW S \in SUBSET Nat, S # {}
  PROVE  \E n \in S : \A m \in S : n <= m
<1> DEFINE R == OpToRel(<, Nat)
<1>1. IsWellFoundedOn(R, Nat)
  BY NatLessThanWellFounded, Zenon
<1>2. R = {ss \in Nat \X Nat : ss[1] < ss[2]}
  BY DEF OpToRel
<1> HIDE DEF R
<1>3. PICK n \in S : \A m \in S : ~(<<m, n>> \in R)
  BY <1>1, WFMin
<1>4. ASSUME NEW m \in S PROVE n <= m
  <2>1. m \in Nat /\ n \in Nat /\ <<m, n>> \notin R
    BY <1>3
  <2>2. ~(m < n)
    BY <1>2, <2>1
  <2> QED BY <2>1, <2>2
<1> QED BY <1>4

StopsAt(head, stop, tail, passed) ==
  /\ stop \in Window(head, tail) \cup {tail}
  /\ \A s \in Window(head, stop) : passed[s]
  /\ stop = tail \/ ~passed[stop]

LEMMA WalkStops ==
  ASSUME NEW head \in Slot, NEW tail \in Slot, NEW passed
  PROVE  /\ \E stop \in Slot : StopsAt(head, stop, tail, passed)
         /\ \A r, s \in Slot : /\ StopsAt(head, r, tail, passed)
                              /\ StopsAt(head, s, tail, passed)
                              => r = s
<1> DEFINE Stops == {s \in Window(head, tail) \cup {tail} : s = tail \/ ~passed[s]}
           Far   == {Dist(head, s) : s \in Stops}
<1>1. \A s \in Stops : s \in Slot /\ Dist(head, s) \in Nat
  BY SlotFacts DEF Window
<1>2. Far \in SUBSET Nat /\ Far # {}
  BY <1>1
<1>3. PICK n \in Far : \A m \in Far : n <= m
  BY <1>2, LeastNumber
<1>4. PICK stop \in Stops : Dist(head, stop) = n
  OBVIOUS
<1>s. stop \in Slot /\ stop \in Window(head, tail) \cup {tail}
  BY DEF Window
<1>5. ASSUME NEW s \in Window(head, stop) PROVE passed[s]
  <2>1. s \in Slot /\ Dist(head, s) < n /\ Dist(head, s) \in Nat /\ n \in Nat
    BY <1>1, <1>4, SlotFacts DEF Window
  <2>2. s \in Window(head, tail)
    BY <1>s, <2>1, WindowSplits
  <2>3. s \notin Stops
    BY <1>3, <2>1
  <2> QED BY <2>2, <2>3
<1>6. StopsAt(head, stop, tail, passed)
  BY <1>4, <1>5 DEF StopsAt
<1>7. ASSUME NEW r \in Slot, NEW s \in Slot,
             StopsAt(head, r, tail, passed), StopsAt(head, s, tail, passed)
      PROVE  r = s
  <2>1. r \notin Window(head, s) /\ s \notin Window(head, r)
    <3>1. ASSUME NEW a \in Slot, NEW b \in Slot, a \in Window(head, b),
                 StopsAt(head, a, tail, passed), StopsAt(head, b, tail, passed)
          PROVE  FALSE
      <4>1. passed[a] /\ a \in Window(head, tail)
        BY <3>1, WindowSplits DEF StopsAt
      <4>2. a # tail
        BY <4>1, SlotFacts DEF Window
      <4> QED BY <3>1, <4>1, <4>2 DEF StopsAt
    <3> QED BY <1>7, <3>1
  <2> QED BY <2>1, SeqModAssumption DEF Window, Dist, Slot
<1> QED BY <1>1, <1>6, <1>7

(* The timeout sweep of ping, tcping and arping is never stuck, and what it *)
(* gives up on is determined by the arrays and the clock.                  *)
THEOREM SweepStopsOnce ==
  ASSUME NEW head \in Slot, NEW tail \in Slot, NEW resolved \in [Slot -> BOOLEAN],
         NEW sentAt \in [Slot -> Nat], NEW now \in Nat, NEW timeout \in Nat
  PROVE  \E stop \in Slot :
           /\ SweepStopsAt(head, stop, tail, resolved, sentAt, now, timeout)
           /\ \A s \in Slot : SweepStopsAt(head, s, tail, resolved, sentAt, now, timeout) => s = stop
<1> DEFINE passed == [s \in Slot |-> Passes(s, resolved, sentAt, now, timeout)]
<1>1. ASSUME NEW s \in Slot
      PROVE  SweepStopsAt(head, s, tail, resolved, sentAt, now, timeout)
               <=> StopsAt(head, s, tail, passed)
  <2>1. \A r \in Window(head, s) : passed[r] <=> Passes(r, resolved, sentAt, now, timeout)
    BY DEF Window
  <2>2. passed[s] <=> Passes(s, resolved, sentAt, now, timeout)
    OBVIOUS
  <2> QED BY <2>1, <2>2 DEF SweepStopsAt, StopsAt
<1> HIDE DEF passed
<1> QED BY <1>1, WalkStops

-------------------------------------------------------------------------------
(* The ring never fills up.  Probes are sent at least pace apart, and the   *)
(* sweep that runs after each of them drops those older than the timeout;  *)
(* so if the probes of one timeout leave two slots over, there is always a *)
(* free slot to send from, however many probes are sent.                   *)

RingLasts(pace, timeout) == timeout <= (SeqMod - 2) * pace

(* Seen from the newest probe of the window: it was sent at least pace     *)
(* before next, and the others at least so many paces before it.           *)
Spaced(st, head, tail, pace, next) ==
  \A q \in Window(head, tail) : Dist(q, tail) = 1 =>
    /\ st[q] + pace <= next
    /\ \A s \in Window(head, tail) : st[s] + (Dist(s, tail) - 1) * pace <= st[q]

(* No probe was sent after the oldest of the window had expired.           *)
Fresh(st, head, tail, timeout) == \A s \in Window(head, tail) : st[s] < st[head] + timeout

LEMMA Shorter ==
  ASSUME NEW head \in Slot, NEW tail \in Slot, NEW stop \in Window(head, tail) \cup {tail}
  PROVE  Window(stop, tail) \subseteq Window(head, tail)
BY WindowSplits DEF Window

LEMMA NewestInWindow ==
  ASSUME NEW head \in Slot, NEW tail \in Slot, head # tail
  PROVE  /\ head \in Window(head, tail)
         /\ \E q \in Window(head, tail) : Dist(q, tail) = 1
<1>1. 1 \in 1 .. SeqMod - 1
  BY SeqModAssumption
<1>2. PICK q \in Slot : q # tail /\ Dist(q, tail) = 1
  BY <1>1, SlotBefore
<1>3. q \in Window(head, tail) /\ head \in Window(head, tail)
  BY <1>2, SeqModAssumption DEF Window, Dist, Slot
<1> QED BY <1>2, <1>3

LEMMA OnePaceMore ==
  ASSUME NEW d \in Int, NEW pace \in Nat
  PROVE  /\ d * pace \in Int /\ (d - 1) * pace \in Int
         /\ (d - 1) * pace + pace = d * pace
BY Z3

LEMMA FewerPaces ==
  ASSUME NEW d \in Int, NEW e \in Int, NEW pace \in Nat, d * pace < e * pace
  PROVE  d < e
<1> SUFFICES ASSUME d >= e PROVE FALSE
  OBVIOUS
<1>1. d - e \in Nat
  OBVIOUS
<1>2. (d - e) * pace >= 0
  BY <1>1, Z3
<1>3. d * pace = e * pace + (d - e) * pace
  BY Z3
<1>4. d * pace \in Int /\ e * pace \in Int
  OBVIOUS
<1> QED BY <1>2, <1>3, <1>4

LEMMA RoomToSend ==
  ASSUME NEW head \in Slot, NEW tail \in Slot, NEW st \in [Slot -> Nat], NEW pace \in Nat,
         NEW timeout \in Nat \ {0}, NEW next, RingLasts(pace, timeout),
         Spaced(st, head, tail, pace, next), Fresh(st, head, tail, timeout)
  PROVE  Dist(head, tail) < SeqMod - 1
<1> DEFINE d == Dist(head, tail)
<1>1. d \in Int /\ SeqMod \in Nat /\ SeqMod >= 2 /\ (d = 0 <=> head = tail)
  BY SlotFacts
<1>2. CASE head # tail
  <2>1. PICK q \in Window(head, tail) : Dist(q, tail) = 1
    BY <1>2, NewestInWindow
  <2>2. /\ st[head] + (d - 1) * pace <= st[q]
        /\ st[q] < st[head] + timeout
    BY <1>2, <2>1, NewestInWindow DEF Spaced, Fresh
  <2>3. q \in Slot /\ st[q] \in Nat /\ st[head] \in Nat
    BY DEF Window
  <2> HIDE DEF d
  <2>4. (d - 1) * pace \in Int /\ (SeqMod - 2) * pace \in Int
    BY <1>1
  <2>5. timeout <= (SeqMod - 2) * pace
    BY DEF RingLasts
  <2>6. (d - 1) * pace < (SeqMod - 2) * pace
    BY <2>2, <2>3, <2>4, <2>5
  <2>7. d - 1 < SeqMod - 2
    BY <1>1, <2>6, FewerPaces
  <2>8. d < SeqMod - 1
    BY <1>1, <2>7
  <2> QED BY <2>8 DEF d
<1>3. CASE head = tail
  <2>1. SeqMod > 2 \/ SeqMod = 2
    BY <1>1
  <2> QED BY <1>1, <1>3, <2>1
<1> QED BY <1>2, <1>3

LEMMA SpacedAfterSend ==
  ASSUME NEW head \in Slot, NEW tail \in Slot, NEW st \in [Slot -> Nat], NEW pace \in Nat,
         NEW next \in Nat, NEW now \in Nat, NEW later \in Nat, next <= now, now + pace <= later,
         Dist(head, tail) < SeqMod - 1, Spaced(st, head, tail, pace, next)
  PROVE  Spaced([st EXCEPT ![tail] = now], head, Succ(tail), pace, later)
<1> DEFINE stn == [st EXCEPT ![tail] = now]
<1>1. \A s \in Slot : /\ s \in Window(head, Succ(tail)) <=> s \in Window(head, tail) \/ s = tail
                      /\ s \in Window(head, Succ(tail)) => Dist(s, Succ(tail)) = Dist(s, tail) + 1
  BY SeqModAssumption DEF Slot, Dist, Window, Succ
<1>2. \A s \in Slot : s # tail => stn[s] = st[s]
  OBVIOUS
<1>3. stn[tail] = now
  OBVIOUS
<1> HIDE DEF stn
<1>4. ASSUME NEW s \in Window(head, tail)
      PROVE  st[s] + Dist(s, tail) * pace <= now
  <2>1. PICK q \in Window(head, tail) : Dist(q, tail) = 1
    <3>1. head # tail
      BY SlotFacts DEF Window
    <3> QED BY <3>1, NewestInWindow
  <2>2. /\ st[q] + pace <= next
        /\ st[s] + (Dist(s, tail) - 1) * pace <= st[q]
    BY <2>1 DEF Spaced
  <2>3. /\ s \in Slot /\ q \in Slot /\ st[q] \in Nat /\ st[s] \in Nat
        /\ Dist(s, tail) \in Int
    BY SlotFacts DEF Window
  <2>4. /\ (Dist(s, tail) - 1) * pace \in Int /\ Dist(s, tail) * pace \in Int
        /\ (Dist(s, tail) - 1) * pace + pace = Dist(s, tail) * pace
    BY <2>3, OnePaceMore
  <2> QED BY <2>2, <2>3, <2>4
<1>5. ASSUME NEW q \in Window(head, Succ(tail)), Dist(q, Succ(tail)) = 1
      PROVE  q = tail
  BY <1>1, <1>5, SlotFacts DEF Window
<1>6. ASSUME NEW s \in Window(head, Succ(tail))
      PROVE  stn[s] + (Dist(s, Succ(tail)) - 1) * pace <= now
  <2>1. s \in Slot
    BY DEF Window
  <2>2. Dist(s, tail) \in Int /\ Dist(s, Succ(tail)) = Dist(s, tail) + 1
    BY <1>1, <2>1, SlotFacts
  <2>3. Dist(s, Succ(tail)) - 1 = Dist(s, tail)
    BY <2>2
  <2>4. CASE s = tail
    <3>1. Dist(s, tail) = 0
      BY <2>4, SlotFacts
    <3> QED BY <1>3, <2>3, <2>4, <3>1
  <2>5. CASE s # tail
    <3>1. s \in Window(head, tail) /\ stn[s] = st[s]
      BY <1>1, <1>2, <2>1, <2>5
    <3> QED BY <1>4, <2>3, <3>1
  <2> QED BY <2>4, <2>5
<1>7. Spaced(stn, head, Succ(tail), pace, later)
  BY <1>3, <1>5, <1>6 DEF Spaced
<1> QED BY <1>7 DEF stn

LEMMA SpacedAfterSweep ==
  ASSUME NEW head \in Slot, NEW tail \in Slot, NEW stop \in Window(head, tail) \cup {tail},
         NEW st, NEW pace, NEW next, Spaced(st, head, tail, pace, next)
  PROVE  Spaced(st, stop, tail, pace, next)
BY Shorter DEF Spaced

LEMMA FreshAfterSweep ==
  ASSUME NEW head \in Slot, NEW tail \in Slot, NEW stop \in Slot, NEW st \in [Slot -> Nat],
         NEW resolved, NEW now \in Nat, NEW timeout \in Nat, \A s \in Slot : st[s] <= now,
         SweepStopsAt(head, stop, tail, resolved, st, now, timeout)
  PROVE  Fresh(st, stop, tail, timeout)
<1>1. CASE stop = tail
  BY <1>1, SlotFacts DEF Fresh, Window
<1>2. CASE stop # tail
  <2>1. now < st[stop] + timeout
    BY <1>2 DEF SweepStopsAt, Passes
  <2> QED BY <2>1 DEF Fresh, Window
<1> QED BY <1>1, <1>2

-------------------------------------------------------------------------------
(* That the loops come to an end: an order of tuples of natural numbers,   *)
(* and how often poll() can be called before something is due.             *)

(* The first component that differs is smaller.                            *)
Lower(a, b) == \E k \in DOMAIN b : a[k] < b[k] /\ \A j \in 1 .. k - 1 : a[j] = b[j]

LEMMA LowerFive ==
  ASSUME NEW a1, NEW a2, NEW a3, NEW a4, NEW a5, NEW b1, NEW b2, NEW b3, NEW b4, NEW b5,
         \/ a1 < b1
         \/ a1 = b1 /\ a2 < b2
         \/ a1 = b1 /\ a2 = b2 /\ a3 < b3
         \/ a1 = b1 /\ a2 = b2 /\ a3 = b3 /\ a4 < b4
         \/ a1 = b1 /\ a2 = b2 /\ a3 = b3 /\ a4 = b4 /\ a5 < b5
  PROVE  Lower(<<a1, a2, a3, a4, a5>>, <<b1, b2, b3, b4, b5>>)
<1> DEFINE a == <<a1, a2, a3, a4, a5>>
           b == <<b1, b2, b3, b4, b5>>
<1>1. /\ a[1] = a1 /\ a[2] = a2 /\ a[3] = a3 /\ a[4] = a4 /\ a[5] = a5
      /\ b[1] = b1 /\ b[2] = b2 /\ b[3] = b3 /\ b[4] = b4 /\ b[5] = b5
      /\ DOMAIN b = 1 .. 5
  OBVIOUS
<1> HIDE DEF a, b
<1>2. /\ 1 .. 1 - 1 = {} /\ 1 .. 2 - 1 = {1} /\ 1 .. 3 - 1 = {1, 2} /\ 1 .. 4 - 1 = {1, 2, 3}
      /\ 1 .. 5 - 1 = {1, 2, 3, 4} /\ {1, 2, 3, 4, 5} \subseteq 1 .. 5
  OBVIOUS
<1>3. Lower(a, b)
  <2>1. CASE a1 < b1
    BY <2>1, <1>1, <1>2 DEF Lower
  <2>2. CASE a1 = b1 /\ a2 < b2
    BY <2>2, <1>1, <1>2 DEF Lower
  <2>3. CASE a1 = b1 /\ a2 = b2 /\ a3 < b3
    BY <2>3, <1>1, <1>2 DEF Lower
  <2>4. CASE a1 = b1 /\ a2 = b2 /\ a3 = b3 /\ a4 < b4
    BY <2>4, <1>1, <1>2 DEF Lower
  <2>5. CASE a1 = b1 /\ a2 = b2 /\ a3 = b3 /\ a4 = b4 /\ a5 < b5
    BY <2>5, <1>1, <1>2 DEF Lower
  <2> QED BY <2>1, <2>2, <2>3, <2>4, <2>5
<1> QED BY <1>3 DEF a, b

(* How often poll() gives up before what is due after rest is due: once    *)
(* for the whole milliseconds, once for what is left.                      *)
Turns(rest) == IF rest <= 0 THEN 0 ELSE IF rest < NsPerMs THEN 1 ELSE 2

LEMMA TurnsOrder ==
  ASSUME NEW r \in Int, NEW s \in Int, r <= s
  PROVE  Turns(r) \in 0 .. 2 /\ Turns(r) <= Turns(s)
BY NsPerMsAssumption DEF Turns

LEMMA TurnsPass ==
  ASSUME NEW now \in Nat, NEW due \in Int, due > now
  PROVE  /\ PollUntil(now, RoundedMs(due - now)) \in Nat
         /\ PollUntil(now, RoundedMs(due - now)) > now
         /\ Turns(due - PollUntil(now, RoundedMs(due - now))) < Turns(due - now)
<1> DEFINE rest == due - now
           q    == rest \div NsPerMs
           ms   == RoundedMs(rest)
<1>1. NsPerMs \in Nat /\ NsPerMs > 0 /\ rest \in Int /\ rest > 0
  BY NsPerMsAssumption
<1>2. q \in Int /\ q * NsPerMs <= rest /\ rest < q * NsPerMs + NsPerMs
  BY <1>1, DivisionFacts
<1>3. ms = (IF q = 0 THEN 1 ELSE q) /\ ms \in Int /\ ms >= 1
  BY <1>1, RoundedMsFacts DEF RoundedMs
<1>4. PollUntil(now, ms) = now + ms * NsPerMs
  BY <1>3 DEF PollUntil
<1> HIDE DEF q, ms
<1>5. ms * NsPerMs \in Nat /\ ms * NsPerMs >= NsPerMs
  <2>1. (ms - 1) * NsPerMs >= 0 /\ (ms - 1) * NsPerMs \in Int
    BY <1>1, <1>3
  <2>2. ms * NsPerMs = (ms - 1) * NsPerMs + NsPerMs
    BY <1>1, <1>3
  <2> QED BY <2>1, <2>2, <1>1
<1>6. due - PollUntil(now, ms) = rest - ms * NsPerMs
  BY <1>4, <1>5
<1> HIDE DEF rest
<1>7. Turns(rest - ms * NsPerMs) < Turns(rest)
  <2>1. CASE q = 0
    <3>1. ms * NsPerMs = NsPerMs
      BY <2>1, <1>3, <1>1
    <3>2. rest < NsPerMs
      BY <2>1, <1>1, <1>2
    <3> QED BY <3>1, <3>2, <1>1 DEF Turns
  <2>2. CASE q # 0
    <3>1. ms * NsPerMs = q * NsPerMs
      BY <2>2, <1>3
    <3> QED BY <3>1, <1>1, <1>2, <1>5 DEF Turns
  <2> QED BY <2>1, <2>2
<1> QED BY <1>4, <1>5, <1>6, <1>7, <1>1 DEF rest, ms

===============================================================================
