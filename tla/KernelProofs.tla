---------------------------- MODULE KernelProofs ----------------------------
(***************************************************************************)
(* Proofs about what runs under every task: the clock, the interrupt lines,*)
(* the watchdog and the record of a fault, the touches, the replies of the *)
(* network and the transfers of the two-wire bus.                          *)
(***************************************************************************)
EXTENDS Tick, Irq, Crash, Touch, Net, I2c, Facts, SequenceTheorems, TLAPS

-----------------------------------------------------------------------------
(* The clock.                                                               *)

\* The counter's range as the numbers behind it.
LEMMA TickNumbers ==
    /\ CcountRange \in Nat /\ CcountRange > 0 /\ Interval \in Nat /\ Interval > 0
    /\ YieldCycles \in Nat /\ YieldCycles > 0 /\ LateCycles \in Nat
    /\ WatchdogCycles \in Nat /\ 2 * Interval <= WatchdogCycles /\ YieldCycles < Interval
    /\ CcountRange \div 2 \in Nat /\ Interval + WatchdogCycles < CcountRange \div 2
    /\ 2 * (CcountRange \div 2) <= CcountRange /\ CcountRange <= 2 * (CcountRange \div 2) + 1
  BY TickAssumption

Counts == 0 .. CcountRange - 1

\* The distances the code measures: less than half a turn either way.
Near == {a \in Int : a < CcountRange \div 2 /\ 0 - (CcountRange \div 2) < a}

\* A distance is read back from the two counts, wherever they stand on the turn.
LEMMA SignedDistance ==
    ASSUME NEW c \in Counts, NEW a \in Near
    PROVE  /\ Cycles(c + a) \in Counts
           /\ Signed(Cycles(c + a) - c) = a
           /\ Signed(c - Cycles(c + a)) = 0 - a
  <1> DEFINE r == Cycles(c + a)
             h == CcountRange \div 2
  <1>1. /\ CcountRange \in Nat /\ CcountRange > 0 /\ c \in Int /\ 0 <= c /\ c < CcountRange
        /\ a \in Int /\ a < h /\ 0 - h < a /\ h \in Nat /\ 2 * h <= CcountRange
        /\ CcountRange <= 2 * h + 1
    BY TickNumbers DEF Near, Counts
  <1> HIDE DEF h
  <1>2. r \in Counts /\ r \in {c + a, c + a + CcountRange, c + a - CcountRange}
    <2>1. 0 - CcountRange <= c + a /\ c + a < 2 * CcountRange
      BY <1>1
    <2> QED
      BY <1>1, <2>1, ModTurn DEF Cycles, Counts
  <1> HIDE DEF r
  <1>3. /\ r \in Int /\ r - c \in Int /\ c - r \in Int
        /\ 0 - CcountRange < r - c /\ r - c < CcountRange
    BY <1>1, <1>2 DEF Counts
  <1>4. Cycles(r - c) = IF a >= 0 THEN a ELSE a + CcountRange
    BY <1>1, <1>2, <1>3, ModTurn DEF Cycles
  <1>5. Cycles(c - r) = IF a <= 0 THEN 0 - a ELSE CcountRange - a
    BY <1>1, <1>2, <1>3, ModTurn DEF Cycles
  <1>6. Signed(r - c) = a
    BY <1>1, <1>4 DEF Signed, h
  <1>7. Signed(c - r) = 0 - a
    BY <1>1, <1>5 DEF Signed, h
  <1> QED
    BY <1>2, <1>6, <1>7 DEF r

\* Every count is some distance away.
LEMMA SomeDistance ==
    ASSUME NEW c \in Counts, NEW x \in Counts
    PROVE  /\ Signed(x - c) \in Int
           /\ Signed(x - c) \in Near => x = Cycles(c + Signed(x - c))
  <1> DEFINE h == CcountRange \div 2
             a == Signed(x - c)
  <1>1. /\ CcountRange \in Nat /\ CcountRange > 0 /\ h \in Nat
        /\ c \in Int /\ 0 <= c /\ c < CcountRange /\ x \in Int /\ 0 <= x /\ x < CcountRange
        /\ x - c \in Int /\ 0 - CcountRange < x - c /\ x - c < CcountRange
    BY TickNumbers DEF Counts
  <1>2. Cycles(x - c) = IF x >= c THEN x - c ELSE x - c + CcountRange
    BY <1>1, ModTurn DEF Cycles
  <1>3. a \in {x - c, x - c + CcountRange, x - c - CcountRange}
    BY <1>1, <1>2 DEF Signed
  <1> HIDE DEF a
  <1>4. Cycles(c + a) = x
    BY <1>1, <1>3, ModTurn DEF Cycles
  <1> QED
    BY <1>1, <1>3, <1>4 DEF a

\* A cycle goes by: what was a cycles ahead is one fewer.
LEMMA CycleNears ==
    ASSUME NEW c \in Counts, NEW x \in Counts, Signed(x - c) \in Near, Signed(x - c) - 1 \in Near
    PROVE  Signed(x - Cycles(c + 1)) = Signed(x - c) - 1
  <1> DEFINE a == Signed(x - c)
             d == Cycles(c + 1)
  <1>1. a \in Int /\ x = Cycles(c + a) /\ a - 1 \in Near /\ a \in Near
    BY SomeDistance
  <1> HIDE DEF a
  <1>2. d \in Counts /\ (d = c + 1 \/ d = c + 1 - CcountRange) /\ CcountRange \in Nat /\ CcountRange > 0
        /\ c \in Int /\ 0 <= c /\ c < CcountRange
    BY TickNumbers, ModTurn DEF Cycles, Counts
  <1> HIDE DEF d
  <1>3. Cycles(d + (a - 1)) = x
    <2>1. CASE d = c + 1
      BY <1>1, <1>2, <2>1
    <2>2. CASE d = c + 1 - CcountRange
      <3>1. c + 1 = CcountRange /\ d = 0
        BY <1>2, <2>2 DEF Counts
      <3>2. a - 1 < CcountRange /\ 0 - CcountRange <= a - 1 /\ a - 1 \in Int /\ c + a = a - 1 + CcountRange
        BY <1>1, <1>2, <3>1, TickNumbers DEF Near
      <3>3. (c + a) % CcountRange = (a - 1) % CcountRange
        BY <1>2, <3>2, ModTurn
      <3> QED
        BY <1>1, <3>1, <3>2, <3>3 DEF Cycles
    <2> QED
      BY <1>2, <2>1, <2>2
  <1>4. Signed(Cycles(d + (a - 1)) - d) = a - 1
    BY <1>1, <1>2, SignedDistance
  <1> QED
    BY <1>3, <1>4 DEF a, d

TickTyped ==
    /\ c_count \in Counts /\ c_compare \in Counts /\ c_next \in Counts /\ c_now \in Counts
    /\ c_pending \in BOOLEAN /\ c_masked \in BOOLEAN /\ h_lost \in BOOLEAN
    /\ c_pc \in {"task", "isr", "rearm", "yield"} /\ c_spent \in Nat
    /\ h_silent \in 0 .. WatchdogCycles /\ h_credit \in 0 .. WatchdogCycles

\* The deadline is never further off than an interval, nor longer gone than the last
\* tick; what has not been ticked yet makes up an interval with what is left to it, as
\* far as it is counted; the time the handler works from is as old as the handler; only a
\* task holds the interrupts off; and the comparator is ahead until it fires or is missed.
TickInv ==
    /\ TickTyped
    /\ Ahead(c_next) \in 1 - h_silent .. Interval
    /\ h_credit = WatchdogCycles \/ h_credit + Ahead(c_next) >= Interval
    /\ c_pc = "isr" => c_spent <= h_silent /\ c_now = Cycles(c_count - c_spent)
    /\ c_masked => c_pc = "task"
    /\ ~h_lost /\ ~c_pending => Ahead(c_compare) \in 1 .. Interval

LEMMA TickInvImplies == TickInv => TickIsTime
  BY DEF TickInv, TickTyped, TickIsTime

LEMMA NearFacts ==
    /\ \A a \in Int : 0 - WatchdogCycles <= a /\ a <= Interval => a \in Near
    /\ \A a \in Int : 0 - Interval <= a /\ a <= WatchdogCycles + Interval => a \in Near
  BY TickNumbers DEF Near

\* What was just set to a distance from now is that far ahead.
LEMMA SetAhead ==
    ASSUME c_count \in Counts, NEW a \in 0 .. Interval
    PROVE  Cycles(c_count + a) \in Counts /\ Ahead(Cycles(c_count + a)) = a
  BY NearFacts, SignedDistance, TickNumbers DEF Ahead

LEMMA TickInitInv == TickInit => TickInv
  <1> SUFFICES ASSUME TickInit PROVE TickInv
    OBVIOUS
  <1>1. 0 \in Counts /\ Interval \in 0 .. Interval /\ Interval = Cycles(0 + Interval)
    BY TickNumbers, ModTurn DEF Counts, Cycles
  <1>2. Interval \in Counts /\ Ahead(Interval) = Interval
    BY <1>1, SetAhead DEF TickInit
  <1>3. TickTyped
    <2>1. 0 \in 0 .. WatchdogCycles /\ 0 \in Nat
      BY TickNumbers
    <2> QED
      BY <1>1, <1>2, <2>1 DEF TickInit, TickTyped
  <1>4. Ahead(c_next) = Interval /\ Ahead(c_compare) = Interval
    BY <1>2 DEF TickInit
  <1> QED
    BY <1>3, <1>4, TickNumbers DEF TickInit, TickInv

LEMMA TickCycle == ASSUME TickInv, Cycle PROVE TickInv'
  <1>1. /\ c_count \in Counts /\ c_next \in Counts /\ c_compare \in Counts /\ c_now \in Counts
        /\ h_silent \in Int /\ 0 <= h_silent /\ h_silent < WatchdogCycles
        /\ h_credit \in 0 .. WatchdogCycles /\ c_spent \in Nat
        /\ Ahead(c_next) \in 1 - h_silent .. Interval
        /\ UNCHANGED <<c_compare, c_next, c_masked, c_pc, c_now>>
        /\ c_count' = Cycles(c_count + 1) /\ h_silent' = h_silent + 1
    BY DEF TickInv, TickTyped, Cycle
  <1>2. Cycles(c_count + 1) \in Counts
    BY <1>1, TickNumbers, ModTurn DEF Counts, Cycles
  <1>3. Ahead(c_next)' = Ahead(c_next) - 1
    <2>1. Ahead(c_next) \in Near /\ Ahead(c_next) - 1 \in Near
      BY <1>1, NearFacts, TickNumbers
    <2> QED
      BY <1>1, <2>1, CycleNears DEF Ahead
  <1>4. h_credit' = WatchdogCycles \/ h_credit' + Ahead(c_next)' >= Interval
    <2>1. h_credit' = IF h_credit < WatchdogCycles THEN h_credit + 1 ELSE h_credit
      BY DEF Cycle
    <2>2. h_credit = WatchdogCycles \/ h_credit + Ahead(c_next) >= Interval
      BY DEF TickInv
    <2>3. Ahead(c_next) \in Int /\ Interval \in Int /\ h_credit \in Int /\ WatchdogCycles \in Int
      BY <1>1, TickNumbers
    <2> QED
      BY <1>1, <1>3, <2>1, <2>2, <2>3
  <1>5. TickTyped'
    <2>1. h_credit' \in 0 .. WatchdogCycles /\ h_silent' \in 0 .. WatchdogCycles /\ c_spent' \in Nat
      BY <1>1, TickNumbers DEF Cycle
    <2>2. c_pending' \in BOOLEAN /\ h_lost' \in BOOLEAN
      BY DEF Cycle, TickInv, TickTyped
    <2> QED
      BY <1>1, <1>2, <2>1, <2>2 DEF TickInv, TickTyped
  <1>6. c_pc' = "isr" => c_spent' <= h_silent' /\ c_now' = Cycles(c_count' - c_spent')
    <2>1. SUFFICES ASSUME c_pc = "isr"
                   PROVE  c_spent' <= h_silent' /\ c_now' = Cycles(c_count' - c_spent')
      BY <1>1
    <2>2. c_spent' = c_spent + 1 /\ c_spent <= h_silent /\ c_now = Cycles(c_count - c_spent)
      BY <2>1 DEF TickInv, Cycle
    <2>3. Cycles(Cycles(c_count + 1) - (c_spent + 1)) = Cycles(c_count - c_spent)
      <3> DEFINE s == c_spent
      <3>1. s \in Nat /\ s < CcountRange - 1 /\ CcountRange \in Nat /\ CcountRange > 0
        BY <1>1, <2>2, TickNumbers
      <3> HIDE DEF s
      <3>2. CASE c_count + 1 < CcountRange
        BY <1>1, <3>1, <3>2, ModTurn DEF Cycles, Counts
      <3>3. CASE c_count + 1 = CcountRange
        <4>1. Cycles(c_count + 1) = 0
          BY <3>1, <3>3, ModTurn DEF Cycles
        <4>2. (0 - (s + 1)) % CcountRange = CcountRange - (s + 1)
          BY <3>1, ModTurn
        <4>3. (c_count - s) % CcountRange = c_count - s
          BY <3>1, <3>3, <1>1, ModTurn DEF Counts
        <4> QED
          BY <1>1, <3>1, <3>3, <4>1, <4>2, <4>3 DEF Cycles, Counts
      <3> QED
        BY <1>1, <3>1, <3>2, <3>3 DEF Counts, s
    <2> QED
      BY <1>1, <2>2, <2>3
  <1>7. ~h_lost' /\ ~c_pending' => Ahead(c_compare)' \in 1 .. Interval
    <2>1. SUFFICES ASSUME ~h_lost', ~c_pending' PROVE Ahead(c_compare)' \in 1 .. Interval
      OBVIOUS
    <2>2. c_compare # Cycles(c_count + 1) /\ ~h_lost /\ ~c_pending
      BY <1>1, <2>1 DEF Cycle, TickInv, TickTyped
    <2>3. Ahead(c_compare) \in 1 .. Interval
      BY <2>2 DEF TickInv
    <2>4. Ahead(c_compare) \in Near /\ Ahead(c_compare) - 1 \in Near
      BY <2>3, NearFacts, TickNumbers
    <2>5. Ahead(c_compare)' = Ahead(c_compare) - 1
      BY <1>1, <2>4, CycleNears DEF Ahead
    <2>6. Ahead(c_compare) # 1
      <3>1. Ahead(c_compare) = 1 => c_compare = Cycles(c_count + 1)
        BY <1>1, <2>4, SomeDistance DEF Ahead
      <3> QED
        BY <2>2, <3>1
    <2> QED
      BY <2>3, <2>5, <2>6, TickNumbers
  <1> QED
    BY <1>1, <1>3, <1>4, <1>5, <1>6, <1>7, TickNumbers DEF TickInv

\* A write of the comparator, at a moment the deadline or the comparator is known to be
\* at most an interval away.
LEMMA TickRearms ==
    ASSUME TickInv, NEW a \in Counts, Ahead(a) \in Int, Ahead(a) <= Interval, Rearm(a),
           UNCHANGED c_count, c_next' \in Counts, c_masked' \in BOOLEAN,
           c_pc' \in {"task", "rearm", "yield"}, c_masked' => c_pc' = "task", c_spent' \in Nat,
           c_now' = c_now, h_silent' = h_silent, h_credit' = h_credit,
           \/ c_next' = c_next
           \/ Ahead(c_next') = Interval
    PROVE  TickInv'
  <1>a. c_compare' = a /\ c_pending' = FALSE /\ h_lost' \in BOOLEAN
        /\ (~h_lost' => ~(Ahead(a) <= 0))
    <2>1. (Ahead(a) <= 0) \in BOOLEAN
      OBVIOUS
    <2> QED
      BY Zenon, <2>1 DEF Rearm
  <1>1. TickTyped'
    <2>1. c_count' \in Counts /\ c_now' \in Counts /\ c_spent' \in Nat
          /\ h_silent' \in 0 .. WatchdogCycles /\ h_credit' \in 0 .. WatchdogCycles
      BY DEF TickInv, TickTyped
    <2> QED
      BY <1>a, <2>1 DEF TickTyped
  <1>2. Ahead(c_next)' \in 1 - h_silent .. Interval
        /\ (h_credit' = WatchdogCycles \/ h_credit' + Ahead(c_next)' >= Interval)
    <2>1. Ahead(c_next)' = Ahead(c_next) \/ Ahead(c_next)' = Interval
      BY DEF Ahead
    <2> QED
      BY <2>1, TickNumbers DEF TickInv, TickTyped
  <1>3. ~h_lost' => Ahead(c_compare)' \in 1 .. Interval
    <2>1. Ahead(c_compare)' = Ahead(a)
      BY <1>a DEF Ahead
    <2> QED
      BY <1>a, <2>1, TickNumbers
  <1> QED
    BY <1>1, <1>2, <1>3 DEF TickInv

\* The rescue: nothing, or a fresh start from now.
LEMMA TickRescues ==
    ASSUME TickInv, timer_rescue, UNCHANGED c_count, c_masked' \in BOOLEAN,
           c_pc' \in {"task", "rearm", "yield"}, c_masked' => c_pc' = "task", c_spent' \in Nat,
           c_now' = c_now, h_silent' = h_silent, h_credit' = h_credit
    PROVE  TickInv'
  <1>1. CASE Ahead(c_next) > 0
    BY <1>1 DEF timer_rescue, TickInv, TickTyped, Ahead
  <1>2. CASE ~(Ahead(c_next) > 0)
    <2>1. Cycles(c_count + Interval) \in Counts /\ Ahead(Cycles(c_count + Interval)) = Interval
          /\ Interval \in Int
      BY SetAhead, TickNumbers DEF TickInv, TickTyped
    <2>2. c_next' = Cycles(c_count + Interval) /\ Rearm(Cycles(c_count + Interval))
      BY <1>2 DEF timer_rescue, Rearm, Ahead
    <2> QED
      BY <2>1, <2>2, TickRearms
  <1> QED
    BY <1>1, <1>2

LEMMA TickTicks == ASSUME TickInv, timer_isr_ticks PROVE TickInv'
  <1> DEFINE due == Cycles(c_next + Interval)
             n   == Ahead(c_next)
  <1>1. /\ c_count \in Counts /\ c_next \in Counts /\ n \in Int /\ 1 - h_silent <= n /\ n <= Interval
        /\ h_silent \in Int /\ 0 <= h_silent /\ h_silent <= WatchdogCycles /\ c_spent \in Nat
        /\ h_credit \in Int /\ 0 <= h_credit /\ h_credit <= WatchdogCycles
        /\ c_spent <= h_silent /\ c_now = Cycles(c_count - c_spent) /\ c_pc = "isr" /\ IsTick
        /\ h_credit = WatchdogCycles \/ h_credit + n >= Interval
    <2>1. c_pc = "isr" /\ IsTick
      BY DEF timer_isr_ticks
    <2> QED
      BY <2>1, TickNumbers DEF TickInv, TickTyped
  <1>2. n \in Near /\ c_next = Cycles(c_count + n)
    <2>1. n \in Near
      BY <1>1, NearFacts, TickNumbers
    <2> QED
      BY <1>1, <2>1, SomeDistance DEF Ahead
  \* IsTick, on the turn, is IsTick on the line.
  <1>3. n <= 0 - c_spent
    <2> DEFINE m == c_spent + n
    <2>1. c_now \in Counts /\ 0 - c_spent \in Near /\ m \in Near /\ m \in Int
      <3>1. 0 - c_spent \in Near /\ c_count + (0 - c_spent) = c_count - c_spent
        BY <1>1, NearFacts, TickNumbers DEF Counts
      <3>2. m \in Int /\ 0 - WatchdogCycles <= m
        BY <1>1, TickNumbers
      <3>3. m <= WatchdogCycles + Interval /\ (0 - WatchdogCycles <= m /\ m <= WatchdogCycles + Interval => m \in Near)
        BY <1>1, <3>2, TickNumbers DEF Near
      <3> QED
        BY <1>1, <3>1, <3>2, <3>3, SignedDistance
    <2>2. c_next = Cycles(c_now + m)
      <3>1. /\ CcountRange \in Nat /\ CcountRange > 0 /\ c_count \in Int /\ c_spent \in Int /\ n \in Int
            /\ 0 <= c_spent /\ c_spent <= CcountRange /\ 0 <= c_count /\ c_count < CcountRange
            /\ 0 - CcountRange <= n /\ n < CcountRange
        BY <1>1, TickNumbers DEF Counts
      <3>2. c_now = c_count - c_spent \/ c_now = c_count - c_spent + CcountRange
        BY <1>1, <3>1, ModTurn DEF Cycles
      <3>3. c_now + m = c_count + n \/ c_now + m = c_count + n + CcountRange
        BY <3>1, <3>2
      <3>4. CASE c_now + m = c_count + n
        BY <1>2, <3>4
      <3>5. CASE c_now = c_count - c_spent + CcountRange
        <4>1. c_now < CcountRange /\ c_now \in Int
          BY <2>1, <3>1 DEF Counts
        <4>2. c_count + n \in Int /\ 0 - CcountRange <= c_count + n /\ c_count + n < CcountRange
              /\ c_now + m = (c_count + n) + CcountRange
          BY <1>1, <3>1, <3>5, <4>1, TickNumbers
        <4>3. (c_count + n + CcountRange) % CcountRange = (c_count + n) % CcountRange
          BY <3>1, <4>2, ModAgain
        <4> QED
          BY <1>2, <4>2, <4>3 DEF Cycles
      <3> QED
        BY <3>1, <3>2, <3>4, <3>5
    <2>3. Signed(c_now - c_next) = 0 - m
      BY <2>1, <2>2, SignedDistance
    <2> QED
      BY <1>1, <2>1, <2>3 DEF IsTick
  <1>4. h_credit >= Interval /\ n <= 0
    BY <1>1, <1>3, TickNumbers
  <1>5. due \in Counts /\ Ahead(due) = n + Interval
    <2>1. n + Interval \in Near /\ n + Interval \in Int
      BY <1>1, <1>4, TickNumbers DEF Near
    <2>2. Cycles(c_count + (n + Interval)) = due
      <3>1. /\ CcountRange \in Nat /\ CcountRange > 0 /\ c_count \in Int /\ n \in Int /\ Interval \in Int
            /\ 0 - CcountRange <= n /\ n <= 0 /\ 0 <= c_count /\ c_count < CcountRange
        BY <1>1, <1>4, TickNumbers DEF Counts
      <3>2. c_next = c_count + n \/ c_next = c_count + n + CcountRange
        BY <1>2, <3>1, ModTurn DEF Cycles
      <3>3. c_next + Interval = c_count + (n + Interval)
            \/ c_next + Interval = c_count + (n + Interval) + CcountRange
        BY <3>1, <3>2
      <3>4. CASE c_next = c_count + n
        BY <3>1, <3>4
      <3>5. CASE c_next = c_count + n + CcountRange
        <4> DEFINE x == c_count + (n + Interval)
        <4>1. c_next < CcountRange /\ c_next \in Int
          BY <1>1, <3>1 DEF Counts
        <4>2. x \in Int /\ 0 - CcountRange <= x /\ x < CcountRange /\ c_next + Interval = x + CcountRange
          BY <1>1, <3>1, <3>5, <4>1, TickNumbers
        <4> HIDE DEF x
        <4>3. (x + CcountRange) % CcountRange = x % CcountRange
          BY <3>1, <4>2, ModAgain
        <4> QED
          BY <4>2, <4>3 DEF Cycles, x
      <3> QED
        BY <3>2, <3>4, <3>5
    <2> QED
      BY <1>1, <2>1, <2>2, SignedDistance DEF Ahead
  <1>6. /\ c_next' \in Counts /\ Ahead(c_next') \in 1 .. Interval
        /\ h_credit - Interval + Ahead(c_next') >= Interval
    <2>1. CASE n + Interval <= 0
      <3>1. c_next' = Cycles(c_count + Interval)
        BY <1>5, <2>1 DEF timer_isr_ticks
      <3> QED
        BY <1>1, <1>4, <3>1, SetAhead, TickNumbers
    <2>2. CASE n + Interval > 0
      <3>1. c_next' = due
        BY <1>1, <1>4, <1>5, <2>2, TickNumbers DEF timer_isr_ticks
      <3> QED
        BY <1>1, <1>4, <1>5, <2>2, <3>1, TickNumbers
    <2> QED
      BY <1>1, <2>1, <2>2, TickNumbers
  <1>7. TickTyped'
    BY <1>1, <1>4, <1>6, TickNumbers DEF TickInv, TickTyped, timer_isr_ticks
  <1> QED
    BY <1>1, <1>6, <1>7, TickNumbers DEF TickInv, timer_isr_ticks, Ahead

LEMMA TickStep == TickInv /\ [TickNext]_tickVars => TickInv'
  <1> SUFFICES ASSUME TickInv, [TickNext]_tickVars PROVE TickInv'
    OBVIOUS
  <1>1. ASSUME WatchdogReset PROVE TickInv'
    <2>1. TickInit'
      BY <1>1 DEF WatchdogReset, TickInit
    <2> QED
      BY <2>1, TickInitInv, PTL
  <1>2. ASSUME timer_isr PROVE TickInv'
    <2>1. Cycles(c_count - 0) = c_count
      BY TickNumbers, ModTurn DEF TickInv, TickTyped, Counts, Cycles
    <2> QED
      BY <1>2, <2>1, TickNumbers DEF timer_isr, TickInv, TickTyped, Ahead
  <1>3. ASSUME timer_isr_early \/ timer_isr_rearms PROVE TickInv'
    <2>1. /\ c_next \in Counts /\ Ahead(c_next) \in Int /\ Ahead(c_next) <= Interval
      BY TickNumbers DEF TickInv, TickTyped
    <2> QED
      BY <1>3, <2>1, TickRearms DEF timer_isr_early, timer_isr_rearms, TickInv, TickTyped
  <1>4. ASSUME task_yield PROVE TickInv'
    BY <1>4, TickRescues DEF task_yield, TickInv, TickTyped
  <1>5. ASSUME task_yield_pulls PROVE TickInv'
    <2> DEFINE soon == Cycles(c_count + YieldCycles)
    <2>1. soon \in Counts /\ Ahead(soon) = YieldCycles
      BY SetAhead, TickNumbers DEF TickInv, TickTyped
    <2>2. CASE Rearm(soon)
      BY <1>5, <2>1, <2>2, TickRearms, TickNumbers DEF task_yield_pulls, TickInv, TickTyped
    <2>3. CASE UNCHANGED <<c_compare, c_pending, h_lost>>
      BY <1>5, <2>3 DEF task_yield_pulls, TickInv, TickTyped, Ahead
    <2> QED
      BY <1>5, <2>2, <2>3 DEF task_yield_pulls
  <1>6. ASSUME osi_wifi_int_disable \/ phy_exit_critical \/ UNCHANGED tickVars PROVE TickInv'
    <2>1. /\ UNCHANGED <<c_count, c_compare, c_pending, c_next, c_pc, c_now, c_spent, h_credit,
                         h_lost, h_silent>>
          /\ c_masked' \in BOOLEAN /\ (c_masked' => c_pc = "task")
      <3>1. c_masked \in BOOLEAN /\ (c_masked => c_pc = "task")
        BY DEF TickInv, TickTyped
      <3>2. CASE osi_wifi_int_disable
        BY <3>2, Zenon DEF osi_wifi_int_disable
      <3>3. CASE phy_exit_critical
        BY <3>3, Zenon DEF phy_exit_critical
      <3>4. CASE UNCHANGED tickVars
        BY <3>1, <3>4 DEF tickVars
      <3> QED
        BY <1>6, <3>2, <3>3, <3>4
    <2> QED
      BY <2>1 DEF TickInv, TickTyped, Ahead
  <1>7. ASSUME osi_wifi_int_restore PROVE TickInv'
    <2>1. CASE c_pending
      BY <1>7, <2>1 DEF osi_wifi_int_restore, TickInv, TickTyped, Ahead
    <2>2. CASE ~c_pending
      <3>1. /\ timer_rescue /\ UNCHANGED c_count /\ c_masked' \in BOOLEAN
            /\ UNCHANGED <<c_pc, c_now, c_spent, h_credit, h_silent>>
        BY <1>7, <2>2 DEF osi_wifi_int_restore
      <3> QED
        BY <1>7, <3>1, TickRescues DEF osi_wifi_int_restore, TickInv, TickTyped
    <2> QED
      BY <2>1, <2>2
  <1> QED
    BY <1>1, <1>2, <1>3, <1>4, <1>5, <1>6, <1>7, TickCycle, TickTicks DEF TickNext

\* The clock never runs ahead of the counter, and with interrupts on its comparator is
\* ahead or has fired unless a match was lost: for every range of the counter, interval
\* and watchdog time (timer.c, timer.h).
THEOREM ClockIsTime == TickSpec => []TickIsTime
  <1>1. TickInit => TickInv
    BY TickInitInv
  <1>2. TickInv /\ [TickNext]_tickVars => TickInv'
    BY TickStep
  <1>3. TickInv => TickIsTime
    BY TickInvImplies
  <1> QED
    BY <1>1, <1>2, <1>3, PTL DEF TickSpec

-----------------------------------------------------------------------------
(* Interrupt lines.                                                         *)

Updates == [on : BOOLEAN, mask : SUBSET Lines]

IrqTyped ==
    /\ i_handler \in [Lines -> {"none", "tick", "blob", "slot", "xt"}]
    /\ i_fn \subseteq Lines /\ i_slot \subseteq Lines /\ i_xt \subseteq Lines
    /\ i_enable \subseteq Lines /\ i_routed \subseteq Lines /\ i_assert \subseteq Lines
    /\ i_write \in [IrqTasks -> Updates]

IrqInv == IrqTyped /\ TickLineIsKept

LEMMA IrqInitInv == IrqInit => IrqInv
  BY DEF IrqInit, IrqInv, IrqTyped, TickLineIsKept, Lines, IrqTasks, Updates, NoWrite

\* The read half of an update keeps the tick in what it will write.
LEMMA IrqUpdates ==
    ASSUME IrqInv, NEW t \in IrqTasks, NEW mask \in SUBSET Lines, "tick" \in mask,
           Update(t, mask), UNCHANGED i_enable,
           i_handler' \in [Lines -> {"none", "tick", "blob", "slot", "xt"}],
           i_handler'["tick"] = "tick",
           i_fn' \subseteq Lines, i_slot' \subseteq Lines, i_xt' \subseteq Lines,
           i_routed' \subseteq Lines, i_assert' \subseteq Lines
    PROVE  IrqInv'
  <1>1. [on |-> TRUE, mask |-> mask] \in Updates
    BY DEF Updates
  <1> QED
    BY <1>1 DEF IrqInv, IrqTyped, TickLineIsKept, Update

LEMMA IrqStep == IrqInv /\ [IrqNext]_irqVars => IrqInv'
  <1> SUFFICES ASSUME IrqInv, [IrqNext]_irqVars PROVE IrqInv'
    OBVIOUS
  <1> USE DEF BlobLines, blob_line_map
  <1>1. ASSUME NEW l \in Lines, Assert(l) PROVE IrqInv'
    BY <1>1 DEF Assert, IrqInv, IrqTyped, TickLineIsKept, tableVars
  <1>2. ASSUME NEW l \in Lines, intr_dispatch(l) PROVE IrqInv'
    <2>1. l # "tick" \/ ~Unhandled(l)
      BY DEF IrqInv, TickLineIsKept, Unhandled
    <2> QED
      BY <1>2, <2>1 DEF intr_dispatch, IrqInv, IrqTyped, TickLineIsKept, tableVars
  <1>3. ASSUME NEW t \in IrqTasks, xt_set_intenable(t) PROVE IrqInv'
    <2>1. NoWrite \in Updates /\ NoWrite.on = FALSE
      BY DEF NoWrite, Updates
    <2>2. i_write[t].mask \subseteq Lines /\ "tick" \in i_write[t].mask
      BY <1>3 DEF xt_set_intenable, IrqInv, IrqTyped, TickLineIsKept, Updates
    <2> QED
      BY <1>3, <2>1, <2>2 DEF xt_set_intenable, IrqInv, IrqTyped, TickLineIsKept, tableVars
  <1>4. ASSUME NEW n \in BlobLines, osi_impl_set_isr(n) PROVE IrqInv'
    BY <1>4 DEF osi_impl_set_isr, IrqInv, IrqTyped, TickLineIsKept, Lines
  <1>5. ASSUME NEW n \in BlobLines,
               osi_impl_set_intr(n) \/ osi_impl_ints_on(n) \/ osi_impl_ints_off(n)
        PROVE  IrqInv'
    <2>1. blob_line_map(n) \in Lines /\ "wifi" \in IrqTasks
      BY DEF Lines, IrqTasks
    <2>2. \/ Update("wifi", i_enable \cup {blob_line_map(n)})
          \/ Update("wifi", i_enable \ Masked(n))
      BY <1>5 DEF osi_impl_set_intr, osi_impl_ints_on, osi_impl_ints_off
    <2>3. /\ UNCHANGED <<i_fn, i_slot, i_xt, i_enable, i_assert>>
          /\ \/ UNCHANGED <<i_handler, i_routed>>
             \/ /\ blob_line_map(n) # "tick" /\ i_routed' = i_routed \cup {blob_line_map(n)}
                /\ i_handler' = [i_handler EXCEPT ![blob_line_map(n)] = "blob"]
      BY <1>5 DEF osi_impl_set_intr, osi_impl_ints_on, osi_impl_ints_off, tableVars
    <2>4. /\ i_handler' \in [Lines -> {"none", "tick", "blob", "slot", "xt"}]
          /\ i_handler'["tick"] = "tick" /\ i_routed' \subseteq Lines
      BY <2>1, <2>3 DEF IrqInv, IrqTyped, TickLineIsKept
    <2>5. /\ i_enable \cup {blob_line_map(n)} \in SUBSET Lines
          /\ i_enable \ Masked(n) \in SUBSET Lines /\ "tick" \in i_enable \ Masked(n)
      BY <2>1 DEF IrqInv, IrqTyped, TickLineIsKept, Masked
    <2> QED
      BY <2>1, <2>2, <2>3, <2>4, <2>5, IrqUpdates DEF IrqInv, IrqTyped
  <1>6. ASSUME bt_host_intr_free \/ bt_host_set_handler PROVE IrqInv'
    BY ZenonT(60), <1>6 DEF bt_host_intr_free, bt_host_set_handler, IrqInv, IrqTyped, TickLineIsKept, Lines
  <1>7. ASSUME bt_host_intr_alloc PROVE IrqInv'
    BY <1>7, IrqUpdates DEF bt_host_intr_alloc, IrqInv, IrqTyped, TickLineIsKept, Lines, IrqTasks
  <1>8. ASSUME NEW ls \in SUBSET {"tick", "bt"}, intr_enable_mask(ls) \/ intr_disable_mask(ls)
        PROVE  IrqInv'
    BY <1>8, IrqUpdates DEF intr_enable_mask, intr_disable_mask, IrqInv, IrqTyped, TickLineIsKept,
       tableVars, Lines, IrqTasks
  <1>9. ASSUME UNCHANGED irqVars PROVE IrqInv'
    BY <1>9 DEF irqVars, IrqInv, IrqTyped, TickLineIsKept
  <1> QED
    BY <1>1, <1>2, <1>3, <1>4, <1>5, <1>6, <1>7, <1>8, <1>9 DEF IrqNext

\* The tick's line is never masked and never another's, however the two radios' drivers
\* interleave their reads and writes of INTENABLE (intr.c, wifi_osi_impl.c, bt_host.c).
THEOREM TickLineKept == IrqSpec => []TickLineIsKept
  <1>1. IrqInit => IrqInv
    BY IrqInitInv
  <1>2. IrqInv /\ [IrqNext]_irqVars => IrqInv'
    BY IrqStep
  <1>3. IrqInv => TickLineIsKept
    BY DEF IrqInv
  <1> QED
    BY <1>1, <1>2, <1>3, PTL DEF IrqSpec

-----------------------------------------------------------------------------
(* Faults and hangs.                                                        *)

FaultRec == [good : BOOLEAN, fault : Nat]
Kept(p)  == [good |-> TRUE, fault |-> p]

CrashTyped ==
    /\ x_stage \in Booting \cup InPanic \cup {"running", "nested", "halted"} /\ x_mode \in Modes
    /\ x_depth \in Nat /\ x_rec \in FaultRec /\ x_flash \in FaultRec
    /\ x_wdt \in -1 .. WDT_TICKS /\ x_ticks \in 0 .. LIVENESS_WINDOW - 1
    /\ x_seen \in BOOLEAN /\ x_pin \in 0 .. BLOB_PIN_MAX
    /\ h_faults \in Nat /\ h_now \in Nat /\ h_promised \in Nat /\ h_early \in BOOLEAN /\ h_hung \in Nat

\* The fault that was recorded is in flash, through the reset and up to the report.
RecordInv ==
    /\ x_stage \in Booting \cup {"running"} => x_depth = 0
    /\ x_stage \in InPanic => x_depth >= 1
    /\ x_stage \in {"loaded", "tasks", "running"} => x_rec.good
    /\ x_stage = "record" => h_promised = 0 /\ (~h_early => x_rec.good)
    /\ h_promised # 0 /\ ~h_early => /\ x_flash = Kept(h_promised)
                                     /\ x_stage = "loaded" => x_rec.fault = h_promised
                                     /\ x_stage = "tasks" => x_told.fault = h_promised

\* A hung system is not fed again but for the window it hung in and the pin it hung under.
Unfed(mode, wdt, hung, seen, ticks, pin) ==
    /\ mode \notin Hung => hung = 0
    /\ mode \in Hung => wdt + hung <= MaxHung
    /\ mode \in {"monopoly", "wedged"} /\ seen => hung <= ticks
    /\ mode = "wedged" /\ pin < BLOB_PIN_MAX => hung <= pin
HangInv ==
    /\ x_mode # "none" => x_stage = "running"
    /\ x_stage = "running" => x_wdt >= 0
    /\ Unfed(x_mode, x_wdt, h_hung, x_seen, x_ticks, x_pin)

CrashInv == CrashTyped /\ RecordInv /\ HangInv

LEMMA CrashNumbers ==
    /\ LIVENESS_WINDOW \in Nat /\ LIVENESS_WINDOW > 0 /\ WDT_TICKS \in Nat /\ WDT_TICKS > 0
    /\ BLOB_PIN_MAX \in Nat /\ MaxHung \in Nat
    /\ MaxHung >= WDT_TICKS + LIVENESS_WINDOW /\ MaxHung >= WDT_TICKS + BLOB_PIN_MAX
  BY CrashAssumption DEF MaxHung

LEMMA CrashRecords ==
    /\ Zeros \in FaultRec /\ Blank \in FaultRec /\ \A p \in Nat : Kept(p) \in FaultRec
    /\ ~Zeros.good /\ ~Blank.good
    /\ \A r \in FaultRec : r.good \in BOOLEAN /\ r.fault \in Nat
    /\ \A r \in FaultRec : r.good => r = Kept(r.fault)
    /\ \A r \in FaultRec, n \in Nat : [r EXCEPT !.fault = n] \in FaultRec
    /\ \A r \in FaultRec, n \in Nat : r.good => [r EXCEPT !.fault = n] = Kept(n)
    /\ \A p \in Nat : Kept(p).good /\ Kept(p).fault = p
  <1>1. /\ Zeros \in FaultRec /\ Blank \in FaultRec /\ \A p \in Nat : Kept(p) \in FaultRec
        /\ ~Zeros.good /\ ~Blank.good
        /\ \A p \in Nat : Kept(p).good /\ Kept(p).fault = p
    BY DEF Zeros, Blank, FaultRec, Kept
  <1>2. \A r \in FaultRec : r.good \in BOOLEAN /\ r.fault \in Nat
    BY DEF FaultRec
  <1>3. ASSUME NEW r \in FaultRec, r.good PROVE r = Kept(r.fault)
    <2>1. r = [good |-> r.good, fault |-> r.fault]
      BY DEF FaultRec
    <2>2. r.good = TRUE
      BY <1>2, <1>3
    <2> QED
      BY <2>1, <2>2 DEF Kept
  <1>4. ASSUME NEW r \in FaultRec, NEW n \in Nat
        PROVE  /\ [r EXCEPT !.fault = n] \in FaultRec
               /\ r.good => [r EXCEPT !.fault = n] = Kept(n)
    <2>1. [r EXCEPT !.fault = n] = [good |-> r.good, fault |-> n]
      BY DEF FaultRec
    <2>2. r.good => r.good = TRUE
      BY <1>2
    <2> QED
      BY <1>2, <2>1, <2>2 DEF FaultRec, Kept
  <1> QED
    BY <1>1, <1>2, <1>3, <1>4

LEMMA CrashInitInv ==
    ASSUME CrashInit
    PROVE  CrashInv
  <1>1. x_flash \in FaultRec
    BY CrashRecords DEF CrashInit, Kept
  <1>2. CrashTyped
    <2>1. -1 \in -1 .. WDT_TICKS /\ 0 \in 0 .. LIVENESS_WINDOW - 1 /\ 0 \in 0 .. BLOB_PIN_MAX
      BY CrashNumbers
    <2> QED
      BY <1>1, <2>1, CrashRecords DEF CrashInit, CrashTyped, Booting, Modes
  <1>3. RecordInv
    BY DEF CrashInit, RecordInv, Booting, InPanic
  <1>4. HangInv
    BY DEF CrashInit, HangInv, Unfed, Hung
  <1> QED
    BY <1>2, <1>3, <1>4 DEF CrashInv

\* A reset that leaves the promised record in flash.
LEMMA CrashResets ==
    ASSUME CrashInv, NEW flash \in FaultRec, NEW crumb, Reset(flash, crumb),
           flash = x_flash \/ h_promised = 0, h_now' \in Nat, h_faults' \in Nat,
           UNCHANGED <<h_promised, h_early>>
    PROVE  CrashInv'
  <1>1. CrashTyped'
    <2>1. -1 \in -1 .. WDT_TICKS /\ 0 \in 0 .. LIVENESS_WINDOW - 1 /\ 0 \in 0 .. BLOB_PIN_MAX
      BY CrashNumbers
    <2> QED
      BY <2>1, CrashRecords DEF CrashInv, CrashTyped, Reset, Booting, Modes
  <1>2. RecordInv'
    BY DEF CrashInv, RecordInv, Reset, Booting, InPanic
  <1>3. HangInv'
    BY DEF HangInv, Unfed, Reset, Hung
  <1> QED
    BY <1>1, <1>2, <1>3 DEF CrashInv

LEMMA CrashCuts ==
    ASSUME CrashInv, PowerCut \/ Bites
    PROVE  CrashInv'
  <1>1. CASE PowerCut
    <2>1. x_flash \in FaultRec /\ h_now' \in Nat /\ h_faults' \in Nat
      BY <1>1 DEF PowerCut, CrashInv, CrashTyped
    <2> QED
      BY <1>1, <2>1, CrashResets DEF PowerCut
  <1>2. CASE Bites
    <2>1. PICK flash \in (IF x_stage = "record" THEN {x_flash, Blank} ELSE {x_flash}) :
            Reset(flash, x_crumb)
      BY <1>2 DEF Bites
    <2>2. flash \in FaultRec /\ (flash = x_flash \/ h_promised = 0)
      BY <2>1, CrashRecords DEF CrashInv, CrashTyped, RecordInv
    <2> QED
      BY <1>2, <2>1, <2>2, CrashResets DEF Bites, CrashInv, CrashTyped
  <1> QED
    BY <1>1, <1>2

LEMMA CrashLoads ==
    ASSUME CrashInv, store_load
    PROVE  CrashInv'
  <1>1. CrashTyped /\ RecordInv /\ HangInv
    BY DEF CrashInv
  <1>2. /\ x_stage = "early" /\ x_stage' = "loaded"
        /\ x_rec' = IF x_flash.good THEN x_flash ELSE Kept(0)
        /\ \/ x_flash' = x_rec' /\ x_rc' = "ok"
           \/ x_flash' \in {x_flash, Blank} /\ x_rc' = "failed"
        /\ h_promised' = IF x_rc' = "ok" THEN h_promised ELSE 0
        /\ UNCHANGED <<x_mode, x_depth, wdtVs, crumbVs, h_faults, h_now, h_early, h_bitten, h_hung>>
    BY DEF store_load, store_save, Kept
  <1>3. x_rec' \in FaultRec /\ x_rec'.good /\ x_flash' \in FaultRec
    BY <1>1, <1>2, CrashRecords DEF CrashTyped
  <1>4. CrashTyped'
    BY <1>1, <1>2, <1>3 DEF CrashTyped, Booting, wdtVs
  <1>5. ASSUME h_promised' # 0, ~h_early' PROVE x_flash' = Kept(h_promised') /\ x_rec'.fault = h_promised'
    <2>1. h_promised' = h_promised /\ x_flash' = x_rec' /\ x_flash = Kept(h_promised) /\ h_promised \in Nat
      BY <1>1, <1>2, <1>5 DEF RecordInv, CrashTyped
    <2>2. x_flash.good /\ x_flash.fault = h_promised
      BY <2>1, CrashRecords
    <2> QED
      BY <1>2, <2>1, <2>2
  <1>6. RecordInv'
    BY <1>1, <1>2, <1>3, <1>5 DEF RecordInv, Booting, InPanic
  <1>7. HangInv'
    BY <1>1, <1>2 DEF HangInv, Unfed, wdtVs
  <1> QED
    BY <1>4, <1>6, <1>7 DEF CrashInv

LEMMA CrashBoots ==
    ASSUME CrashInv, kmain_reports \/ kmain_starts
    PROVE  CrashInv'
  <1>1. CrashTyped /\ RecordInv /\ HangInv
    BY DEF CrashInv
  <1>2. CASE kmain_reports
    <2>1. x_told'.fault = x_rec.fault
      BY <1>2 DEF kmain_reports
    <2>2. CrashTyped'
      BY <1>1, <1>2 DEF CrashTyped, kmain_reports, Booting, recVs, wdtVs, histVs
    <2>3. RecordInv'
      BY <1>1, <1>2, <2>1 DEF RecordInv, kmain_reports, Booting, InPanic, recVs, histVs
    <2>4. HangInv'
      BY <1>1, <1>2 DEF HangInv, Unfed, kmain_reports, recVs, wdtVs, histVs
    <2> QED
      BY <2>2, <2>3, <2>4 DEF CrashInv
  <1>3. CASE kmain_starts
    <2>1. CrashTyped'
      BY <1>1, <1>3, CrashNumbers DEF CrashTyped, kmain_starts, Booting, Modes, recVs, histVs
    <2>2. RecordInv'
      BY <1>1, <1>3 DEF RecordInv, kmain_starts, Booting, InPanic, recVs, histVs, crumbVs
    <2>3. HangInv'
      BY <1>1, <1>3, CrashNumbers DEF HangInv, Unfed, kmain_starts, Hung, recVs, histVs
    <2> QED
      BY <2>1, <2>2, <2>3 DEF CrashInv
  <1> QED
    BY <1>2, <1>3

LEMMA CrashPanics ==
    ASSUME CrashInv, kernel_panic \/ Faults_again
    PROVE  CrashInv'
  <1>1. CrashTyped /\ RecordInv /\ HangInv
    BY DEF CrashInv
  <1>2. /\ h_faults' = h_faults + 1 /\ x_depth' = x_depth + 1 /\ x_mode' = "none" /\ h_hung' = 0
        /\ x_stage' = IF x_depth' > 1 THEN "nested" ELSE "record"
        /\ h_now' = h_faults' /\ h_early' = (IF x_depth = 0 THEN x_stage = "early" ELSE h_early)
        /\ UNCHANGED <<recVs, wdtVs, crumbVs>>
    BY DEF kernel_panic, Faults_again, panic_prologue, Nested
  <1>3. h_early' \in BOOLEAN
    BY <1>1, <1>2 DEF CrashTyped
  <1>4. h_promised' \in Nat
    BY <1>1 DEF kernel_panic, Faults_again, CrashTyped
  <1>5. CrashTyped'
    BY <1>1, <1>2, <1>3, <1>4 DEF CrashTyped, InPanic, Modes, recVs, wdtVs
  <1>6. RecordInv'
    <2>1. CASE kernel_panic
      <3>1. h_promised' = 0 /\ x_depth = 0 /\ x_stage' = "record" /\ x_depth' = 1
        BY <1>1, <1>2, <2>1 DEF kernel_panic, RecordInv, CrashTyped
      <3>2. ~h_early' => x_rec.good
        BY <1>1, <1>2, <2>1, <3>1 DEF RecordInv, kernel_panic, Booting
      <3> QED
        BY <1>2, <3>1, <3>2 DEF RecordInv, Booting, InPanic, recVs
    <2>2. CASE Faults_again
      <3>1. x_depth >= 1 /\ x_stage' = "nested" /\ h_promised' = h_promised /\ h_early' = h_early
        BY <1>1, <1>2, <2>2 DEF Faults_again, RecordInv, InPanic, CrashTyped
      <3> QED
        BY <1>1, <1>2, <3>1 DEF RecordInv, Booting, InPanic, recVs
    <2> QED
      BY <2>1, <2>2
  <1>7. HangInv'
    BY <1>2 DEF HangInv, Unfed, Hung
  <1> QED
    BY <1>5, <1>6, <1>7 DEF CrashInv

LEMMA CrashRecordsFault ==
    ASSUME CrashInv, store_record_fault
    PROVE  CrashInv'
  <1>1. CrashTyped /\ RecordInv /\ HangInv
    BY DEF CrashInv
  <1>2. /\ x_stage = "record" /\ x_stage' = "report" /\ x_rec' = [x_rec EXCEPT !.fault = h_now]
        /\ \/ x_flash' = x_rec' /\ x_rc' = "ok"
           \/ x_flash' \in {x_flash, Blank} /\ x_rc' = "failed"
        /\ h_promised' = IF x_rc' = "ok" /\ h_promised = 0 THEN h_now ELSE h_promised
        /\ UNCHANGED <<x_mode, x_depth, wdtVs, crumbVs, h_faults, h_now, h_early, h_bitten, h_hung>>
    BY DEF store_record_fault, store_save
  <1>3. x_rec' \in FaultRec /\ x_flash' \in FaultRec /\ h_promised = 0 /\ (~h_early => x_rec' = Kept(h_now))
    BY <1>1, <1>2, CrashRecords DEF CrashTyped, RecordInv
  <1>4. CrashTyped'
    BY <1>1, <1>2, <1>3 DEF CrashTyped, InPanic, wdtVs
  <1>5. h_promised' # 0 /\ ~h_early' => x_flash' = Kept(h_promised')
    BY <1>2, <1>3
  <1>6. RecordInv'
    BY <1>1, <1>2, <1>5 DEF RecordInv, Booting, InPanic
  <1>7. HangInv'
    BY <1>1, <1>2 DEF HangInv, Unfed, wdtVs
  <1> QED
    BY <1>4, <1>6, <1>7 DEF CrashInv

LEMMA CrashHalts ==
    ASSUME CrashInv, halt_forever \/ panic_screen \/ panic_nested
    PROVE  CrashInv'
  <1>1. CrashTyped /\ RecordInv /\ HangInv
    BY DEF CrashInv
  <1>2. /\ x_stage \in {"report", "screen", "nested"} /\ x_stage' \in {"screen", "halted"}
        /\ x_stage' = "screen" => x_stage = "report"
        /\ x_wdt' = -1 \/ x_wdt' = x_wdt
        /\ UNCHANGED <<x_mode, x_depth, recVs, x_ticks, x_seen, x_pin, crumbVs, histVs>>
    BY DEF halt_forever, panic_screen, panic_nested, wdtVs
  <1>3. CrashTyped'
    BY <1>1, <1>2, CrashNumbers DEF CrashTyped, InPanic, recVs, histVs
  <1>4. RecordInv'
    BY <1>1, <1>2 DEF RecordInv, Booting, InPanic, recVs, histVs
  <1>5. HangInv'
    <2>1. x_mode = "none"
      BY <1>1, <1>2 DEF HangInv, Unfed
    <2> QED
      BY <1>1, <1>2, <2>1 DEF HangInv, Unfed, Hung, histVs
  <1> QED
    BY <1>3, <1>4, <1>5 DEF CrashInv

\* A task, a call or the tick goes wrong, or a pin begins or ends.
LEMMA CrashModes ==
    ASSUME CrashInv, PinStarts \/ PinEnds \/ Wedges \/ Hogs \/ Dies
    PROVE  CrashInv'
  <1>1. CrashTyped /\ RecordInv /\ HangInv
    BY DEF CrashInv
  <1>2. /\ x_stage = "running" /\ x_mode \in {"alive", "pinned"}
        /\ x_mode' \in {"alive", "pinned", "wedged", "monopoly", "dead"}
        /\ UNCHANGED <<x_stage, x_depth, recVs, x_wdt, x_ticks, x_seen, crumbVs, histVs>>
        /\ x_pin' = 0 \/ x_pin' = x_pin
    BY DEF PinStarts, PinEnds, Wedges, Hogs, Dies, Becomes
  <1>3. CrashTyped'
    BY <1>1, <1>2, CrashNumbers DEF CrashTyped, Modes, Hung, recVs, histVs
  <1>4. RecordInv'
    BY <1>1, <1>2 DEF RecordInv, Booting, InPanic, recVs, histVs, crumbVs
  <1>5. h_hung' = 0 /\ x_wdt' <= MaxHung /\ x_ticks' >= 0 /\ x_pin' >= 0
    BY <1>1, <1>2, CrashNumbers DEF HangInv, Unfed, Hung, CrashTyped, histVs
  <1>6. HangInv'
    BY <1>1, <1>2, <1>3, <1>5 DEF HangInv, Unfed, CrashTyped
  <1> QED
    BY <1>3, <1>4, <1>6 DEF CrashInv

\* One tick: at a feed the system has been hung for no longer than the window or the pin.
LEMMA CrashTicks ==
    ASSUME CrashInv, TickPasses
    PROVE  CrashInv'
  <1>1. CrashTyped /\ RecordInv /\ HangInv
    BY DEF CrashInv
  <1>2. /\ x_wdt # 0 /\ x_stage \in {"running"} \cup InPanic \cup {"nested"}
        /\ UNCHANGED <<x_stage, x_mode, x_depth, recVs, crumbVs, h_faults, h_now, h_promised, h_early, h_bitten>>
        /\ h_hung' = IF x_mode \in Hung /\ h_hung <= MaxHung THEN h_hung + 1 ELSE h_hung
    BY DEF TickPasses
  <1>3. RecordInv'
    BY <1>1, <1>2 DEF RecordInv, recVs, crumbVs
  <1>4. PICK hung \in Nat : /\ h_hung' = hung /\ hung <= h_hung + 1
                            /\ x_mode \notin Hung => hung = h_hung
    BY <1>1, <1>2 DEF CrashTyped
  <1>5. CASE ~(x_stage = "running" /\ x_mode # "dead")
    <2>1. x_wdt' = (IF x_wdt > 0 THEN x_wdt - 1 ELSE x_wdt) /\ UNCHANGED <<x_ticks, x_seen, x_pin>>
      BY <1>5 DEF TickPasses
    <2>2. PICK wdt \in -1 .. WDT_TICKS :
            x_wdt' = wdt /\ (x_wdt > 0 => wdt = x_wdt - 1) /\ (x_wdt >= 0 => wdt >= 0)
      BY <1>1, <2>1, CrashNumbers DEF CrashTyped
    <2>3. CrashTyped'
      BY <1>1, <1>2, <1>4, <2>1, <2>2 DEF CrashTyped, recVs
    <2>4. Unfed(x_mode, wdt, hung, x_seen, x_ticks, x_pin)
      <3>1. CASE x_stage # "running"
        <4>1. x_mode = "none"
          BY <1>1, <3>1 DEF HangInv
        <4> QED
          BY <1>1, <1>4, <4>1 DEF HangInv, Unfed, Hung
      <3>2. CASE x_mode = "dead"
        <4>1. x_wdt > 0 /\ x_wdt \in Int /\ wdt = x_wdt - 1 /\ x_wdt + h_hung <= MaxHung /\ h_hung \in Nat
          BY <1>1, <1>2, <2>2, <3>2 DEF HangInv, Unfed, CrashTyped, Hung
        <4>2. wdt + hung <= MaxHung
          BY <1>4, <2>2, <4>1, CrashNumbers
        <4> QED
          BY <3>2, <4>2 DEF Unfed, Hung
      <3> QED
        BY <1>5, <3>1, <3>2
    <2>5. HangInv'
      BY <1>1, <1>2, <1>4, <2>1, <2>2, <2>4 DEF HangInv
    <2> QED
      BY <1>3, <2>3, <2>5 DEF CrashInv
  <1>6. CASE x_stage = "running" /\ x_mode # "dead"
    <2>1. PICK switched \in (IF x_mode = "alive" THEN BOOLEAN ELSE {FALSE}) :
            LET pinned == x_mode \in {"pinned", "wedged"}
                pin    == IF pinned THEN x_pin + 1 ELSE 0
                seen   == x_seen \/ switched
                closes == x_ticks + 1 >= LIVENESS_WINDOW
                fed    == (pinned /\ pin < BLOB_PIN_MAX) \/ (closes /\ Feeds(seen))
            IN  /\ x_pin' = IF pin > BLOB_PIN_MAX THEN BLOB_PIN_MAX ELSE pin
                /\ x_ticks' = IF closes THEN 0 ELSE x_ticks + 1
                /\ x_seen' = IF closes THEN FALSE ELSE seen
                /\ x_wdt' = IF fed THEN WDT_TICKS ELSE x_wdt - 1
      BY <1>6 DEF TickPasses, watchdog_liveness
    <2> DEFINE pinned == x_mode \in {"pinned", "wedged"}
               pin    == IF pinned THEN x_pin + 1 ELSE 0
               seen   == x_seen \/ switched
               closes == x_ticks + 1 >= LIVENESS_WINDOW
               fed    == (pinned /\ pin < BLOB_PIN_MAX) \/ (closes /\ seen)
               wdt    == IF fed THEN WDT_TICKS ELSE x_wdt - 1
               ticks  == IF closes THEN 0 ELSE x_ticks + 1
               pin1   == IF pin > BLOB_PIN_MAX THEN BLOB_PIN_MAX ELSE pin
               seen1  == IF closes THEN FALSE ELSE seen
    <2>2. x_pin' = pin1 /\ x_ticks' = ticks /\ x_seen' = seen1 /\ x_wdt' = wdt
      BY <2>1 DEF Feeds
    <2>3. x_mode # "alive" => ~switched
      BY <2>1
    <2>4. seen1 \in BOOLEAN
      BY <1>1, <2>1 DEF CrashTyped
    <2>5. x_wdt \in Nat /\ x_wdt > 0
      BY <1>1, <1>2, <1>6 DEF HangInv, CrashTyped
    <2>6. wdt \in 0 .. WDT_TICKS /\ ticks \in 0 .. LIVENESS_WINDOW - 1 /\ pin1 \in 0 .. BLOB_PIN_MAX
      BY <1>1, <2>5, CrashNumbers DEF CrashTyped
    <2>7. CrashTyped'
      <3>1. wdt \in -1 .. WDT_TICKS
        BY <2>6
      <3> HIDE DEF wdt, seen1, ticks, pin1
      <3>2. /\ x_wdt' \in -1 .. WDT_TICKS /\ x_ticks' \in 0 .. LIVENESS_WINDOW - 1
            /\ x_seen' \in BOOLEAN /\ x_pin' \in 0 .. BLOB_PIN_MAX
        BY <2>2, <2>4, <2>6, <3>1
      <3> QED
        BY <1>1, <1>2, <1>4, <3>2 DEF CrashTyped, recVs
    <2>8. Unfed(x_mode, wdt, hung, seen1, ticks, pin1)
      <3>1. CASE x_mode \notin Hung
        BY <1>1, <1>4, <3>1 DEF HangInv, Unfed, Hung
      <3>2. CASE x_mode \in Hung
        <4>1. x_mode \in {"monopoly", "wedged"} /\ h_hung \in Nat /\ x_ticks \in Nat /\ x_pin \in Nat
          BY <1>1, <1>6, <3>2 DEF Hung, CrashTyped
        <4>2. seen => x_seen
          BY <2>3, <4>1
        <4>3. ASSUME fed PROVE hung + WDT_TICKS <= MaxHung
          <5>1. CASE closes /\ seen
            <6>1. h_hung <= x_ticks /\ x_ticks + 1 <= LIVENESS_WINDOW
              BY <1>1, <4>1, <4>2, <5>1, CrashNumbers DEF HangInv, Unfed, CrashTyped
            <6> QED
              BY <1>4, <4>1, <6>1, CrashNumbers
          <5>2. CASE pinned /\ pin < BLOB_PIN_MAX
            <6>1. x_mode = "wedged" /\ x_pin + 1 < BLOB_PIN_MAX
              BY <4>1, <5>2
            <6>2. h_hung <= x_pin
              BY <1>1, <4>1, <6>1, CrashNumbers DEF HangInv, Unfed
            <6> QED
              BY <1>4, <4>1, <6>1, <6>2, CrashNumbers
          <5> QED
            BY <4>3, <5>1, <5>2
        <4>4. wdt + hung <= MaxHung
          <5>1. CASE fed
            BY <1>4, <4>3, <5>1, CrashNumbers
          <5>2. CASE ~fed
            <6>1. x_wdt + h_hung <= MaxHung /\ wdt = x_wdt - 1
              BY <1>1, <3>2, <5>2 DEF HangInv, Unfed
            <6> QED
              BY <1>4, <2>5, <4>1, <6>1, CrashNumbers
          <5> QED
            BY <5>1, <5>2
        <4>5. ASSUME seen1 PROVE hung <= ticks
          <5>1. ~closes /\ x_seen /\ ticks = x_ticks + 1
            BY <4>2, <4>5
          <5>2. h_hung <= x_ticks
            BY <1>1, <4>1, <5>1 DEF HangInv, Unfed
          <5> QED
            BY <1>4, <4>1, <5>1, <5>2
        <4>6. ASSUME x_mode = "wedged", pin1 < BLOB_PIN_MAX PROVE hung <= pin1
          <5>1. pin1 = x_pin + 1 /\ x_pin < BLOB_PIN_MAX
            BY <4>1, <4>6, CrashNumbers
          <5>2. h_hung <= x_pin
            BY <1>1, <4>6, <5>1 DEF HangInv, Unfed
          <5> QED
            BY <1>4, <4>1, <5>1, <5>2
        <4> HIDE DEF wdt, seen1, ticks, pin1
        <4> QED
          BY <3>2, <4>4, <4>5, <4>6 DEF Unfed
      <3> QED
        BY <3>1, <3>2
    <2>9. HangInv'
      <3>1. wdt >= 0
        BY <2>6
      <3> HIDE DEF wdt, seen1, ticks, pin1
      <3> QED
        BY <1>1, <1>2, <1>4, <1>6, <2>2, <2>8, <3>1 DEF HangInv
    <2> QED
      BY <1>3, <2>7, <2>9 DEF CrashInv
  <1> QED
    BY <1>5, <1>6

\* For any detector time, window and bound on a pinned call, and any number of faults and power
\* cuts: a fault that was recorded is the one the next boot reports, whatever faults again in the
\* panic path, and a machine that stopped switching is reset in time (panic.c, watchdog.c, task.c).
THEOREM FaultsAlwaysSurface == CrashSpec => []FaultsSurface
  <1>1. CrashInit => CrashInv
    BY CrashInitInv
  <1>2. CrashInv /\ [CrashNext]_crashVars => CrashInv'
    <2> SUFFICES ASSUME CrashInv, [CrashNext]_crashVars PROVE CrashInv'
      OBVIOUS
    <2>1. CASE UNCHANGED crashVars
      BY <2>1 DEF crashVars, recVs, wdtVs, crumbVs, histVs, CrashInv, CrashTyped, RecordInv, HangInv, Unfed
    <2> QED
      BY <2>1, CrashCuts, CrashLoads, CrashBoots, CrashPanics, CrashRecordsFault, CrashHalts,
         CrashModes, CrashTicks DEF CrashNext
  <1>3. CrashInv => FaultsSurface
    <2> SUFFICES ASSUME CrashInv PROVE FirstFaultIsReported /\ HangIsCaught
      BY DEF FaultsSurface
    <2>1. FirstFaultIsReported
      BY DEF CrashInv, RecordInv, FirstFaultIsReported
    <2>2. HangIsCaught
      <3>1. CASE x_mode \in Hung
        <4>1. x_wdt >= 0 /\ x_wdt \in Int /\ h_hung \in Nat /\ x_wdt + h_hung <= MaxHung
          BY <3>1 DEF CrashInv, HangInv, Unfed, CrashTyped, Hung
        <4> QED
          BY <4>1, CrashNumbers DEF HangIsCaught
      <3>2. CASE x_mode \notin Hung
        BY <3>2, CrashNumbers DEF CrashInv, HangInv, Unfed, HangIsCaught
      <3> QED
        BY <3>1, <3>2
    <2> QED
      BY <2>1, <2>2
  <1> QED
    BY <1>1, <1>2, <1>3, PTL DEF CrashSpec

-----------------------------------------------------------------------------
(* Touches.                                                                 *)

\* A calibration not yet complete.
Partial == {q \in Seq(Crosses) : Len(q) < 4}

\* A contact that has acted is as long as a press must be, is in a place where it cannot act
\* again, and the calibration has seen it down.
TouchInv ==
    /\ t_run \in 0 .. TOUCH_DOWN_SAMPLES /\ h_len = t_run
    /\ h_acts \in {0, 1} /\ h_spot \in Spots \cup {UP}
    /\ c_taps \in Partial /\ c_was_down \in BOOLEAN
    /\ c_installed = TARGETS
    /\ h_acts > 0 => t_run = TOUCH_DOWN_SAMPLES /\ h_spot # UP
    /\ c_running /\ h_acts > 0 => c_was_down /\ h_spot = "rest"
    /\ h_acts > 0 /\ h_spot \in {"close", "corner"} => d_mode = "launcher"

LEMMA TouchNumbers == TOUCH_DOWN_SAMPLES \in Nat /\ TOUCH_DOWN_SAMPLES > 0
  BY TouchAssumption

\* A sample: the run of samples, and whether it is a press.
LEMMA TouchReads ==
    ASSUME TouchInv, NEW s \in Spots \cup {UP}, touch_read(s)
    PROVE  /\ t_run' \in 0 .. TOUCH_DOWN_SAMPLES /\ h_len' = t_run' /\ h_spot' = s
           /\ s = UP => h_len' = 0 /\ ~IsDown(t_run')
           /\ s # UP => h_len' # 0
           /\ IsDown(t_run') => t_run' = TOUCH_DOWN_SAMPLES /\ s # UP
           /\ s # UP /\ h_acts > 0 => s = h_spot /\ IsDown(t_run')
  <1>1. CASE s = UP
    BY <1>1, TouchNumbers DEF TouchInv, touch_read, IsDown
  <1>2. CASE s # UP
    <2>1. t_run' = Upto(t_run + 1, TOUCH_DOWN_SAMPLES) /\ h_len' = Upto(h_len + 1, TOUCH_DOWN_SAMPLES)
      BY <1>2 DEF touch_read
    <2>2. PICK n \in 1 .. TOUCH_DOWN_SAMPLES : n = Upto(t_run + 1, TOUCH_DOWN_SAMPLES)
                 /\ (t_run = TOUCH_DOWN_SAMPLES => n = TOUCH_DOWN_SAMPLES)
      BY TouchNumbers DEF TouchInv, Upto
    <2>3. t_run' = n /\ h_len' = n
      BY <2>1, <2>2 DEF TouchInv
    <2>4. n \in Nat /\ n # 0 /\ n <= TOUCH_DOWN_SAMPLES /\ n \in 0 .. TOUCH_DOWN_SAMPLES
      BY <2>2, TouchNumbers
    <2>5. IsDown(n) <=> n = TOUCH_DOWN_SAMPLES
      BY <2>4, TouchNumbers DEF IsDown
    <2>6. h_acts > 0 => n = TOUCH_DOWN_SAMPLES /\ s = h_spot
      BY <1>2, <2>2 DEF TouchInv, touch_read
    <2> QED
      BY <1>2, <2>3, <2>4, <2>5, <2>6 DEF touch_read
  <1> QED
    BY <1>1, <1>2

LEMMA PartialRuns ==
    /\ <<>> \in Partial
    /\ \A q \in Partial, p \in Crosses :
           LET r == Append(q, p) IN
           r \in Seq(Crosses) /\ Len(r) \in Nat /\ (Len(r) # 4 => r \in Partial)
  <1>1. <<>> \in Seq(Crosses) /\ Len(<<>>) = 0
    OBVIOUS
  <1>2. ASSUME NEW q \in Partial, NEW p \in Crosses, NEW r, r = Append(q, p)
        PROVE  r \in Seq(Crosses) /\ Len(r) \in Nat /\ (Len(r) # 4 => r \in Partial)
    <2>1. r \in Seq(Crosses) /\ Len(r) = Len(q) + 1 /\ Len(q) \in Nat /\ Len(q) < 4
      BY <1>2 DEF Partial
    <2> QED
      BY <2>1 DEF Partial
  <1> QED
    BY <1>1, <1>2 DEF Partial

LEMMA NoTaps == <<>> \in Partial
  BY PartialRuns

\* A run whose pairs agree and differ in the right way is the run of the crosses as shown.
LEMMA FinishIsTargets ==
    ASSUME c_installed = TARGETS, NEW taps \in Seq(Crosses), Len(taps) = 4
    PROVE  finish(taps) = TARGETS
  <1>1. \A i \in 1 .. 4 : taps[i] \in Crosses
    <2>1. taps \in [1 .. Len(taps) -> Crosses]
      BY LenProperties
    <2>2. taps \in [1 .. 4 -> Crosses]
      BY <2>1
    <2> QED
      BY <2>2
  <1>2. \A p \in Crosses : p = <<p[1], p[2]>>
    BY DEF Crosses
  <1>3. /\ taps[1] = <<taps[1][1], taps[1][2]>> /\ taps[2] = <<taps[2][1], taps[2][2]>>
        /\ taps[3] = <<taps[3][1], taps[3][2]>> /\ taps[4] = <<taps[4][1], taps[4][2]>>
    BY <1>1, <1>2
  <1> DEFINE good ==
        /\ taps[1][1] = "left" /\ taps[2][1] = "right" /\ taps[3][1] = "left" /\ taps[4][1] = "right"
        /\ taps[1][2] = "top" /\ taps[2][2] = "top" /\ taps[3][2] = "bottom" /\ taps[4][2] = "bottom"
  <1>4. ASSUME good PROVE taps = TARGETS
    <2>1. taps = <<taps[1], taps[2], taps[3], taps[4]>>
      OBVIOUS
    <2> QED
      BY <1>3, <1>4, <2>1 DEF TARGETS
  <1>5. ASSUME ~good PROVE finish(taps) = c_installed
    BY <1>5 DEF finish
  <1>6. good => finish(taps) \in {taps, c_installed}
    BY DEF finish
  <1> HIDE DEF good
  <1> QED
    BY <1>4, <1>5, <1>6

LEMMA TouchCalibrates ==
    ASSUME TouchInv, CalibrationSample
    PROVE  TouchInv'
  <1>1. PICK place \in Crosses, s \in {UP, "rest"} : touch_read(s) /\ calib_touch(place, IsDown(t_run'))
    BY DEF CalibrationSample
  <1>2. s \in Spots \cup {UP}
    BY DEF Spots
  <1> DEFINE down == IsDown(t_run')
             taps == Append(c_taps, place)
  <1>3. /\ t_run' \in 0 .. TOUCH_DOWN_SAMPLES /\ h_len' = t_run' /\ h_spot' = s
        /\ s = UP => h_len' = 0 /\ ~down
        /\ s # UP => h_len' # 0
        /\ down => t_run' = TOUCH_DOWN_SAMPLES /\ s # UP
        /\ s # UP /\ h_acts > 0 => s = h_spot /\ down
    BY <1>1, <1>2, TouchReads
  <1>4. /\ c_running /\ c_was_down' = down /\ d_mode' = d_mode
        /\ IF down /\ ~c_was_down
           THEN /\ c_taps' = IF Len(taps) = 4 THEN <<>> ELSE taps
                /\ c_running' = (Len(taps) # 4)
                /\ c_installed' = IF Len(taps) = 4 THEN finish(taps) ELSE c_installed
                /\ h_acts' = h_acts + 1
           ELSE /\ UNCHANGED <<c_taps, c_running, c_installed>>
                /\ h_acts' = IF h_len' = 0 THEN 0 ELSE h_acts
    BY <1>1 DEF calib_touch, TARGETS, deskVars
  <1>5. taps \in Seq(Crosses) /\ (Len(taps) # 4 => taps \in Partial)
    BY PartialRuns DEF TouchInv
  <1>6. c_taps' \in Partial
    <2>1. c_taps \in Partial /\ <<>> \in Partial
      BY PartialRuns DEF TouchInv
    <2>2. c_taps' \in {<<>>, c_taps} \/ (c_taps' = taps /\ Len(taps) # 4)
      BY <1>4
    <2> QED
      BY <1>5, <2>1, <2>2
  <1>7. c_installed' = TARGETS
    BY <1>4, <1>5, FinishIsTargets DEF TouchInv
  <1>8. down \in BOOLEAN
    BY DEF IsDown
  <1> HIDE DEF down
  <1>9. h_acts' \in {0, 1} /\ (h_acts' > 0 => down)
    <2>1. CASE down /\ ~c_was_down
      BY <1>4, <2>1 DEF TouchInv
    <2>2. CASE ~(down /\ ~c_was_down)
      <3>1. h_acts' = IF h_len' = 0 THEN 0 ELSE h_acts
        BY <1>4, <2>2
      <3>2. h_acts \in {0, 1}
        BY DEF TouchInv
      <3>3. CASE s = UP
        <4>1. h_acts' = 0
          BY <1>3, <3>1, <3>3
        <4> QED
          BY <4>1
      <3>4. CASE s # UP
        <4>1. h_acts' = h_acts
          BY <1>3, <3>1, <3>4
        <4> QED
          BY <1>3, <3>2, <3>4, <4>1
      <3> QED
        BY <3>3, <3>4
    <2> QED
      BY <2>1, <2>2
  <1>10. s \in Spots \cup {UP} /\ (s # UP => s = "rest")
    BY <1>2
  <1> QED
    BY <1>3, <1>4, <1>6, <1>7, <1>8, <1>9, <1>10 DEF TouchInv

\* The desktop: a press on a close button, a keyboard view, or the launcher and the other views.
LEMMA TouchRoutes ==
    ASSUME TouchInv, RoutedSample
    PROVE  TouchInv'
  <1> DEFINE down == IsDown(t_run')
  <1>1. PICK s \in Spots \cup {UP} :
        /\ ~c_running /\ touch_read(s) /\ UNCHANGED calVars
        /\ CASE down /\ Closes(s)             -> desktop_chrome_touch(s)
             [] ~(down /\ Closes(s)) /\ KeyboardView ->
                    /\ h_acts' = IF h_len' = 0 THEN 0 ELSE h_acts
                    /\ d_press_age' = Upto(d_press_age + 1, TAP_MIN_TICKS)
                    /\ d_tap_age' = Upto(d_tap_age + 1, DOUBLE_TAP_TICKS)
                    /\ UNCHANGED <<d_mode, d_sel, d_was_down, d_tap_sel, d_focus, d_strip>>
             [] OTHER                          -> desktop_touch(s, down) /\ UNCHANGED d_strip
    BY DEF RoutedSample
  <1>2. /\ t_run' \in 0 .. TOUCH_DOWN_SAMPLES /\ h_len' = t_run' /\ h_spot' = s
        /\ s = UP => h_len' = 0 /\ ~down
        /\ s # UP => h_len' # 0
        /\ down => t_run' = TOUCH_DOWN_SAMPLES /\ s # UP
        /\ s # UP /\ h_acts > 0 => s = h_spot /\ down
    BY <1>1, TouchReads
  <1>3. ASSUME h_acts' \in {0, 1}, h_acts' > 0 => down,
               h_acts' > 0 /\ s \in {"close", "corner"} => d_mode' = "launcher"
        PROVE  TouchInv'
    BY <1>1, <1>2, <1>3 DEF TouchInv, calVars
  <1>4. ASSUME h_acts' = IF h_len' = 0 THEN 0 ELSE h_acts,
               down \/ h_acts = 0 => d_mode' = d_mode \/ h_acts = 0
        PROVE  TouchInv'
    <2>1. h_acts' > 0 => h_acts > 0 /\ s # UP /\ down /\ s = h_spot
      BY <1>2, <1>4 DEF TouchInv
    <2>2. h_acts' \in {0, 1}
      BY <1>4 DEF TouchInv
    <2>3. h_acts' > 0 /\ s \in {"close", "corner"} => d_mode' = "launcher"
      BY <1>4, <2>1 DEF TouchInv
    <2> QED
      BY <1>3, <2>1, <2>2, <2>3
  <1> HIDE DEF down
  <1>5. CASE down /\ Closes(s)
    <2>1. desktop_chrome_touch(s)
      BY <1>1, <1>5
    <2>2. CASE s = "close"
      <3>1. d_mode # "launcher" /\ d_mode' = "launcher" /\ h_acts' = h_acts + 1
        BY <1>5, <2>1, <2>2 DEF Closes, desktop_chrome_touch
      <3>2. h_acts = 0
        BY <1>2, <1>5, <2>2, <3>1 DEF TouchInv
      <3> QED
        BY <1>3, <1>5, <3>1, <3>2
    <2>3. CASE s # "close"
      <3>1. s = "strip" /\ h_acts' = Upto(h_acts + 1, 1)
        BY <1>5, <2>1, <2>3 DEF Closes, desktop_chrome_touch
      <3>2. h_acts' = 1
        BY <3>1 DEF TouchInv, Upto
      <3> QED
        BY <1>3, <1>5, <3>1, <3>2
    <2> QED
      BY <2>2, <2>3
  <1>6. CASE ~(down /\ Closes(s)) /\ KeyboardView
    <2>1. h_acts' = (IF h_len' = 0 THEN 0 ELSE h_acts) /\ d_mode' = d_mode
      BY <1>1, <1>6
    <2> QED
      BY <1>4, <2>1
  <1>7. CASE ~(down /\ Closes(s)) /\ ~KeyboardView
    <2>1. desktop_touch(s, down)
      BY <1>1, <1>7
    <2>2. CASE d_mode # "launcher"
      <3>1. /\ d_mode' = IF down /\ s = "corner" THEN "launcher" ELSE d_mode
            /\ h_acts' = IF h_len' = 0 THEN 0 ELSE h_acts + (IF d_mode' # d_mode THEN 1 ELSE 0)
        BY <2>1, <2>2 DEF desktop_touch
      <3>2. CASE down /\ s = "corner"
        <4>1. d_mode' = "launcher" /\ h_acts' = h_acts + 1
          BY <1>2, <2>2, <3>1, <3>2
        <4>2. h_acts = 0
          BY <1>2, <2>2, <3>2 DEF TouchInv
        <4> QED
          BY <1>3, <3>2, <4>1, <4>2
      <3>3. CASE ~(down /\ s = "corner")
        <4>1. d_mode' = d_mode /\ h_acts' = IF h_len' = 0 THEN 0 ELSE h_acts
          BY <3>1, <3>3 DEF TouchInv
        <4> QED
          BY <1>4, <4>1
      <3> QED
        BY <3>2, <3>3
    <2>3. CASE d_mode = "launcher"
      <3>1. h_acts' = IF h_len' = 0 THEN 0 ELSE h_acts
        BY <2>1, <2>3 DEF desktop_touch
      <3>2. down => d_mode' = d_mode
        BY <2>1, <2>3 DEF desktop_touch
      <3> QED
        BY <1>4, <3>1, <3>2
    <2> QED
      BY <2>2, <2>3
  <1> QED
    BY <1>5, <1>6, <1>7

\* For any press length, any tap and double-tap times: whatever the finger, the noise, the
\* programs and the calibration do, a view closes, a program dies or a cross is read only under a
\* contact long enough, once for one contact, and only a true mapping is installed
\* (touch.c, kmain.c, desktop.c, calib.c).
THEOREM TouchesAreDeliberate == TouchSpec => []TouchIsDeliberate
  <1>1. TouchInit => TouchInv
    <2>1. 0 \in 0 .. TOUCH_DOWN_SAMPLES
      BY TouchNumbers
    <2> SUFFICES ASSUME TouchInit PROVE TouchInv
      OBVIOUS
    <2>2. h_acts \in {0, 1} /\ ~(h_acts > 0)
      BY DEF TouchInit
    <2>3. t_run \in 0 .. TOUCH_DOWN_SAMPLES /\ h_len = t_run
      BY <2>1 DEF TouchInit
    <2>4. c_taps \in Partial /\ c_was_down \in BOOLEAN /\ c_installed = TARGETS
      BY NoTaps DEF TouchInit
    <2>5. h_spot \in Spots \cup {UP}
      BY DEF TouchInit
    <2> QED
      BY <2>2, <2>3, <2>4, <2>5 DEF TouchInv
  <1>2. TouchInv /\ [TouchNext]_touchVars => TouchInv'
    <2> SUFFICES ASSUME TouchInv, [TouchNext]_touchVars PROVE TouchInv'
      OBVIOUS
    <2>1. CASE calib_start
      <3>1. c_taps' \in Partial
        BY <2>1, NoTaps DEF calib_start
      <3>2. h_acts' = 0 /\ c_was_down' \in BOOLEAN
        BY <2>1 DEF calib_start
      <3>3. h_acts' \in {0, 1} /\ ~(h_acts' > 0)
        BY <3>2
      <3>4. UNCHANGED <<t_run, h_len, h_spot, c_installed>>
        BY <2>1 DEF calib_start
      <3> QED
        BY <3>1, <3>2, <3>3, <3>4 DEF TouchInv
    <2>2. CASE shell_launch
      BY <2>2 DEF shell_launch, TouchInv, calVars
    <2>3. CASE app_retires
      BY <2>3 DEF app_retires, TouchInv, calVars
    <2>4. CASE UNCHANGED touchVars
      BY <2>4 DEF touchVars, deskVars, calVars, TouchInv
    <2> QED
      BY <2>1, <2>2, <2>3, <2>4, TouchCalibrates, TouchRoutes DEF TouchNext
  <1>3. TouchInv => TouchIsDeliberate
    BY TouchNumbers DEF TouchInv, TouchIsDeliberate
  <1> QED
    BY <1>1, <1>2, <1>3, PTL DEF TouchSpec

-----------------------------------------------------------------------------
(* The network.                                                             *)

LEMMA NetNumbers == /\ NET_SLOTS \in Nat /\ NET_SLOTS > 1 /\ BODY_MAX \in Nat /\ MaxFetches \in Nat
  BY NetAssumption

\* Who drains: the task that polls, and after the handover the net task; so one at a time.
Places == {"out", "polls", "input", "timers", "program", "serves", "browser", "dhcp"}
Turn(pc, poller, handover, up) ==
    /\ pc \in [NetTasks -> Places]
    /\ \A t \in NetTasks : pc[t] = "polls" => poller = t
    /\ pc["shell"] = "input" => poller = "shell"
    /\ pc["net"] = "input" => poller = "net" \/ (handover = TRUE /\ poller = "none")
    /\ handover = TRUE => up = TRUE /\ poller = "none"
    /\ poller # "none" => up = TRUE

\* c frames wait in the ring, from the tail on, numbered from the next to be seen.
Filled(c, slot, head, tail, frame, seen) ==
    /\ head = (tail + c) % NET_SLOTS
    /\ frame = (seen + c) % (NET_SLOTS + 1)
    /\ \A j \in 0 .. c - 1 : slot[(tail + j) % NET_SLOTS] = (seen + j) % (NET_SLOTS + 1)
Lined(slot, head, tail, frame, seen) ==
    /\ DOMAIN slot = 0 .. NET_SLOTS - 1
    /\ tail \in 0 .. NET_SLOTS - 1 /\ seen \in 0 .. NET_SLOTS
    /\ \E c \in 0 .. NET_SLOTS - 1 : Filled(c, slot, head, tail, frame, seen)

\* A frame being handled is the one at the tail.
AtTheTail(pc, slot, head, tail) ==
    \A t \in NetTasks : pc[t] = "input" => slot = tail /\ tail # head

\* The connections that can bring bytes: the last fetch's, and webfetch knows it.
Pcbs == {"free", "connecting", "open", "closing"}
Live == {"connecting", "open"}
Ours(stale, pcb, tcp, id, state) ==
    /\ id \in 0 .. MaxFetches /\ pcb \in [Fetches1 -> Pcbs]
    /\ state = "resolving" => id # 0
    /\ stale = FALSE =>
           /\ tcp \in {NO, id} /\ (state = "resolving" => tcp = NO)
           /\ \A f \in Fetches1 : pcb[f] \in Live => f = tcp
Counted(stale, from, id, len, dropped, got) ==
    /\ len \in Int /\ dropped \in Int /\ got = len + dropped
    /\ stale = FALSE => from \subseteq {id}

NetInv ==
    /\ Turn(q_pc, q_poller, q_handover, q_up)
    /\ Lined(q_slot, q_head, q_tail, h_frame, h_seen)
    /\ AtTheTail(q_pc, h_slot, q_head, q_tail)
    /\ h_stale \in BOOLEAN
    /\ Ours(h_stale, f_pcb, f_tcp, f_id, f_state)
    /\ Counted(h_stale, h_from, f_id, f_len, f_dropped, h_got)

RingKept == Lined(q_slot, q_head, q_tail, h_frame, h_seen)
BodyKept == /\ h_stale \in BOOLEAN /\ Ours(h_stale, f_pcb, f_tcp, f_id, f_state)
            /\ Counted(h_stale, h_from, f_id, f_len, f_dropped, h_got)

-----------------------------------------------------------------------------
\* A frame is stored.
LEMMA RingStores ==
    ASSUME RingKept, net_rx_enqueue
    PROVE  RingKept' /\ q_head' # q_tail
  <1>1. /\ ~RingFull /\ q_slot' = [q_slot EXCEPT ![q_head] = h_frame]
        /\ q_head' = (q_head + 1) % NET_SLOTS /\ h_frame' = (h_frame + 1) % (NET_SLOTS + 1)
        /\ UNCHANGED <<q_tail, h_seen>>
    BY DEF net_rx_enqueue, Slot1, Number1
  <1>2. PICK c \in 0 .. NET_SLOTS - 1 : Filled(c, q_slot, q_head, q_tail, h_frame, h_seen)
    BY DEF RingKept, Lined
  <1>3. /\ q_head = (q_tail + c) % NET_SLOTS /\ h_frame = (h_seen + c) % (NET_SLOTS + 1)
        /\ q_tail \in 0 .. NET_SLOTS - 1 /\ h_seen \in 0 .. NET_SLOTS
        /\ DOMAIN q_slot = 0 .. NET_SLOTS - 1
    BY <1>2 DEF Filled, RingKept, Lined
  <1>4. (q_head + 1) % NET_SLOTS = (q_tail + (c + 1)) % NET_SLOTS
    <2>1. q_tail + c \in Nat /\ q_tail + c < 2 * NET_SLOTS - 1
      BY <1>3, NetNumbers
    <2>2. (q_head + 1) % NET_SLOTS = ((q_tail + c) + 1) % NET_SLOTS
      BY <1>3, <2>1, ModNext, NetNumbers
    <2>3. (q_tail + c) + 1 = q_tail + (c + 1)
      BY <1>3, NetNumbers
    <2> QED
      BY <2>2, <2>3
  <1>5. (h_frame + 1) % (NET_SLOTS + 1) = (h_seen + (c + 1)) % (NET_SLOTS + 1)
    <2>1. h_seen + c \in Nat /\ h_seen + c < 2 * (NET_SLOTS + 1) - 1 /\ NET_SLOTS + 1 \in Nat /\ NET_SLOTS + 1 > 0
      BY <1>3, NetNumbers
    <2>2. (h_frame + 1) % (NET_SLOTS + 1) = ((h_seen + c) + 1) % (NET_SLOTS + 1)
      BY <1>3, <2>1, ModNext
    <2>3. (h_seen + c) + 1 = h_seen + (c + 1)
      BY <1>3, NetNumbers
    <2> QED
      BY <2>2, <2>3
  <1>6. q_head' # q_tail
    BY <1>1 DEF RingFull, Slot1
  <1>7. c + 1 \in 0 .. NET_SLOTS - 1
    <2>1. SUFFICES ASSUME c = NET_SLOTS - 1 PROVE FALSE
      BY NetNumbers
    <2>2. (q_tail + NET_SLOTS) % NET_SLOTS = q_tail % NET_SLOTS /\ q_tail % NET_SLOTS = q_tail
      BY <1>3, ModAgain, ModTurn, NetNumbers
    <2>3. q_tail + (c + 1) = q_tail + NET_SLOTS
      BY <1>3, <2>1, NetNumbers
    <2> QED
      BY <1>1, <1>4, <1>6, <2>2, <2>3
  <1>8. ASSUME NEW j \in 0 .. (c + 1) - 1
        PROVE  q_slot'[(q_tail + j) % NET_SLOTS] = (h_seen + j) % (NET_SLOTS + 1)
    <2>1. (q_tail + j) % NET_SLOTS \in 0 .. NET_SLOTS - 1 /\ j \in 0 .. NET_SLOTS - 1 /\ q_tail + j \in Int
      BY <1>3, <1>7, ModTurn, NetNumbers
    <2>2. CASE j = c
      BY <1>1, <1>3, <2>1, <2>2
    <2>3. CASE j # c
      <3>1. (q_tail + j) % NET_SLOTS # (q_tail + c) % NET_SLOTS
        BY <1>3, <2>1, <2>3, ModApart, NetNumbers
      <3>2. j \in 0 .. c - 1
        BY <2>3
      <3>3. q_slot[(q_tail + j) % NET_SLOTS] = (h_seen + j) % (NET_SLOTS + 1)
        BY <1>2, <3>2 DEF Filled
      <3> QED
        BY <1>1, <1>3, <2>1, <3>1, <3>3
    <2> QED
      BY <2>2, <2>3
  <1>9. Filled(c + 1, q_slot', q_head', q_tail', h_frame', h_seen')
    BY <1>1, <1>4, <1>5, <1>8 DEF Filled
  <1>10. DOMAIN q_slot' = 0 .. NET_SLOTS - 1
    BY <1>1, <1>3
  <1> QED
    BY <1>1, <1>3, <1>6, <1>7, <1>9, <1>10 DEF RingKept, Lined

\* The oldest frame is given back.
LEMMA RingGives ==
    ASSUME RingKept, FrameHandled, q_tail # q_head
    PROVE  RingKept'
  <1>1. /\ q_tail' = (q_tail + 1) % NET_SLOTS /\ h_seen' = (h_seen + 1) % (NET_SLOTS + 1)
        /\ UNCHANGED <<q_slot, q_head, h_frame>>
    BY DEF FrameHandled, Slot1, Number1
  <1>2. PICK c \in 0 .. NET_SLOTS - 1 : Filled(c, q_slot, q_head, q_tail, h_frame, h_seen)
    BY DEF RingKept, Lined
  <1>3. /\ q_head = (q_tail + c) % NET_SLOTS /\ h_frame = (h_seen + c) % (NET_SLOTS + 1)
        /\ q_tail \in 0 .. NET_SLOTS - 1 /\ h_seen \in 0 .. NET_SLOTS
        /\ DOMAIN q_slot = 0 .. NET_SLOTS - 1
    BY <1>2 DEF Filled, RingKept, Lined
  <1>4. c # 0
    <2>1. q_tail + 0 = q_tail /\ q_tail % NET_SLOTS = q_tail
      BY <1>3, ModTurn, NetNumbers
    <2> QED
      BY <1>3, <2>1
  <1> DEFINE t1 == (q_tail + 1) % NET_SLOTS
             s1 == (h_seen + 1) % (NET_SLOTS + 1)
  <1>5. t1 \in 0 .. NET_SLOTS - 1 /\ s1 \in 0 .. NET_SLOTS
    <2>1. t1 \in 0 .. NET_SLOTS - 1
      BY <1>3, ModTurn, NetNumbers
    <2>2. NET_SLOTS + 1 \in Nat /\ NET_SLOTS + 1 > 0 /\ h_seen + 1 \in Int /\ (NET_SLOTS + 1) - 1 = NET_SLOTS
      BY <1>3, NetNumbers
    <2>3. s1 \in 0 .. (NET_SLOTS + 1) - 1
      BY <2>2, ModTurn
    <2> QED
      BY <2>1, <2>2, <2>3
  <1>6. ASSUME NEW j \in 0 .. c - 1
        PROVE  /\ (t1 + j) % NET_SLOTS = (q_tail + (j + 1)) % NET_SLOTS
               /\ (s1 + j) % (NET_SLOTS + 1) = (h_seen + (j + 1)) % (NET_SLOTS + 1)
    <2>1. j \in Nat /\ j + 1 \in Nat /\ j + 1 < NET_SLOTS /\ q_tail + (j + 1) = (q_tail + 1) + j
          /\ h_seen + (j + 1) = (h_seen + 1) + j
      BY <1>3, NetNumbers
    <2>2. ASSUME NEW m \in Nat, m > 0, NEW x \in 0 .. m - 1, j + 1 < m
          PROVE  (((x + 1) % m) + j) % m = ((x + 1) + j) % m
      <3>1. CASE x + 1 < m
        <4>1. (x + 1) % m = x + 1
          BY <3>1, ModTurn
        <4> QED
          BY <4>1
      <3>2. CASE x + 1 >= m
        <4>1. x + 1 = m /\ m % m = 0
          BY <3>2, ModTurn
        <4>2. 0 + j = j /\ j % m = j /\ (j + m) % m = j
          BY <2>1, <2>2, ModTurn, ModAgain
        <4>3. (x + 1) + j = j + m
          BY <2>1, <4>1
        <4> QED
          BY <4>1, <4>2, <4>3
      <3> QED
        BY <3>1, <3>2
    <2>3. (t1 + j) % NET_SLOTS = ((q_tail + 1) + j) % NET_SLOTS
      BY <1>3, <2>1, <2>2, NetNumbers
    <2>4. NET_SLOTS + 1 \in Nat /\ NET_SLOTS + 1 > 0 /\ h_seen \in 0 .. (NET_SLOTS + 1) - 1 /\ j + 1 < NET_SLOTS + 1
      BY <1>3, <2>1, NetNumbers
    <2>5. (s1 + j) % (NET_SLOTS + 1) = ((h_seen + 1) + j) % (NET_SLOTS + 1)
      BY <2>2, <2>4
    <2> QED
      BY <2>1, <2>3, <2>5
  <1>7. c - 1 \in 0 .. NET_SLOTS - 1 /\ c - 1 \in 0 .. c - 1 /\ (c - 1) + 1 = c
    BY <1>4, NetNumbers
  <1> HIDE DEF t1, s1
  <1>8. q_head = (t1 + (c - 1)) % NET_SLOTS /\ h_frame = (s1 + (c - 1)) % (NET_SLOTS + 1)
    BY <1>3, <1>6, <1>7
  <1>9. ASSUME NEW j \in 0 .. (c - 1) - 1
        PROVE  q_slot[(t1 + j) % NET_SLOTS] = (s1 + j) % (NET_SLOTS + 1)
    <2>1. j \in 0 .. c - 1 /\ j + 1 \in 0 .. c - 1
      BY <1>7
    <2>2. q_slot[(q_tail + (j + 1)) % NET_SLOTS] = (h_seen + (j + 1)) % (NET_SLOTS + 1)
      BY <1>2, <2>1 DEF Filled
    <2> QED
      BY <1>6, <2>1, <2>2
  <1>10. Filled(c - 1, q_slot, q_head, t1, h_frame, s1)
    BY <1>8, <1>9 DEF Filled
  <1>11. q_tail' = t1 /\ h_seen' = s1
    BY <1>1 DEF t1, s1
  <1> QED
    BY <1>1, <1>3, <1>5, <1>7, <1>10, <1>11 DEF RingKept, Lined

-----------------------------------------------------------------------------
\* The fetch fails: its connection is aborted.
LEMMA BodyFails ==
    ASSUME BodyKept, FailWith(f_pcb)
    PROVE  BodyKept'
  <1>1. /\ f_state' = "failed" /\ f_tcp' = NO
        /\ f_pcb' = (IF f_tcp = NO THEN f_pcb ELSE [f_pcb EXCEPT ![f_tcp] = "free"])
        /\ UNCHANGED <<f_id, f_len, f_dropped, h_from, h_got, h_stale>>
    BY DEF FailWith
  <1>2. f_pcb' \in [Fetches1 -> Pcbs]
    BY <1>1 DEF BodyKept, Ours, Pcbs
  <1>3. ASSUME h_stale = FALSE, NEW f \in Fetches1, f_pcb'[f] \in Live PROVE FALSE
    <2>1. f # f_tcp => f_pcb'[f] = f_pcb[f]
      BY <1>1 DEF BodyKept, Ours, Pcbs
    <2>2. f = f_tcp => f_pcb'[f] = "free"
      BY <1>1 DEF BodyKept, Ours, Fetches1, NO
    <2> QED
      BY <1>3, <2>1, <2>2 DEF BodyKept, Ours, Live
  <1> QED
    BY <1>1, <1>2, <1>3 DEF BodyKept, Ours, Counted

LEMMA BodyStarts ==
    ASSUME BodyKept, webfetch_start
    PROVE  BodyKept'
  <1>1. /\ f_id < MaxFetches /\ f_id' = f_id + 1 /\ f_pcb' = Aborted(f_pcb) /\ f_tcp' = NO
        /\ f_len' = 0 /\ f_dropped' = 0 /\ h_from' = {} /\ h_got' = 0 /\ UNCHANGED h_stale
    BY DEF webfetch_start
  <1>2. f_pcb' \in [Fetches1 -> Pcbs]
    BY <1>1 DEF BodyKept, Ours, Aborted, Pcbs
  <1>3. ASSUME h_stale = FALSE, NEW f \in Fetches1, f_pcb'[f] \in Live PROVE FALSE
    <2>1. f # f_tcp => f_pcb'[f] = f_pcb[f]
      BY <1>1 DEF BodyKept, Ours, Aborted, Pcbs
    <2>2. f = f_tcp => f_pcb'[f] = "free"
      BY <1>1 DEF BodyKept, Ours, Fetches1, NO, Aborted
    <2> QED
      BY <1>3, <2>1, <2>2 DEF BodyKept, Ours, Live
  <1>4. PICK n \in 0 .. MaxFetches : n = f_id + 1 /\ n # 0
    BY <1>1, NetNumbers DEF BodyKept, Ours, Pcbs
  <1>5. f_id' = n
    BY <1>1, <1>4
  <1>6. Ours(h_stale', f_pcb', f_tcp', f_id', f_state')
    BY <1>1, <1>2, <1>3, <1>4, <1>5 DEF Ours
  <1>7. Counted(h_stale', h_from', f_id', f_len', f_dropped', h_got')
    BY <1>1 DEF Counted
  <1> QED
    BY <1>1, <1>6, <1>7 DEF BodyKept

LEMMA BodyServes ==
    ASSUME BodyKept, webfetch_service
    PROVE  BodyKept'
  <1>1. CASE FailWith(f_pcb)
    BY <1>1, BodyFails
  <1>2. CASE /\ f_state = "requesting" /\ f_state' = "done"
             /\ f_pcb' = Aborted(f_pcb) /\ f_tcp' = NO
             /\ UNCHANGED <<f_id, f_len, f_dropped, h_from, h_got, h_stale>>
    <2>1. f_pcb' \in [Fetches1 -> Pcbs]
      BY <1>2 DEF BodyKept, Ours, Aborted, Pcbs
    <2>2. ASSUME h_stale = FALSE, NEW f \in Fetches1, f_pcb'[f] \in Live PROVE FALSE
      <3>1. f # f_tcp => f_pcb'[f] = f_pcb[f]
        BY <1>2 DEF BodyKept, Ours, Aborted, Pcbs
      <3>2. f = f_tcp => f_pcb'[f] = "free"
        BY <1>2 DEF BodyKept, Ours, Fetches1, NO, Aborted
      <3> QED
        BY <2>2, <3>1, <3>2 DEF BodyKept, Ours, Live
    <2> QED
      BY <1>2, <2>1, <2>2 DEF BodyKept, Ours, Counted
  <1>3. CASE UNCHANGED <<f_state, f_tcp, f_id, f_pcb, f_len, f_dropped, h_from, h_got, h_stale>>
    BY <1>3 DEF BodyKept
  <1> QED
    BY <1>1, <1>2, <1>3 DEF webfetch_service, fetchVs

LEMMA BodyAnswers ==
    ASSUME BodyKept, on_dns
    PROVE  BodyKept'
  <1>1. CASE FailWith(f_pcb)
    BY <1>1, BodyFails
  <1>2. CASE /\ f_state' = "connecting" /\ f_tcp' = f_id
             /\ f_pcb' = [f_pcb EXCEPT ![f_id] = "connecting"]
             /\ UNCHANGED <<f_id, f_len, f_dropped, h_from, h_got, h_stale>>
    <2>1. f_state = "resolving"
      BY DEF on_dns
    <2>2. f_pcb' \in [Fetches1 -> Pcbs]
      BY <1>2 DEF BodyKept, Ours, Pcbs
    <2>3. ASSUME h_stale = FALSE, NEW f \in Fetches1, f_pcb'[f] \in Live PROVE f = f_id
      <3>1. f # f_id => f_pcb'[f] = f_pcb[f]
        BY <1>2 DEF BodyKept, Ours, Pcbs
      <3>2. f_pcb[f] \notin Live
        BY <2>1, <2>3 DEF BodyKept, Ours, Fetches1, NO
      <3> QED
        BY <2>3, <3>1, <3>2
    <2> QED
      BY <1>2, <2>1, <2>2, <2>3 DEF BodyKept, Ours, Counted
  <1> QED
    BY <1>1, <1>2 DEF on_dns

\* What a connection brings: it opens, brings bytes, closes, fails.
LEMMA BodyHears ==
    ASSUME BodyKept, NEW f \in Fetches1,
           on_connected(f) \/ on_recv(f) \/ on_recv_end(f) \/ on_err(f) \/ Closed(f)
    PROVE  BodyKept'
  <1>1. CASE on_connected(f)
    <2>1. CASE FailWith(f_pcb)
      BY <2>1, BodyFails
    <2>2. CASE ~FailWith(f_pcb)
      <3>1. /\ f_pcb[f] = "connecting" /\ f_pcb' = [f_pcb EXCEPT ![f] = "open"] /\ f_state' = "requesting"
            /\ UNCHANGED <<f_tcp, f_id, f_len, f_dropped, h_from, h_got, h_stale>>
        BY <1>1, <2>2 DEF on_connected
      <3>2. f_pcb' \in [Fetches1 -> Pcbs]
        BY <3>1 DEF BodyKept, Ours, Pcbs
      <3>3. ASSUME h_stale = FALSE, NEW g \in Fetches1, f_pcb'[g] \in Live PROVE g = f_tcp
        <4>1. g # f => f_pcb'[g] = f_pcb[g]
          BY <3>1 DEF BodyKept, Ours, Pcbs
        <4> QED
          BY <3>1, <3>3, <4>1 DEF BodyKept, Ours, Live
      <3> QED
        BY <3>1, <3>2, <3>3 DEF BodyKept, Ours, Counted
    <2> QED
      BY <2>1, <2>2
  <1>2. CASE on_recv(f)
    <2>1. PICK n \in 1 .. 2 :
             LET room == BODY_MAX - 1 - f_len
                 kept == IF n < room THEN n ELSE room
             IN  /\ f_len' = f_len + kept /\ f_dropped' = f_dropped + (n - kept) /\ h_got' = h_got + n
      BY <1>2 DEF on_recv
    <2>2. /\ f_pcb[f] = "open" /\ h_from' = h_from \cup {f}
          /\ UNCHANGED <<f_state, f_tcp, f_id, f_pcb, h_stale>>
      BY <1>2 DEF on_recv
    <2> DEFINE room == BODY_MAX - 1 - f_len
               kept == IF n < room THEN n ELSE room
    <2>3. f_len' = f_len + kept /\ f_dropped' = f_dropped + (n - kept) /\ h_got' = h_got + n
      BY <2>1
    <2>4. f_len \in Int /\ f_dropped \in Int /\ h_got = f_len + f_dropped /\ kept \in Int /\ n \in Int
      BY NetNumbers DEF BodyKept, Counted
    <2> HIDE DEF kept
    <2>5. PICK a \in Int, b \in Int, g \in Int : a = f_len + kept /\ b = f_dropped + (n - kept) /\ g = h_got + n
      BY <2>4
    <2>6. g = a + b
      BY <2>4, <2>5
    <2>7. f_len' = a /\ f_dropped' = b /\ h_got' = g
      BY <2>3, <2>5
    <2>8. h_stale = FALSE => f = f_id /\ h_from \subseteq {f_id}
      BY <2>2 DEF BodyKept, Ours, Counted, Live, Fetches1, NO
    <2>9. Counted(h_stale', h_from', f_id', f_len', f_dropped', h_got')
      BY <2>2, <2>6, <2>7, <2>8 DEF Counted
    <2> QED
      BY <2>2, <2>9 DEF BodyKept
  <1>3. CASE on_recv_end(f)
    <2>1. /\ f_pcb[f] = "open" /\ f_pcb' = [f_pcb EXCEPT ![f] = "closing"] /\ f_tcp' = NO
          /\ f_state' = (IF f_state = "requesting" THEN "done" ELSE f_state)
          /\ UNCHANGED <<f_id, f_len, f_dropped, h_from, h_got, h_stale>>
      BY <1>3 DEF on_recv_end
    <2>2. f_pcb' \in [Fetches1 -> Pcbs]
      BY <2>1 DEF BodyKept, Ours, Pcbs
    <2>3. ASSUME h_stale = FALSE, NEW g \in Fetches1, f_pcb'[g] \in Live PROVE FALSE
      <3>1. g # f => f_pcb'[g] = f_pcb[g]
        BY <2>1 DEF BodyKept, Ours, Pcbs
      <3>2. f_pcb'[f] = "closing"
        BY <2>1 DEF BodyKept, Ours, Pcbs
      <3> QED
        BY <2>1, <2>3, <3>1, <3>2 DEF BodyKept, Ours, Live
    <2> QED
      BY <2>1, <2>2, <2>3 DEF BodyKept, Ours, Counted
  <1>4. CASE on_err(f)
    <2>1. /\ f_pcb' = [f_pcb EXCEPT ![f] = "free"] /\ f_tcp' = NO
          /\ f_state' = (IF f_state \in {"connecting", "requesting"} THEN "failed" ELSE f_state)
          /\ h_stale' = (h_stale \/ f_tcp \notin {NO, f})
          /\ UNCHANGED <<f_id, f_len, f_dropped, h_from, h_got>>
      BY <1>4 DEF on_err
    <2>2. f_pcb' \in [Fetches1 -> Pcbs]
      BY <2>1 DEF BodyKept, Ours, Pcbs
    <2>3. h_stale' \in BOOLEAN /\ (h_stale' = FALSE => h_stale = FALSE /\ f_tcp \in {NO, f})
      BY <2>1 DEF BodyKept
    <2>4. ASSUME h_stale' = FALSE, NEW g \in Fetches1, f_pcb'[g] \in Live PROVE FALSE
      <3>1. g # f => f_pcb'[g] = f_pcb[g]
        BY <2>1 DEF BodyKept, Ours, Pcbs
      <3>2. f_pcb'[f] = "free"
        BY <2>1 DEF BodyKept, Ours, Pcbs
      <3>3. g # NO
        BY DEF Fetches1, NO
      <3> QED
        BY <2>3, <2>4, <3>1, <3>2, <3>3 DEF BodyKept, Ours, Live
    <2> QED
      BY <2>1, <2>2, <2>3, <2>4 DEF BodyKept, Ours, Counted
  <1>5. CASE Closed(f)
    <2>1. /\ f_pcb[f] = "closing" /\ f_pcb' = [f_pcb EXCEPT ![f] = "free"]
          /\ UNCHANGED <<f_state, f_tcp, f_id, f_len, f_dropped, h_from, h_got, h_stale>>
      BY <1>5 DEF Closed
    <2>2. f_pcb' \in [Fetches1 -> Pcbs]
      BY <2>1 DEF BodyKept, Ours, Pcbs
    <2>3. ASSUME NEW g \in Fetches1, f_pcb'[g] \in Live PROVE f_pcb[g] \in Live
      <3>1. g # f => f_pcb'[g] = f_pcb[g]
        BY <2>1 DEF BodyKept, Ours, Pcbs
      <3>2. f_pcb'[f] = "free"
        BY <2>1 DEF BodyKept, Ours, Pcbs
      <3> QED
        BY <2>3, <3>1, <3>2 DEF Live
    <2> QED
      BY <2>1, <2>2, <2>3 DEF BodyKept, Ours, Counted
  <1> QED
    BY <1>1, <1>2, <1>3, <1>4, <1>5

-----------------------------------------------------------------------------
\* One task is in a frame.
LEMMA OneInput ==
    ASSUME Turn(q_pc, q_poller, q_handover, q_up), NEW t \in NetTasks, NEW u \in NetTasks,
           q_pc[t] = "input", q_pc[u] = "input"
    PROVE  t = u
  BY DEF Turn, NetTasks

\* A task goes where it may, and the poller with it.
LEMMA TurnMoves ==
    ASSUME Turn(q_pc, q_poller, q_handover, q_up), NEW t \in NetTasks, NEW to \in Places,
           q_pc' = [q_pc EXCEPT ![t] = to], UNCHANGED ownVs,
           to = "polls" => q_poller = t, to = "input" => MayService(t)
    PROVE  Turn(q_pc', q_poller', q_handover', q_up')
  <1>1. /\ q_pc' \in [NetTasks -> Places] /\ q_pc'[t] = to
        /\ \A u \in NetTasks : u # t => q_pc'[u] = q_pc[u]
    BY DEF Turn
  <1>2. to = "input" => q_poller = t \/ (t = "net" /\ q_handover = TRUE /\ q_poller = "none")
    BY DEF MayService, Turn
  <1> QED
    BY <1>1, <1>2 DEF Turn, ownVs, NetTasks

LEMMA TurnLeaves ==
    ASSUME Turn(q_pc, q_poller, q_handover, q_up), NEW t \in NetTasks, Leaves(t), UNCHANGED ownVs
    PROVE  Turn(q_pc', q_poller', q_handover', q_up')
  <1>1. PICK to \in Places : to = (IF q_poller = t THEN "polls" ELSE "out")
    BY DEF Places
  <1>2. q_pc' = [q_pc EXCEPT ![t] = to] /\ (to = "polls" => q_poller = t) /\ to # "input"
    BY <1>1 DEF Leaves
  <1> QED
    BY <1>2, TurnMoves

\* A step of t that does not take a frame leaves the others with theirs.
LEMMA TailStays ==
    ASSUME NetInv, NEW t \in NetTasks, NEW to \in Places, to # "input",
           q_pc' = [q_pc EXCEPT ![t] = to], UNCHANGED ringVs
    PROVE  RingKept' /\ AtTheTail(q_pc', h_slot', q_head', q_tail')
  <1>1. \A u \in NetTasks : q_pc'[u] = "input" => q_pc[u] = "input"
    BY DEF NetInv, Turn
  <1> QED
    BY <1>1 DEF NetInv, AtTheTail, RingKept, ringVs

LEMMA TailLeaves ==
    ASSUME NetInv, NEW t \in NetTasks, Leaves(t), UNCHANGED ringVs
    PROVE  RingKept' /\ AtTheTail(q_pc', h_slot', q_head', q_tail')
  <1>1. PICK to \in Places : to = (IF q_poller = t THEN "polls" ELSE "out")
    BY DEF Places
  <1>2. q_pc' = [q_pc EXCEPT ![t] = to] /\ to # "input"
    BY <1>1 DEF Leaves
  <1> QED
    BY <1>2, TailStays

LEMMA NetSteps ==
    ASSUME NetInv, NetNext
    PROVE  NetInv'
  <1>1. ASSUME Turn(q_pc', q_poller', q_handover', q_up'), RingKept',
               AtTheTail(q_pc', h_slot', q_head', q_tail'), BodyKept'
        PROVE  NetInv'
    BY <1>1 DEF NetInv, RingKept, BodyKept
  <1>2. UNCHANGED fetchVs => BodyKept'
    BY DEF NetInv, BodyKept, fetchVs
  <1>3. BodyKept /\ RingKept /\ Turn(q_pc, q_poller, q_handover, q_up)
    BY DEF NetInv, BodyKept, RingKept
  <1>4. NoNetwork => BodyKept'
    BY <1>3 DEF NoNetwork, BodyKept, Ours, Counted
  <1>5. UNCHANGED <<q_pc, ownVs>> => Turn(q_pc', q_poller', q_handover', q_up')
    BY <1>3 DEF ownVs
  <1>6. UNCHANGED <<q_pc, ringVs>> => RingKept' /\ AtTheTail(q_pc', h_slot', q_head', q_tail')
    BY DEF NetInv, RingKept, ringVs
  <1>7. CASE net_rx_enqueue
    <2>1. UNCHANGED <<q_tail, h_slot, ownVs, q_pc, fetchVs>>
      BY <1>7 DEF net_rx_enqueue
    <2>2. RingKept' /\ q_head' # q_tail
      BY <1>3, <1>7, RingStores
    <2>3. AtTheTail(q_pc', h_slot', q_head', q_tail')
      BY <2>1, <2>2 DEF NetInv, AtTheTail
    <2> QED
      BY <1>1, <1>2, <1>5, <2>1, <2>2, <2>3
  <1>8. CASE netdev_xfer_out \/ browser_touch
    <2>1. UNCHANGED <<ringVs, ownVs, q_pc, fetchVs>>
      BY <1>8 DEF netdev_xfer_out, browser_touch
    <2> QED
      BY <1>1, <1>2, <1>5, <1>6, <2>1
  <1>9. CASE browser_service
    <2>1. PICK to \in Places : to = IF u_want THEN "browser" ELSE "serves"
      BY DEF Places
    <2>2. /\ q_pc' = [q_pc EXCEPT !["net"] = to] /\ UNCHANGED <<ringVs, ownVs, fetchVs>>
          /\ to \notin {"polls", "input"} /\ "net" \in NetTasks
      BY <1>9, <2>1 DEF browser_service, NetTasks
    <2> QED
      BY <1>1, <1>2, <1>3, <2>2, TurnMoves, TailStays
  <1>10. CASE browser_service_starts
    <2>1. /\ q_pc' = [q_pc EXCEPT !["net"] = "serves"] /\ UNCHANGED <<ringVs, ownVs>>
          /\ webfetch_start \/ NoNetwork
      BY <1>10 DEF browser_service_starts
    <2>2. "serves" \in Places /\ "net" \in NetTasks
      BY DEF Places, NetTasks
    <2> QED
      BY <1>1, <1>3, <1>4, <2>1, <2>2, TurnMoves, TailStays, BodyStarts
  <1>11. ASSUME NEW t \in NetTasks, net_set_tx(t) PROVE NetInv'
    <2>1. /\ q_up = FALSE \/ q_up # TRUE
          /\ q_up' = TRUE /\ q_poller' = t /\ q_pc' = [q_pc EXCEPT ![t] = "polls"]
          /\ q_pc[t] = "out" /\ UNCHANGED <<ringVs, q_handover, fetchVs>>
      BY <1>11 DEF net_set_tx
    <2>2. q_poller = "none" /\ q_handover # TRUE
      BY <1>3, <2>1 DEF Turn
    <2>3. /\ q_pc' \in [NetTasks -> Places] /\ q_pc'[t] = "polls"
          /\ \A u \in NetTasks : u # t => q_pc'[u] = q_pc[u]
      BY <1>3, <2>1 DEF Turn, Places
    <2>4. \A u \in NetTasks : q_pc[u] \notin {"polls", "input"}
      BY <1>3, <2>2 DEF Turn, NetTasks
    <2>5. Turn(q_pc', q_poller', q_handover', q_up')
      BY <2>1, <2>2, <2>3, <2>4 DEF Turn, NetTasks
    <2>6. "polls" \in Places
      BY DEF Places
    <2> QED
      BY <1>1, <1>2, <2>1, <2>5, <2>6, TailStays
  <1>12. ASSUME NEW t \in NetTasks, net_poll_for_ends(t) PROVE NetInv'
    <2>1. /\ q_pc[t] = "polls" /\ q_poller' = "none" /\ q_handover' = TRUE /\ q_up' = q_up
          /\ q_pc' = [q_pc EXCEPT ![t] = "out"] /\ UNCHANGED <<ringVs, fetchVs>>
      BY <1>12 DEF net_poll_for_ends
    <2>2. q_poller = t /\ q_up = TRUE
      BY <1>3, <2>1 DEF Turn, NetTasks
    <2>3. /\ q_pc' \in [NetTasks -> Places] /\ q_pc'[t] = "out"
          /\ \A u \in NetTasks : u # t => q_pc'[u] = q_pc[u]
      BY <1>3, <2>1 DEF Turn, Places
    <2>4. \A u \in NetTasks : u # t => q_pc[u] \notin {"polls", "input"}
      BY <1>3, <2>2 DEF Turn, NetTasks
    <2>5. Turn(q_pc', q_poller', q_handover', q_up')
      BY <2>1, <2>2, <2>3, <2>4 DEF Turn, NetTasks
    <2>6. "out" \in Places
      BY DEF Places
    <2> QED
      BY <1>1, <1>2, <2>1, <2>5, <2>6, TailStays
  <1>13. ASSUME NEW t \in NetTasks, netif_wifi_input(t) PROVE NetInv'
    <2>1. /\ MayService(t) /\ q_tail # q_head /\ h_slot' = q_tail
          /\ q_pc' = [q_pc EXCEPT ![t] = "input"]
          /\ UNCHANGED <<q_slot, q_head, q_tail, h_frame, h_seen, ownVs, fetchVs>>
      BY <1>13 DEF netif_wifi_input
    <2>2. "input" \in Places
      BY DEF Places
    <2>3. Turn(q_pc', q_poller', q_handover', q_up')
      BY <1>3, <2>1, <2>2, TurnMoves
    <2>4. AtTheTail(q_pc', h_slot', q_head', q_tail')
      BY <2>1 DEF AtTheTail
    <2> QED
      BY <1>1, <1>2, <1>3, <2>1, <2>3, <2>4 DEF RingKept
  <1>14. ASSUME NEW t \in NetTasks, netif_wifi_input_ends(t) PROVE NetInv'
    <2>1. q_pc[t] = "input" /\ Leaves(t) /\ FrameHandled /\ UNCHANGED ownVs
      BY <1>14 DEF netif_wifi_input_ends
    <2>2. q_tail # q_head
      BY <2>1 DEF NetInv, AtTheTail
    <2>3. RingKept'
      BY <1>3, <2>1, <2>2, RingGives
    <2>4. \A u \in NetTasks : q_pc'[u] # "input"
      <3>1. \A u \in NetTasks : u # t => q_pc'[u] = q_pc[u] /\ q_pc[u] # "input"
        BY <1>3, <2>1, OneInput DEF Turn, Leaves
      <3>2. q_pc'[t] # "input"
        BY <1>3, <2>1 DEF Turn, Leaves
      <3> QED
        BY <3>1, <3>2
    <2>5. AtTheTail(q_pc', h_slot', q_head', q_tail')
      BY <2>4 DEF AtTheTail
    <2>6. BodyKept'
      BY <1>2, <1>3, <1>14, BodyAnswers, BodyHears DEF netif_wifi_input_ends
    <2> QED
      BY <1>1, <1>3, <2>1, <2>3, <2>5, <2>6, TurnLeaves
  <1>15. ASSUME NEW t \in NetTasks, netif_wifi_tick(t) PROVE NetInv'
    <2>1. q_pc' = [q_pc EXCEPT ![t] = "timers"] /\ UNCHANGED <<ringVs, ownVs, fetchVs>> /\ "timers" \in Places
      BY <1>15 DEF netif_wifi_tick, Places
    <2> QED
      BY <1>1, <1>2, <1>3, <2>1, TurnMoves, TailStays
  <1>16. ASSUME NEW t \in NetTasks, netif_wifi_tick_ends(t) PROVE NetInv'
    <2>1. Leaves(t) /\ UNCHANGED <<ringVs, ownVs>>
      BY <1>16 DEF netif_wifi_tick_ends
    <2>2. BodyKept'
      BY <1>2, <1>3, <1>16, BodyHears DEF netif_wifi_tick_ends
    <2> QED
      BY <1>1, <1>3, <2>1, <2>2, TurnLeaves, TailLeaves
  <1>17. ASSUME NEW t \in NetTasks, netif_wifi_dhcp_restart(t) PROVE NetInv'
    <2>1. q_pc' = [q_pc EXCEPT ![t] = "dhcp"] /\ UNCHANGED <<ringVs, ownVs, fetchVs>> /\ "dhcp" \in Places
      BY <1>17 DEF netif_wifi_dhcp_restart, Places
    <2> QED
      BY <1>1, <1>2, <1>3, <2>1, TurnMoves, TailStays
  <1>18. ASSUME NEW t \in NetTasks, netif_wifi_dhcp_restart_ends(t) PROVE NetInv'
    <2>1. Leaves(t) /\ UNCHANGED <<ringVs, ownVs, fetchVs>>
      BY <1>18 DEF netif_wifi_dhcp_restart_ends
    <2> QED
      BY <1>1, <1>2, <1>3, <2>1, TurnLeaves, TailLeaves
  <1>19. ASSUME NEW t \in NetTasks, netdev_service(t) PROVE NetInv'
    <2>1. PICK to \in Places : to = IF p_want THEN "program" ELSE "serves"
      BY DEF Places
    <2>2. /\ q_pc' = [q_pc EXCEPT ![t] = to] /\ UNCHANGED <<ringVs, ownVs, fetchVs>>
          /\ to \notin {"polls", "input"}
      BY <1>19, <2>1 DEF netdev_service
    <2> QED
      BY <1>1, <1>2, <1>3, <2>2, TurnMoves, TailStays
  <1>20. ASSUME NEW t \in NetTasks, netdev_service_starts(t) PROVE NetInv'
    <2>1. /\ q_pc' = [q_pc EXCEPT ![t] = "serves"] /\ UNCHANGED <<ringVs, ownVs>>
          /\ webfetch_start \/ NoNetwork
      BY <1>20 DEF netdev_service_starts
    <2>2. "serves" \in Places
      BY DEF Places
    <2> QED
      BY <1>1, <1>3, <1>4, <2>1, <2>2, TurnMoves, TailStays, BodyStarts
  <1>21. ASSUME NEW t \in NetTasks, Serves(t) PROVE NetInv'
    <2>1. Leaves(t) /\ UNCHANGED <<ringVs, ownVs>> /\ webfetch_service
      BY <1>21 DEF Serves
    <2> QED
      BY <1>1, <1>3, <2>1, TurnLeaves, TailLeaves, BodyServes
  <1> QED
    BY <1>7, <1>8, <1>9, <1>10, <1>11, <1>12, <1>13, <1>14, <1>15, <1>16, <1>17, <1>18, <1>19,
       <1>20, <1>21 DEF NetNext

\* For any ring, body and number of fetches: frames reach lwIP once and in order through the
\* handover, none written over while it is handled; and the body holds the bytes of the last
\* fetch, each kept or counted, unless an old connection's error hit a newer one (net.c,
\* netif_wifi.c, webfetch.c).
THEOREM RepliesAreWhole == NetSpec => []ReplyIsWhole
  <1>1. NetInit => NetInv
    <2> SUFFICES ASSUME NetInit PROVE NetInv
      OBVIOUS
    <2>1. Turn(q_pc, q_poller, q_handover, q_up)
      BY DEF NetInit, Turn, NetTasks, Places
    <2>2. 0 \in 0 .. NET_SLOTS - 1 /\ 0 \in 0 .. NET_SLOTS /\ 0 + 0 = 0 /\ 0 % NET_SLOTS = 0 /\ 0 % (NET_SLOTS + 1) = 0
      BY ModTurn, NetNumbers
    <2>3. Filled(0, q_slot, q_head, q_tail, h_frame, h_seen)
      BY <2>2 DEF NetInit, Filled
    <2>4. Lined(q_slot, q_head, q_tail, h_frame, h_seen)
      BY <2>2, <2>3 DEF NetInit, Lined
    <2>5. AtTheTail(q_pc, h_slot, q_head, q_tail)
      BY DEF NetInit, AtTheTail, NetTasks
    <2>6. Ours(h_stale, f_pcb, f_tcp, f_id, f_state)
      BY NetNumbers DEF NetInit, Ours, Pcbs, Live, NO
    <2>7. Counted(h_stale, h_from, f_id, f_len, f_dropped, h_got)
      BY DEF NetInit, Counted
    <2>8. h_stale \in BOOLEAN
      BY DEF NetInit
    <2> QED
      BY <2>1, <2>4, <2>5, <2>6, <2>7, <2>8 DEF NetInv
  <1>2. NetInv /\ [NetNext]_netVars => NetInv'
    <2>1. NetInv /\ UNCHANGED netVars => NetInv'
      BY DEF NetInv, netVars, ringVs, ownVs, fetchVs
    <2> QED
      BY <2>1, NetSteps
  <1>3. NetInv => ReplyIsWhole
    <2> SUFFICES ASSUME NetInv PROVE ReplyIsWhole
      OBVIOUS
    <2>1. ASSUME NEW t \in NetTasks, q_pc[t] = "input" PROVE q_slot[h_slot] = h_seen
      <3>1. h_slot = q_tail /\ q_tail # q_head
        BY <2>1 DEF NetInv, AtTheTail
      <3>2. PICK c \in 0 .. NET_SLOTS - 1 : Filled(c, q_slot, q_head, q_tail, h_frame, h_seen)
        BY DEF NetInv, Lined
      <3>3. /\ q_tail \in 0 .. NET_SLOTS - 1 /\ h_seen \in 0 .. NET_SLOTS
            /\ q_tail + 0 = q_tail /\ h_seen + 0 = h_seen
        BY NetNumbers DEF NetInv, Lined
      <3>4. q_tail % NET_SLOTS = q_tail /\ h_seen % (NET_SLOTS + 1) = h_seen
        BY <3>3, ModTurn, NetNumbers
      <3>5. c # 0
        BY <3>1, <3>2, <3>3, <3>4 DEF Filled
      <3>6. 0 \in 0 .. c - 1
        BY <3>5, NetNumbers
      <3>7. q_slot[(q_tail + 0) % NET_SLOTS] = (h_seen + 0) % (NET_SLOTS + 1)
        BY <3>2, <3>6 DEF Filled
      <3> QED
        BY <3>1, <3>3, <3>4, <3>7
    <2>2. BodyIsOurs
      BY DEF NetInv, BodyIsOurs, Counted
    <2> QED
      BY <2>1, <2>2 DEF ReplyIsWhole, RingIsIntact
  <1> QED
    BY <1>1, <1>2, <1>3, PTL DEF NetSpec

-----------------------------------------------------------------------------
(* The two-wire bus (I2c.tla).                                              *)

\* What the two ends hold.
Wires == Seq({0, 1})
SlaveStates == [st : {"idle", "addr", "rx", "ack", "tx", "wait"}, v : Wires, rw : {0, 1}, sda : BOOLEAN,
                n : Nat, sent : Nat, got : Seq(Wires)]
Calls == [a : Addrs, half : {0, 1}, put : Seq(BusBytes), get : Nat]
BusPlaces == [op : {"none", "start", "addr", "put", "get", "stop"}, rw : {0, 1}, k : Nat]

\* The call is one the code makes: one that begins by reading writes nothing.
CallOK(t) == t \in Calls /\ (t.half = 1 => t.put = <<>> /\ t.get > 0)

I2cType ==
    /\ j_at \in BusPlaces /\ j_ph \in {"first", "wait", "data", "clock", "free"} /\ j_slot \in 1 .. BYTE_BITS + 1
    /\ j_sda \in BOOLEAN /\ j_scl \in BOOLEAN /\ j_hold \in BOOLEAN /\ h_clean \in BOOLEAN
    /\ j_in \in Wires /\ j_rx \in Seq(Wires) /\ j_r \in {"ok", "nak", "timeout"}
    /\ j_dev \in SlaveStates /\ CallOK(h_asked)

\* What has gone over the bus: n bytes written, n bytes read, n bits of a byte.
Wrote(d, t, n) == Len(d.got) = n /\ \A i \in 1 .. n : d.got[i] = t.put[i]
Took(rx, n)    == Len(rx) = n /\ \A i \in 1 .. n : rx[i] = Given(i - 1)
Shifted(v, b, n) == Len(v) = n /\ \A i \in 1 .. n : v[i] = b[i]

\* Between calls the bus is free, and what the last one reported is so.
AtNone(sda, scl, rx, r, d, t) ==
    /\ sda = TRUE /\ scl = TRUE /\ d.sda = TRUE /\ d.st = "idle"
    /\ r = "ok" => t.a = SlaveAddr /\ Wrote(d, t, Len(t.put)) /\ Took(rx, t.get)

AtStart(at, ph, sda, scl, rx, r, d, t) ==
    /\ at.k = 0 /\ r = "ok" /\ d.sda = TRUE /\ d.sent = 0 /\ Took(rx, 0)
    /\ at.rw = 0 => t.half = 0 /\ Wrote(d, t, 0)
    /\ at.rw = 1 => t.get > 0 /\ Wrote(d, t, Len(t.put))
    /\ \/ ph = "first" /\ (scl = TRUE => sda = TRUE) /\ d.st = (IF scl THEN "idle" ELSE "rx")
       \/ ph = "wait" /\ sda = TRUE /\ d.st = (IF scl THEN "idle" ELSE "rx")
       \/ ph = "data" /\ sda = TRUE /\ scl = TRUE /\ d.st \in {"idle", "rx"}
       \/ ph = "clock" /\ sda = FALSE /\ scl = TRUE /\ d.st = "addr" /\ d.v = <<>>

AtStop(at, ph, sda, scl, rx, r, d, t) ==
    /\ d.sda = TRUE /\ d.st \in {"idle", "rx"} /\ r \in {"ok", "nak"}
    /\ r = "ok" => t.a = SlaveAddr /\ Wrote(d, t, Len(t.put)) /\ Took(rx, t.get)
    /\ \/ ph = "first" /\ scl = FALSE
       \/ ph = "wait" /\ sda = FALSE /\ scl = FALSE
       \/ ph = "data" /\ sda = FALSE /\ scl = TRUE

\* A byte on its way to the slave: while its bits go over the slave has those of them
\* that were clocked; then it pulls the line, if it is the one addressed.
AtSend(at, ph, slot, b, sda, scl, r, d, t) ==
    /\ \/ ph = "first" /\ scl = FALSE
       \/ ph = "wait" /\ scl = FALSE /\ sda = (slot > BYTE_BITS \/ b[slot] = 1)
       \/ ph = "clock" /\ scl = TRUE /\ sda = (slot > BYTE_BITS \/ b[slot] = 1)
    /\ slot <= BYTE_BITS =>
        /\ d.sda = TRUE /\ d.st = (IF at.op = "addr" THEN "addr" ELSE "rx") /\ r = "ok"
        /\ Shifted(d.v, b, IF ph = "clock" THEN slot ELSE slot - 1)
    /\ slot > BYTE_BITS /\ t.a = SlaveAddr => d.sda = FALSE /\ d.st = "ack" /\ d.rw = at.rw /\ r = "ok"
    /\ slot > BYTE_BITS /\ t.a # SlaveAddr =>
        d.sda = TRUE /\ d.st = "idle" /\ r = (IF ph = "clock" THEN "nak" ELSE "ok")

AtAddr(at, ph, slot, sda, scl, rx, r, d, t) ==
    /\ at.k = 0 /\ d.sent = 0 /\ Took(rx, 0)
    /\ at.rw = 0 => t.half = 0 /\ Wrote(d, t, 0)
    /\ at.rw = 1 => t.get > 0 /\ Wrote(d, t, Len(t.put))
    /\ AtSend(at, ph, slot, AddrByte(t.a, at.rw), sda, scl, r, d, t)

AtPut(at, ph, slot, sda, scl, rx, r, d, t) ==
    /\ at.rw = 0 /\ t.a = SlaveAddr /\ t.half = 0 /\ d.rw = 0 /\ d.sent = 0 /\ Took(rx, 0)
    /\ at.k \in 1 .. Len(t.put)
    /\ Wrote(d, t, IF slot > BYTE_BITS THEN at.k ELSE at.k - 1)
    /\ AtSend(at, ph, slot, t.put[at.k], sda, scl, r, d, t)

AtGet(at, ph, slot, sda, scl, in, rx, r, d, t) ==
    /\ at.rw = 1 /\ t.a = SlaveAddr /\ r = "ok" /\ Wrote(d, t, Len(t.put))
    /\ at.k \in 1 .. t.get
    /\ IF ph = "free"
       THEN /\ scl = FALSE /\ slot = 1 /\ Took(rx, at.k) /\ d.sent = at.k /\ in = <<>>
            /\ IF at.k < t.get
               THEN d.st = "tx" /\ d.n = 1 /\ d.sda = Level(Given(at.k)[1])
               ELSE d.st = "idle" /\ d.sda = TRUE
       ELSE /\ Took(rx, at.k - 1)
            /\ \/ ph = "first" /\ scl = FALSE
               \/ ph = "wait" /\ scl = FALSE /\ sda = (slot <= BYTE_BITS \/ at.k = t.get)
               \/ ph = "clock" /\ scl = TRUE /\ sda = (slot <= BYTE_BITS \/ at.k = t.get)
            /\ slot <= BYTE_BITS =>
                /\ d.st = "tx" /\ d.n = slot /\ d.sent = at.k - 1 /\ d.sda = Level(Given(at.k - 1)[slot])
                /\ Shifted(in, Given(at.k - 1), IF ph = "clock" THEN slot ELSE slot - 1)
            /\ slot > BYTE_BITS =>
                /\ d.st = "wait" /\ d.sda = TRUE /\ d.sent = at.k /\ Shifted(in, Given(at.k - 1), BYTE_BITS)
                /\ ph = "clock" => d.v = <<Bit(sda)>>

Together(at, ph, slot, sda, scl, in, rx, r, d, t) ==
    /\ at.op = "none" => AtNone(sda, scl, rx, r, d, t)
    /\ at.op = "start" => AtStart(at, ph, sda, scl, rx, r, d, t)
    /\ at.op = "addr" => AtAddr(at, ph, slot, sda, scl, rx, r, d, t)
    /\ at.op = "put" => AtPut(at, ph, slot, sda, scl, rx, r, d, t)
    /\ at.op = "get" => AtGet(at, ph, slot, sda, scl, in, rx, r, d, t)
    /\ at.op = "stop" => AtStop(at, ph, sda, scl, rx, r, d, t)

InStep == h_clean =>
    /\ j_hold = FALSE
    /\ Together(j_at, j_ph, j_slot, j_sda, j_scl, j_in, j_rx, j_r, j_dev, h_asked)

LEMMA BusNumbers == BYTE_BITS \in Nat /\ BYTE_BITS >= 1 /\ MaxRead \in Nat /\ SlaveAddr \in Addrs
  BY I2cAssumption

LEMMA BytesGiven == \A k \in Nat : Given(k) \in BusBytes
  <1> TAKE k \in Nat
  <1> DEFINE n == Len(SlaveGives)
  <1>1. n \in Nat /\ n > 0
    BY I2cAssumption, EmptySeq, LenProperties
  <1> HIDE DEF n
  <1>2. k % n \in 0 .. n - 1
    BY <1>1
  <1>3. 1 + (k % n) \in 1 .. n
    BY <1>1, <1>2
  <1>4. SlaveGives[1 + (k % n)] \in BusBytes
    BY <1>3, I2cAssumption DEF n
  <1> QED
    BY <1>4 DEF Given, n

LEMMA NoBytes == <<>> \in Wires /\ <<>> \in Seq(Wires) /\ <<>> \in Seq(BusBytes) /\ Len(<<>>) = 0
  BY DEF Wires

LEMMA BitType == \A b : Bit(b) \in {0, 1}
  BY DEF Bit

LEMMA BytesAreWires == ASSUME NEW b \in BusBytes PROVE b \in Wires /\ Len(b) = BYTE_BITS
  BY BusNumbers DEF BusBytes, Wires

LEMMA AddrBytes == ASSUME NEW a \in Addrs, NEW rw \in {0, 1}
                   PROVE  AddrByte(a, rw) \in BusBytes /\ AddrByte(a, rw)[BYTE_BITS] = rw
  BY BusNumbers DEF Addrs, BusBytes, AddrByte

\* An address byte names its address.
LEMMA AddrTold == ASSUME NEW a \in Addrs, NEW b \in Addrs, NEW rw \in {0, 1}, NEW sw \in {0, 1},
                         AddrByte(a, rw) = AddrByte(b, sw)
                  PROVE  a = b /\ rw = sw
  <1>1. rw = sw
    BY AddrBytes
  <1>2. ASSUME NEW i \in 1 .. BYTE_BITS - 1 PROVE a[i] = b[i]
    <2>1. AddrByte(a, rw)[i] = a[i] /\ AddrByte(b, sw)[i] = b[i]
      BY BusNumbers DEF AddrByte
    <2> QED
      BY <2>1
  <1>3. a = [i \in 1 .. BYTE_BITS - 1 |-> a[i]] /\ b = [i \in 1 .. BYTE_BITS - 1 |-> b[i]]
    BY DEF Addrs
  <1>4. [i \in 1 .. BYTE_BITS - 1 |-> a[i]] = [i \in 1 .. BYTE_BITS - 1 |-> b[i]]
    BY <1>2
  <1> QED
    BY <1>1, <1>3, <1>4

(* ---- types ---- *)
LEMMA RiseType == ASSUME NEW d \in SlaveStates, NEW s PROVE OnRise(d, s) \in SlaveStates
  <1>1. Append(d.v, Bit(s)) \in Wires /\ <<Bit(s)>> \in Wires
    BY BitType DEF SlaveStates, Wires
  <1> QED
    BY <1>1 DEF OnRise, SlaveStates

LEMMA GivesType == ASSUME NEW d \in SlaveStates, NEW n \in Nat PROVE Gives(d, n) \in SlaveStates
  BY DEF Gives, SlaveStates, Level

LEMMA FallType == ASSUME NEW d \in SlaveStates PROVE OnFall(d) \in SlaveStates
  <1>1. AddrByte(SlaveAddr, 0)[BYTE_BITS] \in {0, 1} /\ AddrByte(SlaveAddr, 1)[BYTE_BITS] \in {0, 1}
    BY AddrBytes, BusNumbers
  <1>2. Append(d.got, d.v) \in Seq(Wires)
    BY DEF SlaveStates
  <1>3. Gives(d, 1) \in SlaveStates /\ Gives(d, d.n + 1) \in SlaveStates
    <2>1. 1 \in Nat /\ d.n + 1 \in Nat
      BY DEF SlaveStates
    <2> QED
      BY <2>1, GivesType
  <1>4. <<>> \in Wires
    BY NoBytes
  <1>5. [d EXCEPT !.st = "ack", !.sda = FALSE, !.got = Append(d.got, d.v)] \in SlaveStates
    BY <1>2 DEF SlaveStates
  <1>6. [d EXCEPT !.st = "rx", !.v = <<>>, !.sda = TRUE] \in SlaveStates
    BY <1>4 DEF SlaveStates
  <1>7. [d EXCEPT !.st = "wait", !.sda = TRUE, !.sent = d.sent + 1] \in SlaveStates /\ [d EXCEPT !.st = "idle"] \in SlaveStates
    <2>1. d.sent + 1 \in Nat
      BY DEF SlaveStates
    <2> QED
      BY <2>1 DEF SlaveStates
  <1>8. d.v \in {AddrByte(SlaveAddr, 0), AddrByte(SlaveAddr, 1)} =>
            [d EXCEPT !.st = "ack", !.rw = d.v[BYTE_BITS], !.sda = FALSE] \in SlaveStates
    BY <1>1 DEF SlaveStates
  <1> QED
    BY <1>3, <1>5, <1>6, <1>7, <1>8 DEF OnFall

LEMMA StartStopType == ASSUME NEW d \in SlaveStates PROVE OnStart(d) \in SlaveStates /\ OnStop(d) \in SlaveStates
  BY NoBytes DEF OnStart, OnStop, SlaveStates

LEMMA LinesType ==
    ASSUME I2cType, NEW sda \in BOOLEAN, NEW scl \in BOOLEAN, Lines2(sda, scl)
    PROVE  j_sda' \in BOOLEAN /\ j_scl' \in BOOLEAN /\ j_dev' \in SlaveStates
  <1>1. j_dev \in SlaveStates
    BY DEF I2cType
  <1>2. \A s : OnRise(j_dev, s) \in SlaveStates
    BY <1>1, RiseType
  <1>3. OnFall(j_dev) \in SlaveStates /\ OnStart(j_dev) \in SlaveStates /\ OnStop(j_dev) \in SlaveStates
    BY <1>1, FallType, StartStopType
  <1> QED
    BY <1>1, <1>2, <1>3 DEF Lines2

LEMMA OnwardType == ASSUME NEW t \in Calls, NEW rw \in {0, 1}, NEW k \in Nat PROVE Onward(t, rw, k) \in BusPlaces
  <1>1. Len(t.put) \in Nat /\ t.get \in Nat
    BY DEF Calls
  <1> QED
    BY <1>1 DEF Onward, In, BusPlaces

LEMMA CallsMade == \A t \in Transactions : CallOK(t)
  <1>1. \A buf \in Bufs : buf \in Seq(BusBytes)
    BY I2cAssumption
  <1>2. <<>> \in Seq(BusBytes)
    BY NoBytes
  <1>3. \A len \in 1 .. MaxRead : len \in Nat /\ len > 0
    BY BusNumbers
  <1>4. ASSUME NEW a \in Addrs PROVE CallOK(i2c_probe(a))
    BY <1>2 DEF CallOK, Calls, i2c_probe
  <1>5. ASSUME NEW a \in Addrs, NEW buf \in Bufs PROVE CallOK(i2c_write(a, buf))
    BY <1>1 DEF CallOK, Calls, i2c_write
  <1>6. ASSUME NEW a \in Addrs, NEW len \in 1 .. MaxRead PROVE CallOK(i2c_read(a, len))
    BY <1>2, <1>3 DEF CallOK, Calls, i2c_read
  <1>7. ASSUME NEW a \in Addrs, NEW buf \in Bufs, NEW len \in 1 .. MaxRead PROVE CallOK(i2c_write_read(a, buf, len))
    BY <1>1, <1>3 DEF CallOK, Calls, i2c_write_read
  <1> QED
    BY <1>4, <1>5, <1>6, <1>7 DEF Transactions

LEMMA I2cTypeStarts == I2cInit => I2cType
  <1> SUFFICES ASSUME I2cInit PROVE I2cType
    OBVIOUS
  <1>1. Unaddressed \in SlaveStates /\ In("none", 0, 0) \in BusPlaces /\ CallOK(i2c_probe(SlaveAddr))
    BY NoBytes, BusNumbers DEF BusPlaces, In, SlaveStates, Unaddressed, CallOK, Calls, i2c_probe
  <1>2. 1 \in 1 .. BYTE_BITS + 1
    BY BusNumbers
  <1> QED
    BY <1>1, <1>2, NoBytes DEF I2cInit, I2cType

LEMMA PutsType == \A slot : Puts(slot) \in BOOLEAN
  BY DEF Puts, Level, Acked, Sends

LEMMA SampledType == I2cType /\ Sampled => /\ j_at' \in BusPlaces /\ j_ph' \in {"first", "wait", "data", "clock", "free"}
                                          /\ j_slot' \in 1 .. BYTE_BITS + 1 /\ j_in' \in Wires /\ j_rx' \in Seq(Wires)
                                          /\ j_r' \in {"ok", "nak", "timeout"} /\ CallOK(h_asked')
  <1> SUFFICES ASSUME I2cType, Sampled PROVE
        /\ j_at' \in BusPlaces /\ j_ph' \in {"first", "wait", "data", "clock", "free"}
        /\ j_slot' \in 1 .. BYTE_BITS + 1 /\ j_in' \in Wires /\ j_rx' \in Seq(Wires)
        /\ j_r' \in {"ok", "nak", "timeout"} /\ CallOK(h_asked')
    OBVIOUS
  <1>1. Append(j_in, Bit(Sda)) \in Wires
    BY BitType DEF I2cType, Wires
  <1> QED
    BY <1>1 DEF I2cType, Sampled

LEMMA I2cTypeKept == I2cType /\ [I2cNext]_i2cVars => I2cType'
  <1> SUFFICES ASSUME I2cType, [I2cNext]_i2cVars PROVE I2cType'
    OBVIOUS
  <1>n. 1 \in 1 .. BYTE_BITS + 1 /\ <<>> \in Wires
    BY NoBytes, BusNumbers
  <1>p. \A op \in {"none", "start", "addr", "put", "get", "stop"}, rw \in {0, 1}, k \in Nat : In(op, rw, k) \in BusPlaces
    BY DEF In, BusPlaces
  <1>a. j_at.rw \in {0, 1} /\ j_at.k \in Nat /\ h_asked \in Calls
    BY DEF I2cType, BusPlaces, CallOK
  <1>l. ASSUME NEW sda \in BOOLEAN, NEW scl \in BOOLEAN, Lines2(sda, scl)
        PROVE  j_sda' \in BOOLEAN /\ j_scl' \in BOOLEAN /\ j_dev' \in SlaveStates
    BY <1>l, LinesType
  <1>o. Onward(h_asked, j_at.rw, j_at.k) \in BusPlaces
    BY <1>a, OnwardType
  <1>1. ASSUME NEW t \in Transactions, begins(t) PROVE I2cType'
    <2>1. CallOK(t)
      BY CallsMade
    <2>2. [j_dev EXCEPT !.got = <<>>, !.sent = 0] \in SlaveStates
      BY NoBytes DEF I2cType, SlaveStates
    <2>3. In("start", t.half, 0) \in BusPlaces /\ h_clean' \in BOOLEAN
      BY <1>1, <2>1, <1>p DEF CallOK, Calls, begins, BusIsFree, Sda, Scl
    <2> QED
      BY <1>1, <1>n, <2>1, <2>2, <2>3, NoBytes DEF begins, I2cType
  <1>2. CASE i2c_start
    <2>1. CASE At("start", "first") /\ Lines2(TRUE, j_scl) /\ j_ph' = "wait" /\ Stays /\ UNCHANGED <<j_hold, h_clean>>
      BY <2>1, <1>l DEF I2cType, Stays
    <2>2. CASE At("start", "wait") /\ scl_release_and_wait(j_ph' = "data" /\ Stays)
      BY <2>2, <1>l DEF I2cType, Stays, scl_release_and_wait, At
    <2>3. CASE At("start", "data") /\ Lines2(FALSE, j_scl) /\ j_ph' = "clock" /\ Stays /\ UNCHANGED <<j_hold, h_clean>>
      BY <2>3, <1>l DEF I2cType, Stays
    <2>4. CASE At("start", "clock") /\ Lines2(j_sda, FALSE) /\ GoesTo(In("addr", j_at.rw, 0))
               /\ UNCHANGED <<j_rx, j_r, h_asked, j_hold, h_clean>>
      BY <2>4, <1>l, <1>n, <1>p, <1>a DEF I2cType, GoesTo
    <2> QED
      BY <1>2, <2>1, <2>2, <2>3, <2>4 DEF i2c_start
  <1>3. CASE i2c_stop
    <2>1. CASE At("stop", "first") /\ Lines2(FALSE, j_scl) /\ j_ph' = "wait" /\ Stays /\ UNCHANGED <<j_hold, h_clean>>
      BY <2>1, <1>l DEF I2cType, Stays
    <2>2. CASE At("stop", "wait") /\ scl_release_and_wait(j_ph' = "data" /\ Stays)
      BY <2>2, <1>l DEF I2cType, Stays, scl_release_and_wait, At
    <2>3. CASE At("stop", "data") /\ Lines2(TRUE, j_scl) /\ GoesTo(In("none", 0, 0))
               /\ UNCHANGED <<j_rx, j_r, h_asked, j_hold, h_clean>>
      BY <2>3, <1>l, <1>n, <1>p, <1>a DEF I2cType, GoesTo
    <2> QED
      BY <1>3, <2>1, <2>2, <2>3 DEF i2c_stop
  <1>4. CASE byte_drives
    BY <1>4, <1>l, PutsType DEF byte_drives, I2cType, Stays
  <1>5. CASE byte_clocks
    <2>1. CASE ~j_hold /\ Lines2(j_sda, TRUE) /\ Sampled /\ UNCHANGED <<j_hold, h_clean>>
      BY <2>1, <1>l, SampledType DEF I2cType
    <2>2. CASE /\ j_hold' = TRUE /\ h_clean' = FALSE /\ j_scl' = TRUE /\ UNCHANGED <<j_sda, j_dev>>
               /\ IF j_at.op \in {"start", "stop"} THEN Sampled
                  ELSE /\ GoesTo(In("stop", j_at.rw, j_at.k)) /\ j_r' = "timeout"
                       /\ UNCHANGED <<j_rx, h_asked>>
      BY <2>2, <1>n, <1>p, <1>a, SampledType DEF I2cType, GoesTo
    <2> QED
      BY <1>5, <2>1, <2>2 DEF byte_clocks, scl_release_and_wait
  <1>6. CASE byte_falls
    <2>0. j_sda' \in BOOLEAN /\ j_scl' \in BOOLEAN /\ j_dev' \in SlaveStates
      BY <1>6, <1>l DEF byte_falls, I2cType
    <2>1. CASE j_slot <= BYTE_BITS /\ j_slot' = j_slot + 1 /\ j_ph' = "first" /\ UNCHANGED <<j_at, j_in, j_rx>>
      <3>1. j_slot + 1 \in 1 .. BYTE_BITS + 1
        BY <2>1, BusNumbers DEF I2cType
      <3> QED
        BY <1>6, <2>0, <2>1, <3>1 DEF byte_falls, I2cType
    <2>2. CASE UNCHANGED j_rx /\ GoesTo(IF j_r = "nak" THEN In("stop", j_at.rw, j_at.k)
                                       ELSE Onward(h_asked, j_at.rw, j_at.k))
      BY <1>6, <2>0, <2>2, <1>n, <1>p, <1>a, <1>o DEF byte_falls, I2cType, GoesTo
    <2>3. CASE j_rx' = Append(j_rx, j_in) /\ j_ph' = "free" /\ j_slot' = 1 /\ j_in' = <<>> /\ UNCHANGED j_at
      <3>1. Append(j_rx, j_in) \in Seq(Wires)
        BY DEF I2cType
      <3> QED
        BY <1>6, <2>0, <2>3, <1>n, <3>1 DEF byte_falls, I2cType
    <2> QED
      BY <1>6, <2>1, <2>2, <2>3 DEF byte_falls
  <1>7. CASE byte_frees
    BY <1>7, <1>l, <1>n, <1>o DEF byte_frees, I2cType, GoesTo
  <1>8. CASE slave_lets_go
    BY <1>8, RiseType DEF slave_lets_go, I2cType, masterVs
  <1>9. CASE i2c_selftest
    <2>1. OnFall(OnStop(OnStart(j_dev))) \in SlaveStates
      BY FallType, StartStopType DEF I2cType
    <2> QED
      BY <1>9, <2>1 DEF i2c_selftest, I2cType, masterVs
  <1>10. CASE UNCHANGED i2cVars
    BY <1>10 DEF i2cVars, masterVs, busVs, I2cType
  <1> QED
    BY <1>1, <1>2, <1>3, <1>4, <1>5, <1>6, <1>7, <1>8, <1>9, <1>10 DEF I2cNext

(* ---- the slave ---- *)
LEMMA RiseIs ==
    ASSUME NEW d \in SlaveStates, NEW s
    PROVE  /\ d.st \in {"addr", "rx"} => OnRise(d, s) = [d EXCEPT !.v = Append(d.v, Bit(s))]
           /\ d.st = "wait" => OnRise(d, s) = [d EXCEPT !.v = <<Bit(s)>>]
           /\ d.st \in {"idle", "ack", "tx"} => OnRise(d, s) = d
  BY DEF OnRise

LEMMA FallIs ==
    ASSUME NEW d \in SlaveStates
    PROVE  /\ d.st = "addr" /\ Len(d.v) = BYTE_BITS /\ d.v \in {AddrByte(SlaveAddr, 0), AddrByte(SlaveAddr, 1)} =>
                OnFall(d) = [d EXCEPT !.st = "ack", !.rw = d.v[BYTE_BITS], !.sda = FALSE]
           /\ d.st = "addr" /\ Len(d.v) = BYTE_BITS /\ d.v \notin {AddrByte(SlaveAddr, 0), AddrByte(SlaveAddr, 1)} =>
                OnFall(d) = [d EXCEPT !.st = "idle"]
           /\ d.st \in {"addr", "rx"} /\ Len(d.v) # BYTE_BITS => OnFall(d) = d
           /\ d.st = "rx" /\ Len(d.v) = BYTE_BITS =>
                OnFall(d) = [d EXCEPT !.st = "ack", !.sda = FALSE, !.got = Append(d.got, d.v)]
           /\ d.st = "ack" /\ d.rw = 1 =>
                OnFall(d) = [d EXCEPT !.st = "tx", !.n = 1, !.sda = Level(Given(d.sent)[1])]
           /\ d.st = "ack" /\ d.rw = 0 => OnFall(d) = [d EXCEPT !.st = "rx", !.v = <<>>, !.sda = TRUE]
           /\ d.st = "tx" /\ d.n < BYTE_BITS =>
                OnFall(d) = [d EXCEPT !.st = "tx", !.n = d.n + 1, !.sda = Level(Given(d.sent)[d.n + 1])]
           /\ d.st = "tx" /\ d.n = BYTE_BITS =>
                OnFall(d) = [d EXCEPT !.st = "wait", !.sda = TRUE, !.sent = d.sent + 1]
           /\ d.st = "wait" /\ d.v = <<0>> =>
                OnFall(d) = [d EXCEPT !.st = "tx", !.n = 1, !.sda = Level(Given(d.sent)[1])]
           /\ d.st = "wait" /\ d.v # <<0>> => OnFall(d) = [d EXCEPT !.st = "idle"]
           /\ d.st = "idle" => OnFall(d) = d
  <1>1. d.n \in Nat /\ BYTE_BITS \in Nat
    BY BusNumbers DEF SlaveStates
  <1> QED
    BY <1>1 DEF OnFall, Gives

LEMMA Edges ==
    ASSUME I2cType, j_hold = FALSE, NEW sda \in BOOLEAN, NEW scl \in BOOLEAN, Lines2(sda, scl)
    PROVE  /\ j_sda' = sda /\ j_scl' = scl
           /\ j_scl = FALSE /\ scl = FALSE => j_dev' = j_dev
           /\ j_scl = FALSE /\ scl = TRUE => j_dev' = OnRise(j_dev, sda /\ j_dev.sda)
           /\ j_scl = TRUE /\ scl = FALSE => j_dev' = OnFall(j_dev)
           /\ j_scl = TRUE /\ scl = TRUE /\ j_sda = sda => j_dev' = j_dev
           /\ j_scl = TRUE /\ scl = TRUE /\ j_dev.sda = TRUE /\ j_sda = TRUE /\ sda = FALSE => j_dev' = OnStart(j_dev)
           /\ j_scl = TRUE /\ scl = TRUE /\ j_dev.sda = TRUE /\ j_sda = FALSE /\ sda = TRUE => j_dev' = OnStop(j_dev)
  <1>1. j_sda \in BOOLEAN /\ j_scl \in BOOLEAN /\ j_dev.sda \in BOOLEAN
    BY DEF I2cType, SlaveStates
  <1> QED
    BY <1>1 DEF Lines2, Sda, Scl

LEMMA ShiftsIn ==
    ASSUME NEW v \in Wires, NEW b, NEW n \in Nat, Shifted(v, b, n), NEW x \in {0, 1}, x = b[n + 1]
    PROVE  Shifted(Append(v, x), b, n + 1)
  <1>1. /\ Len(v) = n /\ Len(Append(v, x)) = n + 1 /\ Append(v, x)[n + 1] = x
        /\ \A i \in 1 .. n : Append(v, x)[i] = v[i] /\ v[i] = b[i]
    BY DEF Shifted, Wires
  <1>2. ASSUME NEW i \in 1 .. n + 1 PROVE Append(v, x)[i] = b[i]
    <2>1. CASE i = n + 1
      BY <1>1, <2>1
    <2>2. CASE i \in 1 .. n
      BY <1>1, <2>2
    <2>3. i = n + 1 \/ i \in 1 .. n
      OBVIOUS
    <2> QED
      BY <2>1, <2>2, <2>3
  <1> QED
    BY <1>1, <1>2 DEF Shifted

LEMMA AllShifted ==
    ASSUME NEW v \in Wires, NEW b \in BusBytes, Shifted(v, b, BYTE_BITS)
    PROVE  v = b
  <1>1. b \in Wires /\ Len(b) = BYTE_BITS
    BY BytesAreWires
  <1>2. Len(v) = Len(b) /\ \A i \in 1 .. Len(v) : v[i] = b[i]
    BY <1>1 DEF Shifted
  <1> HIDE DEF Shifted
  <1> QED
    BY <1>1, <1>2, SeqEqual DEF Wires

LEMMA NothingShifted == \A b : Shifted(<<>>, b, 0)
  BY DEF Shifted

LEMMA TakesIn ==
    ASSUME NEW rx \in Seq(Wires), NEW n \in Nat, Took(rx, n), NEW v \in Wires, v = Given(n)
    PROVE  Took(Append(rx, v), n + 1)
  <1>1. /\ Len(rx) = n /\ Len(Append(rx, v)) = n + 1 /\ Append(rx, v)[n + 1] = v
        /\ \A i \in 1 .. n : Append(rx, v)[i] = rx[i] /\ rx[i] = Given(i - 1)
    BY DEF Took
  <1>2. ASSUME NEW i \in 1 .. n + 1 PROVE Append(rx, v)[i] = Given(i - 1)
    <2>1. CASE i = n + 1
      <3>1. i - 1 = n
        BY <2>1
      <3> QED
        BY <1>1, <2>1, <3>1
    <2>2. CASE i \in 1 .. n
      BY <1>1, <2>2
    <2>3. i = n + 1 \/ i \in 1 .. n
      OBVIOUS
    <2> QED
      BY <2>1, <2>2, <2>3
  <1> QED
    BY <1>1, <1>2 DEF Took

LEMMA WritesIn ==
    ASSUME NEW d \in SlaveStates, NEW e \in SlaveStates, NEW t, NEW n \in Nat, Wrote(d, t, n),
           e.got = Append(d.got, t.put[n + 1]), t.put[n + 1] \in Wires
    PROVE  Wrote(e, t, n + 1)
  <1> DEFINE g == d.got
             v == t.put[n + 1]
  <1>0. g \in Seq(Wires) /\ v \in Wires
    BY DEF SlaveStates
  <1>1. /\ Len(g) = n /\ Len(Append(g, v)) = n + 1 /\ Append(g, v)[n + 1] = v
        /\ \A i \in 1 .. n : Append(g, v)[i] = g[i] /\ g[i] = t.put[i]
    BY <1>0 DEF Wrote
  <1>2. ASSUME NEW i \in 1 .. n + 1 PROVE Append(g, v)[i] = t.put[i]
    <2>1. CASE i = n + 1
      BY <1>1, <2>1
    <2>2. CASE i \in 1 .. n
      BY <1>1, <2>2
    <2>3. i = n + 1 \/ i \in 1 .. n
      OBVIOUS
    <2> QED
      BY <2>1, <2>2, <2>3
  <1> QED
    BY <1>1, <1>2 DEF Wrote

(* ---- master and slave in step ---- *)
LEMMA StartKeeps == ASSUME I2cType, InStep, h_clean = TRUE, i2c_start, h_clean' = TRUE PROVE InStep'
  <1>0. /\ j_hold = FALSE /\ j_at.op = "start" /\ AtStart(j_at, j_ph, j_sda, j_scl, j_rx, j_r, j_dev, h_asked)
        /\ j_dev \in SlaveStates /\ j_sda \in BOOLEAN /\ j_scl \in BOOLEAN /\ j_at \in BusPlaces
    BY DEF InStep, Together, i2c_start, At, I2cType
  <1>1. CASE At("start", "first") /\ Lines2(TRUE, j_scl) /\ j_ph' = "wait" /\ Stays /\ UNCHANGED <<j_hold, h_clean>>
    <2>1. j_dev' = j_dev /\ j_sda' = TRUE /\ j_scl' = j_scl
      BY <1>0, <1>1, Edges DEF AtStart, At
    <2>2. AtStart(j_at, "wait", TRUE, j_scl, j_rx, j_r, j_dev, h_asked)
      BY <1>0, <1>1 DEF AtStart, At
    <2> QED
      BY <1>0, <1>1, <2>1, <2>2 DEF InStep, Together, Stays
  <1>2. CASE At("start", "wait") /\ scl_release_and_wait(j_ph' = "data" /\ Stays)
    <2>0. Lines2(j_sda, TRUE) /\ j_ph' = "data" /\ Stays /\ UNCHANGED <<j_hold, h_clean>>
      BY <1>2 DEF scl_release_and_wait
    <2>1. /\ j_sda' = j_sda /\ j_scl' = TRUE /\ j_dev' \in {j_dev, OnRise(j_dev, j_sda /\ j_dev.sda)}
      BY <1>0, <2>0, Edges
    <2>2. j_dev' \in SlaveStates /\ j_dev'.st \in {"idle", "rx"} /\ j_dev'.sda = TRUE /\ j_dev'.sent = 0 /\ j_dev'.got = j_dev.got
      <3>1. j_dev.st \in {"idle", "rx"} /\ j_dev.sda = TRUE /\ j_dev.sent = 0
        BY <1>0, <1>2 DEF AtStart, At
      <3>2. OnRise(j_dev, j_sda /\ j_dev.sda) \in SlaveStates
        BY <1>0, RiseType
      <3>3. OnRise(j_dev, j_sda /\ j_dev.sda) \in {j_dev, [j_dev EXCEPT !.v = Append(j_dev.v, Bit(j_sda /\ j_dev.sda))]}
        BY <1>0, <3>1, RiseIs
      <3> QED
        BY <1>0, <2>1, <3>1, <3>2, <3>3 DEF SlaveStates
    <2>3. AtStart(j_at, "data", TRUE, TRUE, j_rx, j_r, j_dev', h_asked)
      BY <1>0, <1>2, <2>2 DEF AtStart, At, Wrote
    <2>4. j_sda = TRUE
      BY <1>0, <1>2 DEF AtStart, At
    <2> QED
      BY <1>0, <1>2, <2>0, <2>1, <2>3, <2>4 DEF InStep, Together, Stays
  <1>3. CASE At("start", "data") /\ Lines2(FALSE, j_scl) /\ j_ph' = "clock" /\ Stays /\ UNCHANGED <<j_hold, h_clean>>
    <2>0. j_scl = TRUE /\ j_sda = TRUE /\ j_dev.sda = TRUE
      BY <1>0, <1>3 DEF AtStart, At
    <2>1. j_sda' = FALSE /\ j_scl' = TRUE /\ j_dev' = OnStart(j_dev)
      BY <1>0, <1>3, <2>0, Edges
    <2>2. AtStart(j_at, "clock", FALSE, TRUE, j_rx, j_r, OnStart(j_dev), h_asked)
      BY <1>0, <1>3 DEF AtStart, At, OnStart, SlaveStates, Wrote
    <2> QED
      BY <1>0, <1>3, <2>1, <2>2 DEF InStep, Together, Stays
  <1>4. CASE At("start", "clock") /\ Lines2(j_sda, FALSE) /\ GoesTo(In("addr", j_at.rw, 0))
             /\ UNCHANGED <<j_rx, j_r, h_asked, j_hold, h_clean>>
    <2>0. j_scl = TRUE /\ j_sda = FALSE /\ j_dev.sda = TRUE /\ j_dev.st = "addr" /\ j_dev.v = <<>> /\ j_r = "ok"
      BY <1>0, <1>4 DEF AtStart, At
    <2>1. j_sda' = FALSE /\ j_scl' = FALSE /\ j_dev' = OnFall(j_dev)
      BY <1>0, <1>4, <2>0, Edges
    <2>2. OnFall(j_dev) = j_dev
      <3>1. Len(j_dev.v) # BYTE_BITS
        BY <2>0, NoBytes, BusNumbers
      <3> QED
        BY <1>0, <2>0, <3>1, FallIs
    <2> DEFINE p == In("addr", j_at.rw, 0)
               b == AddrByte(h_asked.a, p.rw)
    <2>3. AtSend(p, "first", 1, b, FALSE, FALSE, j_r, j_dev, h_asked)
      <3>1. Shifted(j_dev.v, b, 1 - 1)
        BY <2>0, NothingShifted
      <3>2. ~(1 > BYTE_BITS) /\ p.op = "addr"
        BY BusNumbers DEF In
      <3> HIDE DEF p, b
      <3> QED
        BY <2>0, <3>1, <3>2 DEF AtSend
    <2>4. AtAddr(p, "first", 1, FALSE, FALSE, j_rx, j_r, j_dev, h_asked)
      <3>1. p.rw = j_at.rw /\ p.k = 0
        BY DEF In
      <3> QED
        BY <1>0, <2>3, <3>1 DEF AtAddr, AtStart
    <2>5. p.op = "addr"
      BY DEF In
    <2> HIDE DEF p
    <2> QED
      BY <1>0, <1>4, <2>1, <2>2, <2>4, <2>5 DEF InStep, Together, GoesTo, p
  <1> QED
    BY <1>1, <1>2, <1>3, <1>4 DEF i2c_start

LEMMA StopKeeps == ASSUME I2cType, InStep, h_clean = TRUE, i2c_stop, h_clean' = TRUE PROVE InStep'
  <1>0. /\ j_hold = FALSE /\ j_at.op = "stop" /\ AtStop(j_at, j_ph, j_sda, j_scl, j_rx, j_r, j_dev, h_asked)
        /\ j_dev \in SlaveStates /\ j_sda \in BOOLEAN /\ j_scl \in BOOLEAN /\ j_at \in BusPlaces
    BY DEF InStep, Together, i2c_stop, At, I2cType
  <1>1. CASE At("stop", "first") /\ Lines2(FALSE, j_scl) /\ j_ph' = "wait" /\ Stays /\ UNCHANGED <<j_hold, h_clean>>
    <2>0. j_scl = FALSE
      BY <1>0, <1>1 DEF AtStop, At
    <2>1. j_dev' = j_dev /\ j_sda' = FALSE /\ j_scl' = FALSE
      BY <1>0, <1>1, <2>0, Edges
    <2>2. AtStop(j_at, "wait", FALSE, FALSE, j_rx, j_r, j_dev, h_asked)
      BY <1>0, <1>1 DEF AtStop, At
    <2> QED
      BY <1>0, <1>1, <2>1, <2>2 DEF InStep, Together, Stays
  <1>2. CASE At("stop", "wait") /\ scl_release_and_wait(j_ph' = "data" /\ Stays)
    <2>0. Lines2(j_sda, TRUE) /\ j_ph' = "data" /\ Stays /\ UNCHANGED <<j_hold, h_clean>>
      BY <1>2 DEF scl_release_and_wait
    <2>5. j_scl = FALSE /\ j_sda = FALSE
      BY <1>0, <1>2 DEF AtStop, At
    <2>1. j_sda' = FALSE /\ j_scl' = TRUE /\ j_dev' = OnRise(j_dev, j_sda /\ j_dev.sda)
      BY <1>0, <2>0, <2>5, Edges
    <2>2. j_dev' \in SlaveStates /\ j_dev'.st \in {"idle", "rx"} /\ j_dev'.sda = TRUE /\ j_dev'.got = j_dev.got
      <3>1. j_dev.st \in {"idle", "rx"} /\ j_dev.sda = TRUE
        BY <1>0 DEF AtStop
      <3>2. OnRise(j_dev, j_sda /\ j_dev.sda) \in SlaveStates
        BY <1>0, RiseType
      <3>3. OnRise(j_dev, j_sda /\ j_dev.sda) \in {j_dev, [j_dev EXCEPT !.v = Append(j_dev.v, Bit(j_sda /\ j_dev.sda))]}
        BY <1>0, <3>1, RiseIs
      <3> QED
        BY <1>0, <2>1, <3>1, <3>2, <3>3 DEF SlaveStates
    <2>3. AtStop(j_at, "data", FALSE, TRUE, j_rx, j_r, j_dev', h_asked)
      BY <1>0, <2>2 DEF AtStop, Wrote
    <2> QED
      BY <1>0, <2>0, <2>1, <2>3 DEF InStep, Together, Stays
  <1>3. CASE At("stop", "data") /\ Lines2(TRUE, j_scl) /\ GoesTo(In("none", 0, 0))
             /\ UNCHANGED <<j_rx, j_r, h_asked, j_hold, h_clean>>
    <2>0. j_scl = TRUE /\ j_sda = FALSE /\ j_dev.sda = TRUE
      BY <1>0, <1>3 DEF AtStop, At
    <2>1. j_sda' = TRUE /\ j_scl' = TRUE /\ j_dev' = OnStop(j_dev)
      BY <1>0, <1>3, <2>0, Edges
    <2>2. AtNone(TRUE, TRUE, j_rx, j_r, OnStop(j_dev), h_asked)
      BY <1>0 DEF AtNone, AtStop, OnStop, SlaveStates, Wrote
    <2>3. In("none", 0, 0).op = "none"
      BY DEF In
    <2> QED
      BY <1>0, <1>3, <2>1, <2>2, <2>3 DEF InStep, Together, GoesTo
  <1> QED
    BY <1>1, <1>2, <1>3 DEF i2c_stop

\* What a byte that is sent has in common, the address byte and the others.
Sending(b) ==
    /\ I2cType /\ j_hold = FALSE /\ Sends /\ b = ByteOut /\ b \in BusBytes
    /\ AtSend(j_at, j_ph, j_slot, b, j_sda, j_scl, j_r, j_dev, h_asked)

LEMMA ByteSent == ASSUME I2cType, InStep, h_clean = TRUE, Sends
                  PROVE  Sending(ByteOut)
  <1>1. CASE j_at.op = "addr"
    <2>1. ByteOut = AddrByte(h_asked.a, j_at.rw) /\ ByteOut \in BusBytes
      BY <1>1, AddrBytes DEF I2cType, CallOK, Calls, BusPlaces, ByteOut
    <2> QED
      BY <1>1, <2>1 DEF Sending, InStep, Together, AtAddr
  <1>2. CASE j_at.op = "put"
    <2>1. ByteOut = h_asked.put[j_at.k] /\ j_at.k \in 1 .. Len(h_asked.put)
      BY <1>2 DEF ByteOut, InStep, Together, AtPut
    <2>2. ByteOut \in BusBytes
      BY <2>1 DEF I2cType, CallOK, Calls
    <2> QED
      BY <1>2, <2>1, <2>2 DEF Sending, InStep, Together, AtPut
  <1> QED
    BY <1>1, <1>2 DEF Sends

LEMMA SendDrives == ASSUME I2cType, InStep, h_clean = TRUE, byte_drives, Sends PROVE InStep'
  <1> DEFINE b == ByteOut
  <1>0. Sending(b)
    BY ByteSent
  <1> HIDE DEF b
  <1>1. /\ j_ph = "first" /\ j_scl = FALSE /\ Lines2(Puts(j_slot), j_scl) /\ j_ph' = "wait" /\ Stays
        /\ UNCHANGED <<j_hold, h_clean>>
    BY <1>0 DEF byte_drives, Sending, AtSend
  <1>2. j_dev' = j_dev /\ j_scl' = FALSE /\ j_sda' = Puts(j_slot)
    BY <1>0, <1>1, Edges, PutsType DEF Sending, I2cType
  <1>3. Puts(j_slot) = (j_slot > BYTE_BITS \/ b[j_slot] = 1)
    <2>1. j_slot \in Nat /\ BYTE_BITS \in Nat /\ j_at.op # "get" /\ Sends /\ b = ByteOut
      BY <1>0, BusNumbers DEF Sending, I2cType, Sends
    <2>2. CASE j_slot <= BYTE_BITS
      <3>1. Puts(j_slot) = (b[j_slot] = 1) /\ ~(j_slot > BYTE_BITS)
        <4>1. Puts(j_slot) = Level(b[j_slot])
          BY <2>1, <2>2 DEF Puts
        <4> QED
          BY <2>1, <2>2, <4>1 DEF Level
      <3> QED
        BY <3>1
    <2>3. CASE j_slot > BYTE_BITS
      <3>1. Puts(j_slot) = TRUE
        BY <2>1, <2>3 DEF Puts, Sends
      <3> QED
        BY <2>3, <3>1
    <2> QED
      BY <2>1, <2>2, <2>3
  <1>4. AtSend(j_at, "wait", j_slot, b, Puts(j_slot), FALSE, j_r, j_dev, h_asked)
    BY <1>0, <1>1, <1>3 DEF AtSend, Sending
  <1>5. CASE j_at.op = "addr"
    <2>1. AtAddr(j_at, "wait", j_slot, Puts(j_slot), FALSE, j_rx, j_r, j_dev, h_asked)
      BY <1>4, <1>5 DEF InStep, Together, AtAddr, b, ByteOut
    <2> QED
      BY <1>0, <1>1, <1>2, <1>5, <2>1 DEF InStep, Together, Stays, Sending
  <1>6. CASE j_at.op = "put"
    <2>1. AtPut(j_at, "wait", j_slot, Puts(j_slot), FALSE, j_rx, j_r, j_dev, h_asked)
      BY <1>4, <1>6 DEF InStep, Together, AtPut, b, ByteOut
    <2> QED
      BY <1>0, <1>1, <1>2, <1>6, <2>1 DEF InStep, Together, Stays, Sending
  <1> QED
    BY <1>5, <1>6 DEF Sends

LEMMA SendClocks == ASSUME I2cType, InStep, h_clean = TRUE, byte_clocks, Sends, h_clean' = TRUE PROVE InStep'
  <1> DEFINE b == ByteOut
             d == OnRise(j_dev, j_sda /\ j_dev.sda)
  <1>0. Sending(b)
    BY ByteSent
  <1>n. j_slot \in 1 .. BYTE_BITS + 1 /\ BYTE_BITS \in Nat /\ j_dev \in SlaveStates /\ j_sda \in BOOLEAN
        /\ j_scl \in BOOLEAN /\ j_dev.v \in Wires
    BY BusNumbers DEF I2cType, SlaveStates
  <1> HIDE DEF b
  <1>1. /\ j_ph = "wait" /\ j_scl = FALSE /\ Lines2(j_sda, TRUE) /\ Sampled /\ UNCHANGED <<j_hold, h_clean>>
    BY <1>0 DEF byte_clocks, scl_release_and_wait, Sending, AtSend
  <1>2. j_dev' = d /\ j_scl' = TRUE /\ j_sda' = j_sda
    BY <1>0, <1>1, <1>n, Edges DEF Sending
  <1>3. d \in SlaveStates /\ d.st = j_dev.st /\ d.rw = j_dev.rw /\ d.sda = j_dev.sda /\ d.sent = j_dev.sent /\ d.got = j_dev.got
    <2>1. d \in SlaveStates
      BY <1>n, RiseType
    <2>2. d \in {j_dev, [j_dev EXCEPT !.v = Append(j_dev.v, Bit(j_sda /\ j_dev.sda))],
                 [j_dev EXCEPT !.v = <<Bit(j_sda /\ j_dev.sda)>>]}
      BY DEF OnRise
    <2> HIDE DEF d
    <2> QED
      BY <1>n, <2>1, <2>2 DEF SlaveStates
  <1>4. j_slot <= BYTE_BITS => Shifted(d.v, b, j_slot) /\ j_r' = j_r
    <2> SUFFICES ASSUME j_slot <= BYTE_BITS PROVE Shifted(d.v, b, j_slot) /\ j_r' = j_r
      OBVIOUS
    <2>1. j_dev.sda = TRUE /\ j_dev.st \in {"addr", "rx"} /\ Shifted(j_dev.v, b, j_slot - 1) /\ j_sda = (b[j_slot] = 1)
      BY <1>0, <1>1, <1>n DEF Sending, AtSend
    <2>2. d = [j_dev EXCEPT !.v = Append(j_dev.v, Bit(j_sda /\ j_dev.sda))]
      BY <1>n, <2>1, RiseIs
    <2>3. d.v = Append(j_dev.v, Bit(j_sda))
      BY <1>n, <2>1, <2>2 DEF SlaveStates
    <2>4. b[j_slot] \in {0, 1}
      BY <1>0, <1>n DEF Sending, BusBytes
    <2>5. Bit(j_sda) = b[j_slot]
      BY <2>1, <2>4 DEF Bit
    <2>6. j_slot - 1 \in Nat /\ (j_slot - 1) + 1 = j_slot
      BY <1>n
    <2>7. Shifted(Append(j_dev.v, Bit(j_sda)), b, (j_slot - 1) + 1)
      BY <1>n, <2>1, <2>4, <2>5, <2>6, ShiftsIn
    <2>8. j_r' = j_r
      BY <1>1, <1>n DEF Sampled
    <2> QED
      BY <2>3, <2>6, <2>7, <2>8
  <1>5. j_slot > BYTE_BITS => j_r' = IF h_asked.a = SlaveAddr THEN "ok" ELSE "nak"
    <2> SUFFICES ASSUME j_slot > BYTE_BITS PROVE j_r' = IF h_asked.a = SlaveAddr THEN "ok" ELSE "nak"
      OBVIOUS
    <2>1. j_sda = TRUE /\ j_dev.sda = (h_asked.a # SlaveAddr) /\ j_r = "ok"
      BY <1>0, <1>1 DEF Sending, AtSend
    <2>2. j_r' = IF j_sda /\ j_dev.sda THEN "nak" ELSE j_r
      BY <1>0, <1>1 DEF Sampled, Sda, Sending
    <2> QED
      BY <2>1, <2>2
  <1> HIDE DEF d
  <1>6. AtSend(j_at, "clock", j_slot, b, j_sda, TRUE, j_r', d, h_asked)
    BY <1>0, <1>1, <1>3, <1>4, <1>5, <1>n DEF AtSend, Sending
  <1>7. CASE j_at.op = "addr"
    <2>1. AtAddr(j_at, "clock", j_slot, j_sda, TRUE, j_rx, j_r', d, h_asked)
      BY <1>3, <1>6, <1>7 DEF InStep, Together, AtAddr, b, ByteOut, Wrote
    <2> QED
      BY <1>0, <1>1, <1>2, <1>7, <2>1 DEF InStep, Together, Sampled, Sending
  <1>8. CASE j_at.op = "put"
    <2>1. AtPut(j_at, "clock", j_slot, j_sda, TRUE, j_rx, j_r', d, h_asked)
      BY <1>3, <1>6, <1>8 DEF InStep, Together, AtPut, b, ByteOut, Wrote
    <2> QED
      BY <1>0, <1>1, <1>2, <1>8, <2>1 DEF InStep, Together, Sampled, Sending
  <1> QED
    BY <1>7, <1>8 DEF Sends

\* The clock falls within a byte, at its last bit, or at its acknowledgement.
LEMMA SendFallsWithin ==
    ASSUME I2cType, InStep, h_clean = TRUE, byte_falls, Sends, j_slot < BYTE_BITS PROVE InStep'
  <1> DEFINE b == ByteOut
  <1>0. Sending(b)
    BY ByteSent
  <1>n. j_slot \in 1 .. BYTE_BITS + 1 /\ BYTE_BITS \in Nat /\ j_dev \in SlaveStates /\ j_sda \in BOOLEAN
        /\ j_scl \in BOOLEAN
    BY BusNumbers DEF I2cType
  <1> HIDE DEF b
  <1>1. /\ j_ph = "clock" /\ j_scl = TRUE /\ Lines2(j_sda, FALSE) /\ j_slot' = j_slot + 1 /\ j_ph' = "first"
        /\ UNCHANGED <<j_at, j_in, j_rx, j_r, h_asked, j_hold, h_clean>>
    <2>1. j_ph = "clock" /\ Lines2(j_sda, FALSE) /\ UNCHANGED <<j_r, h_asked, j_hold, h_clean>>
      BY DEF byte_falls
    <2>2. j_scl = TRUE
      BY <1>0, <2>1 DEF Sending, AtSend
    <2>3. ~(j_slot > BYTE_BITS)
      BY <1>n
    <2> QED
      BY <2>1, <2>2, <2>3 DEF byte_falls
  <1>2. /\ j_dev.st = (IF j_at.op = "addr" THEN "addr" ELSE "rx") /\ j_dev.sda = TRUE /\ j_r = "ok"
        /\ Shifted(j_dev.v, b, j_slot)
    BY <1>0, <1>1, <1>n DEF Sending, AtSend
  <1>3. j_dev' = j_dev /\ j_scl' = FALSE /\ j_sda' = j_sda
    <2>1. j_dev' = OnFall(j_dev) /\ j_scl' = FALSE /\ j_sda' = j_sda
      BY <1>0, <1>1, <1>n, Edges DEF Sending
    <2>2. Len(j_dev.v) # BYTE_BITS /\ j_dev.st \in {"addr", "rx"}
      BY <1>2, <1>n DEF Shifted
    <2> QED
      BY <1>n, <2>1, <2>2, FallIs
  <1> DEFINE s == j_slot + 1
  <1>s. s \in 1 .. BYTE_BITS /\ s - 1 = j_slot /\ ~(s > BYTE_BITS) /\ s \in Nat
    BY <1>n
  <1>t. j_slot' = s
    BY <1>1
  <1> HIDE DEF s
  <1>4. AtSend(j_at, "first", s, b, j_sda, FALSE, j_r, j_dev, h_asked)
    BY <1>2, <1>s DEF AtSend
  <1>5. CASE j_at.op = "addr"
    <2>1. AtAddr(j_at, "first", s, j_sda, FALSE, j_rx, j_r, j_dev, h_asked)
      BY <1>4, <1>5 DEF InStep, Together, AtAddr, b, ByteOut
    <2> QED
      BY <1>0, <1>1, <1>3, <1>5, <1>t, <2>1 DEF InStep, Together, Sending
  <1>6. CASE j_at.op = "put"
    <2>1. AtPut(j_at, "first", s, j_sda, FALSE, j_rx, j_r, j_dev, h_asked)
      <3>1. AtPut(j_at, j_ph, j_slot, j_sda, j_scl, j_rx, j_r, j_dev, h_asked) /\ ~(j_slot > BYTE_BITS)
        BY <1>6, <1>n DEF InStep, Together
      <3>2. b = h_asked.put[j_at.k]
        BY <1>6 DEF b, ByteOut
      <3> QED
        BY <1>4, <1>s, <3>1, <3>2 DEF AtPut
    <2> QED
      BY <1>0, <1>1, <1>3, <1>6, <1>t, <2>1 DEF InStep, Together, Sending
  <1> QED
    BY <1>5, <1>6 DEF Sends

LEMMA SendFallsLast ==
    ASSUME I2cType, InStep, h_clean = TRUE, byte_falls, Sends, j_slot = BYTE_BITS PROVE InStep'
  <1> DEFINE b == ByteOut
             d == OnFall(j_dev)
             s == BYTE_BITS + 1
  <1>0. Sending(b)
    BY ByteSent
  <1>n. BYTE_BITS \in Nat /\ BYTE_BITS >= 1 /\ j_dev \in SlaveStates /\ j_sda \in BOOLEAN /\ j_scl \in BOOLEAN
        /\ j_dev.v \in Wires /\ SlaveAddr \in Addrs /\ h_asked \in Calls /\ j_at \in BusPlaces
    BY BusNumbers DEF I2cType, SlaveStates, CallOK
  <1> HIDE DEF b
  <1>1. /\ j_ph = "clock" /\ j_scl = TRUE /\ Lines2(j_sda, FALSE) /\ j_slot' = s /\ j_ph' = "first"
        /\ UNCHANGED <<j_at, j_in, j_rx, j_r, h_asked, j_hold, h_clean>>
    <2>1. j_ph = "clock" /\ Lines2(j_sda, FALSE) /\ UNCHANGED <<j_r, h_asked, j_hold, h_clean>>
      BY DEF byte_falls
    <2>2. j_scl = TRUE
      BY <1>0, <2>1 DEF Sending, AtSend
    <2>3. ~(j_slot > BYTE_BITS)
      BY <1>n
    <2> QED
      BY <2>1, <2>2, <2>3 DEF byte_falls
  <1>2. /\ j_dev.st = (IF j_at.op = "addr" THEN "addr" ELSE "rx") /\ j_dev.sda = TRUE /\ j_r = "ok"
        /\ Shifted(j_dev.v, b, BYTE_BITS)
    BY <1>0, <1>1, <1>n DEF Sending, AtSend
  <1>3. j_dev' = d /\ j_scl' = FALSE /\ j_sda' = j_sda
    BY <1>0, <1>1, <1>n, Edges DEF Sending
  <1>4. j_dev.v = b /\ Len(j_dev.v) = BYTE_BITS
    BY <1>0, <1>n, <1>2, AllShifted DEF Sending, Shifted
  <1>s. s > BYTE_BITS /\ ~(s <= BYTE_BITS) /\ s \in Nat
    BY <1>n
  <1> HIDE DEF s
  <1>5. CASE j_at.op = "addr"
    <2>0. b = AddrByte(h_asked.a, j_at.rw) /\ h_asked.a \in Addrs /\ j_at.rw \in {0, 1}
      BY <1>5, <1>n DEF b, ByteOut, Calls, BusPlaces
    <2>1. CASE h_asked.a = SlaveAddr
      <3>1. j_dev.v \in {AddrByte(SlaveAddr, 0), AddrByte(SlaveAddr, 1)} /\ j_dev.v[BYTE_BITS] = j_at.rw
        BY <1>4, <2>0, <2>1, AddrBytes
      <3>2. d = [j_dev EXCEPT !.st = "ack", !.rw = j_at.rw, !.sda = FALSE]
        BY <1>n, <1>2, <1>4, <1>5, <3>1, FallIs
      <3> HIDE DEF d
      <3>3. d.st = "ack" /\ d.rw = j_at.rw /\ d.sda = FALSE /\ d.got = j_dev.got /\ d.sent = j_dev.sent
        BY <1>n, <3>2 DEF SlaveStates
      <3>4. AtSend(j_at, "first", s, b, j_sda, FALSE, j_r, d, h_asked)
        BY <1>2, <1>s, <2>1, <3>3 DEF AtSend
      <3>5. AtAddr(j_at, "first", s, j_sda, FALSE, j_rx, j_r, d, h_asked)
        BY <1>5, <2>0, <3>3, <3>4 DEF InStep, Together, AtAddr, Wrote
      <3> QED
        BY <1>0, <1>1, <1>3, <1>5, <3>5 DEF InStep, Together, Sending
    <2>2. CASE h_asked.a # SlaveAddr
      <3>1. j_dev.v \notin {AddrByte(SlaveAddr, 0), AddrByte(SlaveAddr, 1)}
        BY <1>4, <1>n, <2>0, <2>2, AddrTold
      <3>2. d = [j_dev EXCEPT !.st = "idle"]
        BY <1>n, <1>2, <1>4, <1>5, <3>1, FallIs
      <3> HIDE DEF d
      <3>3. d.st = "idle" /\ d.sda = TRUE /\ d.got = j_dev.got /\ d.sent = j_dev.sent
        BY <1>n, <1>2, <3>2 DEF SlaveStates
      <3>4. AtSend(j_at, "first", s, b, j_sda, FALSE, j_r, d, h_asked)
        BY <1>2, <1>s, <2>2, <3>3 DEF AtSend
      <3>5. AtAddr(j_at, "first", s, j_sda, FALSE, j_rx, j_r, d, h_asked)
        BY <1>5, <2>0, <3>3, <3>4 DEF InStep, Together, AtAddr, Wrote
      <3> QED
        BY <1>0, <1>1, <1>3, <1>5, <3>5 DEF InStep, Together, Sending
    <2> QED
      BY <2>1, <2>2
  <1>6. CASE j_at.op = "put"
    <2>0. /\ b = h_asked.put[j_at.k] /\ j_at.k \in Nat /\ j_at.k >= 1 /\ Wrote(j_dev, h_asked, j_at.k - 1)
          /\ j_dev.rw = 0 /\ j_at.rw = 0 /\ h_asked.a = SlaveAddr
      <3>1. AtPut(j_at, j_ph, j_slot, j_sda, j_scl, j_rx, j_r, j_dev, h_asked)
        BY <1>6 DEF InStep, Together
      <3>2. ~(j_slot > BYTE_BITS)
        BY <1>n
      <3> QED
        BY <1>6, <3>1, <3>2 DEF AtPut, b, ByteOut, Wrote
    <2>1. d = [j_dev EXCEPT !.st = "ack", !.sda = FALSE, !.got = Append(j_dev.got, b)]
      BY <1>n, <1>2, <1>4, <1>6, FallIs
    <2>2. d \in SlaveStates
      BY <1>n, FallType
    <2> HIDE DEF d
    <2>3. d.st = "ack" /\ d.rw = 0 /\ d.sda = FALSE /\ d.got = Append(j_dev.got, b) /\ d.sent = j_dev.sent
      BY <1>n, <2>0, <2>1 DEF SlaveStates
    <2>4. Wrote(d, h_asked, j_at.k)
      <3> DEFINE n == j_at.k - 1
      <3>1. n \in Nat /\ n + 1 = j_at.k
        BY <2>0
      <3>2. h_asked.put[n + 1] = b /\ b \in Wires
        BY <1>n, <1>4, <2>0, <3>1
      <3>3. Wrote(j_dev, h_asked, n)
        BY <2>0
      <3> HIDE DEF n
      <3>4. Wrote(d, h_asked, n + 1)
        BY <1>n, <2>2, <2>3, <3>1, <3>2, <3>3, WritesIn
      <3> QED
        BY <3>1, <3>4
    <2>5. AtSend(j_at, "first", s, b, j_sda, FALSE, j_r, d, h_asked)
      BY <1>2, <1>s, <2>0, <2>3 DEF AtSend
    <2>6. AtPut(j_at, "first", s, j_sda, FALSE, j_rx, j_r, d, h_asked)
      BY <1>6, <1>s, <2>0, <2>3, <2>4, <2>5 DEF InStep, Together, AtPut
    <2> QED
      BY <1>0, <1>1, <1>3, <1>6, <2>6 DEF InStep, Together, Sending
  <1> QED
    BY <1>5, <1>6 DEF Sends

LEMMA SendFallsAcked ==
    ASSUME I2cType, InStep, h_clean = TRUE, byte_falls, Sends, j_slot > BYTE_BITS PROVE InStep'
  <1> DEFINE t == h_asked
             k == j_at.k
             rw == j_at.rw
             d == OnFall(j_dev)
             p == IF j_r = "nak" THEN In("stop", rw, k) ELSE Onward(t, rw, k)
  <1>0. Sending(ByteOut)
    BY ByteSent
  <1>n. /\ BYTE_BITS \in Nat /\ BYTE_BITS >= 1 /\ j_dev \in SlaveStates /\ j_sda \in BOOLEAN /\ j_scl \in BOOLEAN
        /\ t \in Calls /\ k \in Nat /\ rw \in {0, 1} /\ Len(t.put) \in Nat /\ t.get \in Nat /\ j_slot \in Nat
    BY BusNumbers DEF I2cType, CallOK, Calls, BusPlaces
  <1>1. /\ j_ph = "clock" /\ j_scl = TRUE /\ j_sda = TRUE /\ Lines2(j_sda, FALSE)
        /\ UNCHANGED <<j_rx, j_r, h_asked, j_hold, h_clean>>
        /\ j_at' = p /\ j_ph' = "first" /\ j_slot' = 1 /\ j_in' = <<>>
    <2>1. j_ph = "clock" /\ Lines2(j_sda, FALSE) /\ UNCHANGED <<j_r, h_asked, j_hold, h_clean>>
      BY DEF byte_falls
    <2>2. j_scl = TRUE /\ j_sda = TRUE
      BY <1>0, <2>1, <1>n DEF Sending, AtSend
    <2>3. ~(j_slot <= BYTE_BITS) /\ j_at.op # "get"
      BY <1>n DEF Sends
    <2>4. UNCHANGED j_rx /\ GoesTo(p)
      BY <2>3 DEF byte_falls
    <2> QED
      BY <2>1, <2>2, <2>4 DEF GoesTo
  <1>2. j_dev' = d /\ j_scl' = FALSE /\ j_sda' = TRUE
    BY <1>0, <1>1, <1>n, Edges DEF Sending
  <1>a. /\ Took(j_rx, 0) /\ j_dev.sent = 0 /\ Wrote(j_dev, t, IF rw = 0 THEN k ELSE Len(t.put))
        /\ rw = 0 => t.half = 0 /\ k <= Len(t.put)
        /\ rw = 1 => t.get > 0 /\ k = 0
    <2>1. CASE j_at.op = "addr"
      BY <2>1, <1>n DEF InStep, Together, AtAddr
    <2>2. CASE j_at.op = "put"
      BY <2>2, <1>n DEF InStep, Together, AtPut
    <2> QED
      BY <2>1, <2>2 DEF Sends
  <1>3. CASE t.a # SlaveAddr
    <2>1. j_dev.sda = TRUE /\ j_dev.st = "idle" /\ j_r = "nak"
      BY <1>0, <1>1, <1>3 DEF Sending, AtSend
    <2>2. d = j_dev
      BY <2>1, <1>n, FallIs
    <2>3. p = In("stop", rw, k) /\ p.op = "stop"
      BY <2>1 DEF In
    <2> HIDE DEF p, d
    <2>4. AtStop(p, "first", TRUE, FALSE, j_rx, j_r, j_dev, t)
      BY <2>1 DEF AtStop
    <2> QED
      BY <1>0, <1>1, <1>2, <2>2, <2>3, <2>4 DEF InStep, Together, Sending
  <1>4. CASE t.a = SlaveAddr
    <2>1. j_dev.sda = FALSE /\ j_dev.st = "ack" /\ j_dev.rw = rw /\ j_r = "ok"
      BY <1>0, <1>1, <1>4 DEF Sending, AtSend
    <2>2. p = Onward(t, rw, k)
      BY <2>1
    <2> HIDE DEF p
    <2>3. CASE rw = 1
      <3>1. p = In("get", 1, 1) /\ p.op = "get" /\ p.rw = 1 /\ p.k = 1
        BY <1>a, <1>n, <1>4, <2>2, <2>3 DEF Onward, In
      <3>2. d = [j_dev EXCEPT !.st = "tx", !.n = 1, !.sda = Level(Given(j_dev.sent)[1])]
        BY <1>n, <2>1, <2>3, FallIs
      <3> HIDE DEF d
      <3>3. d.st = "tx" /\ d.n = 1 /\ d.sda = Level(Given(0)[1]) /\ d.sent = 0 /\ d.got = j_dev.got
        BY <1>n, <1>a, <3>2 DEF SlaveStates
      <3>4. Wrote(d, t, Len(t.put))
        BY <1>a, <2>3, <3>3 DEF Wrote
      <3>5. AtGet(p, "first", 1, TRUE, FALSE, <<>>, j_rx, j_r, d, t)
        <4>1. Shifted(<<>>, Given(0), 0)
          BY NothingShifted
        <4>2. ~(1 > BYTE_BITS) /\ 1 - 1 = 0 /\ 1 \in 1 .. t.get
          BY <1>n, <1>a, <2>3, <1>4
        <4> QED
          BY <1>4, <1>a, <2>1, <3>1, <3>3, <3>4, <4>1, <4>2 DEF AtGet
      <3> QED
        BY <1>0, <1>1, <1>2, <3>1, <3>5 DEF InStep, Together, Sending
    <2>4. CASE rw = 0
      <3>1. d = [j_dev EXCEPT !.st = "rx", !.v = <<>>, !.sda = TRUE]
        BY <1>n, <2>1, <2>4, FallIs
      <3> HIDE DEF d
      <3>2. d.st = "rx" /\ d.v = <<>> /\ d.sda = TRUE /\ d.sent = 0 /\ d.got = j_dev.got /\ d.rw = 0
        BY <1>n, <1>a, <2>1, <2>4, <3>1 DEF SlaveStates
      <3>3. Wrote(d, t, k) /\ t.half = 0 /\ k <= Len(t.put)
        BY <1>a, <2>4, <3>2 DEF Wrote
      <3>4. CASE k < Len(t.put)
        <4>1. p = In("put", 0, k + 1) /\ p.op = "put" /\ p.rw = 0 /\ p.k = k + 1
          BY <1>n, <2>2, <2>4, <3>4 DEF Onward, In
        <4>2. AtSend(p, "first", 1, t.put[p.k], TRUE, FALSE, j_r, d, t)
          <5>1. Shifted(d.v, t.put[p.k], 1 - 1)
            BY <3>2, NothingShifted
          <5>2. ~(1 > BYTE_BITS)
            BY <1>n
          <5> QED
            BY <2>1, <3>2, <4>1, <5>1, <5>2 DEF AtSend
        <4>3. p.k \in 1 .. Len(t.put) /\ p.k - 1 = k /\ ~(1 > BYTE_BITS)
          BY <1>n, <3>4, <4>1
        <4>4. AtPut(p, "first", 1, TRUE, FALSE, j_rx, j_r, d, t)
          BY <1>4, <1>a, <3>2, <3>3, <4>1, <4>2, <4>3 DEF AtPut
        <4> QED
          BY <1>0, <1>1, <1>2, <4>1, <4>4 DEF InStep, Together, Sending
      <3>5. CASE k = Len(t.put) /\ t.get > 0
        <4>1. p = In("start", 1, 0) /\ p.op = "start" /\ p.rw = 1 /\ p.k = 0
          BY <1>n, <2>2, <2>4, <3>5 DEF Onward, In
        <4>2. AtStart(p, "first", TRUE, FALSE, j_rx, j_r, d, t)
          BY <1>a, <2>1, <3>2, <3>3, <3>5, <4>1 DEF AtStart
        <4> QED
          BY <1>0, <1>1, <1>2, <4>1, <4>2 DEF InStep, Together, Sending
      <3>6. CASE k = Len(t.put) /\ t.get = 0
        <4>1. p = In("stop", 0, k) /\ p.op = "stop"
          BY <1>n, <2>2, <2>4, <3>6 DEF Onward, In
        <4>2. AtStop(p, "first", TRUE, FALSE, j_rx, j_r, d, t)
          BY <1>4, <1>a, <2>1, <3>2, <3>3, <3>6 DEF AtStop
        <4> QED
          BY <1>0, <1>1, <1>2, <4>1, <4>2 DEF InStep, Together, Sending
      <3>7. k < Len(t.put) \/ (k = Len(t.put) /\ t.get > 0) \/ (k = Len(t.put) /\ t.get = 0)
        BY <1>n, <3>3
      <3> QED
        BY <3>4, <3>5, <3>6, <3>7
    <2> QED
      BY <1>n, <2>3, <2>4
  <1> QED
    BY <1>3, <1>4

(* ---- a byte from the slave ---- *)
Getting ==
    /\ I2cType /\ j_hold = FALSE /\ j_at.op = "get"
    /\ AtGet(j_at, j_ph, j_slot, j_sda, j_scl, j_in, j_rx, j_r, j_dev, h_asked)

LEMMA GetNumbers ==
    ASSUME Getting
    PROVE  /\ BYTE_BITS \in Nat /\ BYTE_BITS >= 1 /\ j_slot \in 1 .. BYTE_BITS + 1 /\ j_at.k \in Nat /\ j_at.k >= 1
           /\ h_asked.get \in Nat /\ j_at.k <= h_asked.get /\ j_at.rw = 1 /\ ~Sends
           /\ j_dev \in SlaveStates /\ j_sda \in BOOLEAN /\ j_scl \in BOOLEAN /\ j_in \in Wires /\ j_rx \in Seq(Wires)
           /\ Given(j_at.k - 1) \in BusBytes
  <1>1. /\ BYTE_BITS \in Nat /\ BYTE_BITS >= 1 /\ j_slot \in 1 .. BYTE_BITS + 1
        /\ h_asked.get \in Nat /\ j_at.k \in 1 .. h_asked.get /\ j_at.rw = 1 /\ ~Sends
        /\ j_dev \in SlaveStates /\ j_sda \in BOOLEAN /\ j_scl \in BOOLEAN /\ j_in \in Wires /\ j_rx \in Seq(Wires)
    BY BusNumbers DEF Getting, AtGet, I2cType, CallOK, Calls, Sends
  <1>2. j_at.k \in Nat /\ j_at.k >= 1 /\ j_at.k <= h_asked.get /\ j_at.k - 1 \in Nat
    BY <1>1
  <1> QED
    BY <1>1, <1>2, BytesGiven

LEMMA GetDrives == ASSUME I2cType, InStep, h_clean = TRUE, byte_drives, j_at.op = "get" PROVE InStep'
  <1>0. Getting
    BY DEF InStep, Together, Getting
  <1>n. /\ BYTE_BITS \in Nat /\ j_slot \in 1 .. BYTE_BITS + 1 /\ j_at.k \in Nat /\ h_asked.get \in Nat
        /\ j_at.k <= h_asked.get /\ ~Sends
    BY <1>0, GetNumbers
  <1>1. /\ j_ph = "first" /\ j_scl = FALSE /\ Lines2(Puts(j_slot), j_scl) /\ j_ph' = "wait" /\ Stays
        /\ UNCHANGED <<j_hold, h_clean>>
    BY <1>0 DEF byte_drives, Getting, AtGet
  <1>2. j_dev' = j_dev /\ j_scl' = FALSE /\ j_sda' = Puts(j_slot)
    BY <1>0, <1>1, Edges, PutsType DEF Getting, I2cType
  <1>3. Puts(j_slot) = (j_slot <= BYTE_BITS \/ j_at.k = h_asked.get)
    <2>1. CASE j_slot <= BYTE_BITS
      <3>1. Puts(j_slot) = TRUE
        BY <1>n, <2>1 DEF Puts
      <3> QED
        BY <2>1, <3>1
    <2>2. CASE j_slot > BYTE_BITS
      <3>1. Puts(j_slot) = ~Acked(j_at.k, h_asked.get)
        BY <1>n, <2>2 DEF Puts
      <3>2. Acked(j_at.k, h_asked.get) = (j_at.k # h_asked.get)
        BY <1>n DEF Acked
      <3>3. ~(j_slot <= BYTE_BITS)
        BY <1>n, <2>2
      <3> QED
        BY <3>1, <3>2, <3>3
    <2> QED
      BY <1>n, <2>1, <2>2
  <1>4. AtGet(j_at, "wait", j_slot, Puts(j_slot), FALSE, j_in, j_rx, j_r, j_dev, h_asked)
    BY <1>0, <1>1, <1>3 DEF AtGet, Getting
  <1> QED
    BY <1>0, <1>1, <1>2, <1>4 DEF InStep, Together, Stays, Getting

LEMMA GetClocks == ASSUME I2cType, InStep, h_clean = TRUE, byte_clocks, j_at.op = "get", h_clean' = TRUE PROVE InStep'
  <1> DEFINE d == OnRise(j_dev, j_sda /\ j_dev.sda)
             g == Given(j_at.k - 1)
  <1>0. Getting
    BY DEF InStep, Together, Getting
  <1>n. /\ BYTE_BITS \in Nat /\ j_slot \in 1 .. BYTE_BITS + 1 /\ j_at.k \in Nat /\ h_asked.get \in Nat
        /\ j_at.k <= h_asked.get /\ ~Sends /\ j_dev \in SlaveStates /\ j_sda \in BOOLEAN /\ j_scl \in BOOLEAN
        /\ j_in \in Wires /\ g \in BusBytes /\ j_dev.sda \in BOOLEAN
    BY <1>0, GetNumbers DEF SlaveStates
  <1>1. /\ j_ph = "wait" /\ j_scl = FALSE /\ Lines2(j_sda, TRUE) /\ Sampled /\ UNCHANGED <<j_hold, h_clean>>
    BY <1>0 DEF byte_clocks, scl_release_and_wait, Getting, AtGet
  <1>2. j_dev' = d /\ j_scl' = TRUE /\ j_sda' = j_sda
    BY <1>0, <1>1, <1>n, Edges DEF Getting
  <1>3. j_r' = j_r /\ UNCHANGED <<j_at, j_slot, j_rx, h_asked>> /\ j_ph' = "clock"
    BY <1>1, <1>n DEF Sampled
  <1>4. CASE j_slot <= BYTE_BITS
    <2>0. ~(j_slot > BYTE_BITS)
      BY <1>n, <1>4
    <2>1. /\ j_dev.st = "tx" /\ j_dev.sda = Level(g[j_slot]) /\ Shifted(j_in, g, j_slot - 1) /\ j_sda = TRUE
      BY <1>0, <1>1, <1>4 DEF Getting, AtGet
    <2>2. d = j_dev
      BY <1>n, <2>1, RiseIs
    <2>3. g[j_slot] \in {0, 1}
      BY <1>n, <1>4 DEF BusBytes
    <2>4. j_in' = Append(j_in, g[j_slot])
      <3>1. j_in' = Append(j_in, Bit(j_sda /\ j_dev.sda))
        BY <1>0, <1>1, <1>4 DEF Sampled, Sda, Getting
      <3>2. Bit(j_sda /\ j_dev.sda) = g[j_slot]
        BY <2>1, <2>3 DEF Bit, Level
      <3> QED
        BY <3>1, <3>2
    <2>5. Shifted(Append(j_in, g[j_slot]), g, j_slot)
      <3> DEFINE m == j_slot - 1
      <3>1. m \in Nat /\ m + 1 = j_slot
        BY <1>n
      <3>2. Shifted(j_in, g, m)
        BY <2>1
      <3> HIDE DEF m, g
      <3>3. Shifted(Append(j_in, g[j_slot]), g, m + 1)
        BY <1>n, <2>3, <3>1, <3>2, ShiftsIn
      <3> QED
        BY <3>1, <3>3
    <2>6. AtGet(j_at, "clock", j_slot, j_sda, TRUE, Append(j_in, g[j_slot]), j_rx, j_r, j_dev, h_asked)
      BY <1>0, <1>1, <1>4, <2>0, <2>1, <2>5 DEF AtGet, Getting
    <2> QED
      BY <1>0, <1>1, <1>2, <1>3, <2>2, <2>4, <2>6 DEF InStep, Together, Getting
  <1>5. CASE j_slot > BYTE_BITS
    <2>0. ~(j_slot <= BYTE_BITS)
      BY <1>n, <1>5
    <2>1. j_dev.st = "wait" /\ j_dev.sda = TRUE /\ j_in' = j_in
      BY <1>0, <1>1, <1>5, <2>0 DEF Getting, AtGet, Sampled
    <2>2. d = [j_dev EXCEPT !.v = <<Bit(j_sda /\ j_dev.sda)>>]
      BY <1>n, <2>1, RiseIs
    <2> HIDE DEF d
    <2>3. d.v = <<Bit(j_sda)>> /\ d.st = "wait" /\ d.sda = TRUE /\ d.sent = j_dev.sent /\ d.got = j_dev.got
      BY <1>n, <2>1, <2>2 DEF SlaveStates
    <2>4. AtGet(j_at, "clock", j_slot, j_sda, TRUE, j_in, j_rx, j_r, d, h_asked)
      BY <1>0, <1>1, <1>5, <2>0, <2>3 DEF AtGet, Getting, Wrote
    <2> QED
      BY <1>0, <1>1, <1>2, <1>3, <2>1, <2>4 DEF InStep, Together, Getting
  <1> QED
    BY <1>n, <1>4, <1>5

LEMMA GetFalls == ASSUME I2cType, InStep, h_clean = TRUE, byte_falls, j_at.op = "get" PROVE InStep'
  <1> DEFINE d == OnFall(j_dev)
             g == Given(j_at.k - 1)
             k == j_at.k
  <1>0. Getting
    BY DEF InStep, Together, Getting
  <1>n. /\ BYTE_BITS \in Nat /\ BYTE_BITS >= 1 /\ j_slot \in 1 .. BYTE_BITS + 1 /\ k \in Nat /\ k >= 1
        /\ h_asked.get \in Nat /\ k <= h_asked.get /\ ~Sends /\ j_dev \in SlaveStates /\ j_sda \in BOOLEAN
        /\ j_scl \in BOOLEAN /\ j_in \in Wires /\ j_rx \in Seq(Wires) /\ g \in BusBytes
    BY <1>0, GetNumbers
  <1>1. /\ j_ph = "clock" /\ j_scl = TRUE /\ Lines2(j_sda, FALSE) /\ UNCHANGED <<j_r, h_asked, j_hold, h_clean>>
    BY <1>0 DEF byte_falls, Getting, AtGet
  <1>2. j_dev' = d /\ j_scl' = FALSE /\ j_sda' = j_sda
    BY <1>0, <1>1, <1>n, Edges DEF Getting
  <1>3. CASE j_slot <= BYTE_BITS
    <2>0. ~(j_slot > BYTE_BITS)
      BY <1>n, <1>3
    <2>1. j_slot' = j_slot + 1 /\ j_ph' = "first" /\ UNCHANGED <<j_at, j_in, j_rx>>
      BY <2>0 DEF byte_falls
    <2>2. /\ j_dev.st = "tx" /\ j_dev.n = j_slot /\ j_dev.sent = k - 1 /\ Shifted(j_in, g, j_slot)
          /\ Took(j_rx, k - 1) /\ Wrote(j_dev, h_asked, Len(h_asked.put)) /\ h_asked.a = SlaveAddr /\ j_r = "ok"
          /\ j_at.rw = 1 /\ k \in 1 .. h_asked.get
      BY <1>0, <1>1, <1>3 DEF Getting, AtGet
    <2> DEFINE s == j_slot + 1
    <2>3. CASE j_slot < BYTE_BITS
      <3>1. d = [j_dev EXCEPT !.st = "tx", !.n = s, !.sda = Level(Given(j_dev.sent)[s])]
        BY <1>n, <2>2, <2>3, FallIs
      <3>2. s \in Nat /\ s <= BYTE_BITS /\ ~(s > BYTE_BITS) /\ s - 1 = j_slot
        BY <1>n, <2>3
      <3> HIDE DEF d, s
      <3>3. d.st = "tx" /\ d.n = s /\ d.sent = k - 1 /\ d.sda = Level(g[s]) /\ d.got = j_dev.got
        BY <1>n, <2>2, <3>1 DEF SlaveStates
      <3>4. Wrote(d, h_asked, Len(h_asked.put))
        BY <2>2, <3>3 DEF Wrote
      <3>5. AtGet(j_at, "first", s, j_sda, FALSE, j_in, j_rx, j_r, d, h_asked)
        BY <2>2, <3>2, <3>3, <3>4 DEF AtGet
      <3>6. j_slot' = s
        BY <2>1 DEF s
      <3> QED
        BY <1>0, <1>1, <1>2, <2>1, <3>5, <3>6 DEF InStep, Together, Getting
    <2>4. CASE j_slot = BYTE_BITS
      <3>1. d = [j_dev EXCEPT !.st = "wait", !.sda = TRUE, !.sent = j_dev.sent + 1]
        BY <1>n, <2>2, <2>4, FallIs
      <3>2. s \in Nat /\ ~(s <= BYTE_BITS) /\ s > BYTE_BITS /\ (k - 1) + 1 = k
        BY <1>n, <2>4
      <3> HIDE DEF d, s
      <3>3. d.st = "wait" /\ d.sda = TRUE /\ d.sent = k /\ d.got = j_dev.got
        BY <1>n, <2>2, <3>1, <3>2 DEF SlaveStates
      <3>4. Wrote(d, h_asked, Len(h_asked.put))
        BY <2>2, <3>3 DEF Wrote
      <3>5. AtGet(j_at, "first", s, j_sda, FALSE, j_in, j_rx, j_r, d, h_asked)
        BY <2>2, <2>4, <3>2, <3>3, <3>4 DEF AtGet
      <3>6. j_slot' = s
        BY <2>1 DEF s
      <3> QED
        BY <1>0, <1>1, <1>2, <2>1, <3>5, <3>6 DEF InStep, Together, Getting
    <2> QED
      BY <1>n, <1>3, <2>3, <2>4
  <1>4. CASE j_slot > BYTE_BITS
    <2>0. ~(j_slot <= BYTE_BITS)
      BY <1>n, <1>4
    <2>1. j_rx' = Append(j_rx, j_in) /\ j_ph' = "free" /\ j_slot' = 1 /\ j_in' = <<>> /\ UNCHANGED j_at
      BY <1>n, <2>0 DEF byte_falls
    <2>2. /\ j_dev.st = "wait" /\ j_dev.sda = TRUE /\ j_dev.sent = k /\ Shifted(j_in, g, BYTE_BITS)
          /\ Took(j_rx, k - 1) /\ Wrote(j_dev, h_asked, Len(h_asked.put)) /\ h_asked.a = SlaveAddr /\ j_r = "ok"
          /\ j_at.rw = 1 /\ k \in 1 .. h_asked.get /\ j_dev.v = <<Bit(j_sda)>> /\ j_sda = (k = h_asked.get)
      BY <1>0, <1>1, <1>4, <2>0 DEF Getting, AtGet
    <2>3. j_in = g
      BY <1>n, <2>2, AllShifted
    <2>4. Took(Append(j_rx, j_in), k)
      <3> DEFINE m == k - 1
      <3>1. m \in Nat /\ m + 1 = k
        BY <1>n
      <3>2. Took(j_rx, m) /\ j_in = Given(m)
        BY <2>2, <2>3
      <3> HIDE DEF m
      <3>3. Took(Append(j_rx, j_in), m + 1)
        BY <1>n, <3>1, <3>2, TakesIn
      <3> QED
        BY <3>1, <3>3
    <2>5. CASE k < h_asked.get
      <3>1. j_dev.v = <<0>>
        <4>1. k # h_asked.get
          BY <1>n, <2>5
        <4>2. j_sda = FALSE
          BY <2>2, <4>1
        <4> QED
          BY <2>2, <4>2 DEF Bit
      <3>2. d = [j_dev EXCEPT !.st = "tx", !.n = 1, !.sda = Level(Given(k)[1])]
        <4>1. d = [j_dev EXCEPT !.st = "tx", !.n = 1, !.sda = Level(Given(j_dev.sent)[1])]
          BY <1>n, <2>2, <3>1, FallIs
        <4> QED
          BY <2>2, <4>1
      <3> HIDE DEF d
      <3>3. d.st = "tx" /\ d.n = 1 /\ d.sda = Level(Given(k)[1]) /\ d.sent = k /\ d.got = j_dev.got
        BY <1>n, <2>2, <3>2 DEF SlaveStates
      <3>4. AtGet(j_at, "free", 1, j_sda, FALSE, <<>>, Append(j_rx, j_in), j_r, d, h_asked)
        BY <2>2, <2>4, <2>5, <3>3 DEF AtGet, Wrote
      <3> QED
        BY <1>0, <1>1, <1>2, <2>1, <3>4 DEF InStep, Together, Getting
    <2>6. CASE k = h_asked.get
      <3>1. j_dev.v = <<1>>
        BY <1>n, <2>2, <2>6 DEF Bit
      <3>2. <<1>> # <<0>>
        OBVIOUS
      <3>3. d = [j_dev EXCEPT !.st = "idle"]
        BY <1>n, <2>2, <3>1, <3>2, FallIs
      <3> HIDE DEF d
      <3>4. d.st = "idle" /\ d.sda = TRUE /\ d.sent = k /\ d.got = j_dev.got
        BY <1>n, <2>2, <3>3 DEF SlaveStates
      <3>5. ~(k < h_asked.get)
        BY <1>n, <2>6
      <3>6. AtGet(j_at, "free", 1, j_sda, FALSE, <<>>, Append(j_rx, j_in), j_r, d, h_asked)
        BY <2>2, <2>4, <3>4, <3>5 DEF AtGet, Wrote
      <3> QED
        BY <1>0, <1>1, <1>2, <2>1, <3>6 DEF InStep, Together, Getting
    <2> QED
      BY <1>n, <2>5, <2>6
  <1> QED
    BY <1>n, <1>3, <1>4

LEMMA GetFrees == ASSUME I2cType, InStep, h_clean = TRUE, byte_frees PROVE InStep'
  <1> DEFINE k == j_at.k
             p == Onward(h_asked, 1, k)
  <1>0. Getting
    BY DEF InStep, Together, Getting, byte_frees, At
  <1>n. /\ BYTE_BITS \in Nat /\ BYTE_BITS >= 1 /\ k \in Nat /\ k >= 1 /\ j_at.rw = 1
        /\ h_asked.get \in Nat /\ k <= h_asked.get /\ j_dev \in SlaveStates /\ j_sda \in BOOLEAN /\ j_scl \in BOOLEAN
    BY <1>0, GetNumbers
  <1>1. /\ j_ph = "free" /\ j_scl = FALSE /\ Lines2(TRUE, j_scl) /\ UNCHANGED <<j_rx, j_r, h_asked, j_hold, h_clean>>
        /\ j_at' = p /\ j_ph' = "first" /\ j_slot' = 1 /\ j_in' = <<>>
    BY <1>0, <1>n DEF byte_frees, At, GoesTo, Getting, AtGet
  <1>2. j_dev' = j_dev /\ j_scl' = FALSE /\ j_sda' = TRUE
    BY <1>0, <1>1, <1>n, Edges DEF Getting
  <1>3. /\ Took(j_rx, k) /\ j_dev.sent = k /\ Wrote(j_dev, h_asked, Len(h_asked.put)) /\ h_asked.a = SlaveAddr
        /\ j_r = "ok"
    BY <1>0, <1>1 DEF Getting, AtGet
  <1>4. CASE k < h_asked.get
    <2>1. p = In("get", 1, k + 1) /\ p.op = "get" /\ p.rw = 1 /\ p.k = k + 1
      BY <1>4, <1>n DEF Onward, In
    <2>2. p.k \in 1 .. h_asked.get /\ p.k - 1 = k /\ 1 <= BYTE_BITS /\ ~(1 > BYTE_BITS) /\ 1 - 1 = 0
      BY <1>n, <1>4, <2>1
    <2>3. j_dev.st = "tx" /\ j_dev.n = 1 /\ j_dev.sda = Level(Given(k)[1])
      BY <1>0, <1>1, <1>4 DEF Getting, AtGet
    <2>4. Shifted(<<>>, Given(k), 0)
      BY NothingShifted
    <2> HIDE DEF p
    <2>5. AtGet(p, "first", 1, TRUE, FALSE, <<>>, j_rx, j_r, j_dev, h_asked)
      BY <1>3, <2>1, <2>2, <2>3, <2>4 DEF AtGet
    <2> QED
      BY <1>0, <1>1, <1>2, <2>1, <2>5 DEF InStep, Together, Getting
  <1>5. CASE k = h_asked.get
    <2>1. p = In("stop", 1, k) /\ p.op = "stop"
      BY <1>5, <1>n DEF Onward, In
    <2>2. j_dev.st = "idle" /\ j_dev.sda = TRUE
      <3>1. ~(k < h_asked.get)
        BY <1>5, <1>n
      <3> QED
        BY <1>0, <1>1, <3>1 DEF Getting, AtGet
    <2> HIDE DEF p
    <2>3. AtStop(p, "first", TRUE, FALSE, j_rx, j_r, j_dev, h_asked)
      BY <1>3, <1>5, <2>2 DEF AtStop
    <2> QED
      BY <1>0, <1>1, <1>2, <2>1, <2>3 DEF InStep, Together, Getting
  <1> QED
    BY <1>n, <1>4, <1>5

LEMMA BeginsKeeps == ASSUME I2cType, InStep, NEW t \in Transactions, begins(t), h_clean' = TRUE PROVE InStep'
  <1> DEFINE p == In("start", t.half, 0)
             d == [j_dev EXCEPT !.got = <<>>, !.sent = 0]
  <1>0. CallOK(t) /\ t.half \in {0, 1} /\ Len(t.put) \in Nat /\ (t.half = 1 => Len(t.put) = 0 /\ t.get > 0)
    BY CallsMade, NoBytes DEF CallOK, Calls
  <1>1. /\ j_at' = p /\ h_asked' = t /\ BusIsFree /\ j_ph' = "first" /\ j_rx' = <<>> /\ j_r' = "ok" /\ j_dev' = d
        /\ UNCHANGED <<j_sda, j_scl, j_hold>>
    BY DEF begins
  <1>2. j_dev \in SlaveStates /\ j_sda = TRUE /\ j_scl = TRUE /\ j_hold = FALSE /\ j_dev.sda = TRUE /\ j_dev.st = "idle"
    BY <1>1 DEF BusIsFree, Sda, Scl, I2cType, SlaveStates
  <1>3. d.got = <<>> /\ d.sent = 0 /\ d.sda = TRUE /\ d.st = "idle"
    BY <1>2 DEF SlaveStates
  <1>4. Took(<<>>, 0) /\ Wrote(d, t, 0)
    BY <1>3 DEF Took, Wrote
  <1>5. p.op = "start" /\ p.rw = t.half /\ p.k = 0
    BY DEF In
  <1> HIDE DEF p, d
  <1>6. AtStart(p, "first", TRUE, TRUE, <<>>, "ok", d, t)
    BY <1>0, <1>3, <1>4, <1>5 DEF AtStart
  <1> QED
    BY <1>1, <1>2, <1>5, <1>6 DEF InStep, Together

LEMMA I2cKeeps == I2cType /\ InStep /\ [I2cNext]_i2cVars => InStep'
  <1> SUFFICES ASSUME I2cType, InStep, [I2cNext]_i2cVars, h_clean' PROVE InStep'
    BY DEF InStep
  <1>0. h_clean \in BOOLEAN /\ h_clean' \in BOOLEAN
    BY I2cTypeKept DEF I2cType
  <1>1. ASSUME NEW t \in Transactions, begins(t) PROVE InStep'
    BY <1>0, <1>1, BeginsKeeps
  <1>2. CASE UNCHANGED i2cVars
    BY <1>2 DEF i2cVars, masterVs, busVs, InStep
  <1>3. CASE \/ i2c_start \/ i2c_stop \/ byte_drives \/ byte_clocks \/ byte_falls \/ byte_frees
             \/ slave_lets_go \/ i2c_selftest
    <2>1. h_clean = TRUE /\ h_clean' = TRUE
      BY <1>0, <1>3 DEF i2c_start, i2c_stop, byte_drives, byte_clocks, byte_falls, byte_frees, slave_lets_go,
                        i2c_selftest, scl_release_and_wait
    <2>2. CASE i2c_start
      BY <2>1, <2>2, StartKeeps
    <2>3. CASE i2c_stop
      BY <2>1, <2>3, StopKeeps
    <2>4. CASE byte_drives
      BY <2>1, <2>4, SendDrives, GetDrives DEF byte_drives
    <2>5. CASE byte_clocks
      BY <2>1, <2>5, SendClocks, GetClocks DEF byte_clocks
    <2>6. CASE byte_falls
      <3>1. j_slot < BYTE_BITS \/ j_slot = BYTE_BITS \/ j_slot > BYTE_BITS
        BY BusNumbers DEF I2cType
      <3> QED
        BY <2>1, <2>6, <3>1, SendFallsWithin, SendFallsLast, SendFallsAcked, GetFalls DEF byte_falls
    <2>7. CASE byte_frees
      BY <2>1, <2>7, GetFrees
    <2>8. CASE slave_lets_go
      BY <2>1, <2>8 DEF slave_lets_go, InStep
    <2>9. CASE i2c_selftest
      <3>0. j_dev \in SlaveStates /\ j_at.op = "none" /\ j_hold = FALSE
            /\ AtNone(j_sda, j_scl, j_rx, j_r, j_dev, h_asked)
        BY <2>1, <2>9 DEF i2c_selftest, InStep, Together, I2cType
      <3> DEFINE d == OnStop(OnStart(j_dev))
      <3>1. d \in SlaveStates
        BY <3>0, StartStopType
      <3>2. d.st = "idle" /\ d.sda = TRUE /\ d.got = j_dev.got
        BY <3>0 DEF OnStop, OnStart, SlaveStates
      <3> HIDE DEF d
      <3>3. OnFall(d) = d
        BY <3>1, <3>2, FallIs
      <3>4. j_dev' = d /\ UNCHANGED <<masterVs, j_sda, j_scl, j_hold, h_asked, h_clean>>
        BY <2>9, <3>3 DEF i2c_selftest, d
      <3>5. AtNone(j_sda, j_scl, j_rx, j_r, d, h_asked)
        BY <3>0, <3>2 DEF AtNone, Wrote
      <3> QED
        BY <3>0, <3>4, <3>5 DEF InStep, Together, masterVs
    <2> QED
      BY <1>3, <2>2, <2>3, <2>4, <2>5, <2>6, <2>7, <2>8, <2>9
  <1> QED
    BY <1>1, <1>2, <1>3 DEF I2cNext

\* TransferIsWhole, for bytes of any width, any slave and any bytes it gives, any buffers
\* and any lengths (i2c.c): a call that began on a free bus and met no timeout leaves the
\* bus free, and if it reported I2C_OK the bytes arrived, both ways.
THEOREM TransfersAreWhole == I2cSpec => []TransferIsWhole
  <1>1. I2cInit => I2cType /\ InStep
    <2> SUFFICES ASSUME I2cInit PROVE InStep
      BY I2cTypeStarts
    <2>1. In("none", 0, 0).op = "none" /\ Unaddressed.sda = TRUE /\ Unaddressed.st = "idle" /\ Unaddressed.got = <<>>
          /\ i2c_probe(SlaveAddr).a = SlaveAddr /\ i2c_probe(SlaveAddr).put = <<>> /\ i2c_probe(SlaveAddr).get = 0
      BY DEF In, Unaddressed, i2c_probe
    <2>2. AtNone(TRUE, TRUE, <<>>, "ok", Unaddressed, i2c_probe(SlaveAddr))
      <3>1. Took(<<>>, 0) /\ Wrote(Unaddressed, i2c_probe(SlaveAddr), 0)
        BY <2>1 DEF Took, Wrote
      <3> QED
        BY <2>1, <3>1, NoBytes DEF AtNone
    <2> QED
      BY <2>1, <2>2 DEF I2cInit, InStep, Together
  <1>2. I2cType /\ InStep /\ [I2cNext]_i2cVars => (I2cType /\ InStep)'
    BY I2cTypeKept, I2cKeeps
  <1>3. I2cType /\ InStep => TransferIsWhole
    <2> SUFFICES ASSUME I2cType, InStep, j_at.op = "none", h_clean PROVE
                 /\ BusIsFree
                 /\ j_r = "ok" => /\ h_asked.a = SlaveAddr /\ j_dev.got = h_asked.put
                                  /\ Len(j_rx) = h_asked.get /\ \A k \in 1 .. Len(j_rx) : j_rx[k] = Given(k - 1)
      BY DEF TransferIsWhole
    <2>1. j_hold = FALSE /\ AtNone(j_sda, j_scl, j_rx, j_r, j_dev, h_asked)
      BY DEF InStep, Together
    <2>2. BusIsFree
      BY <2>1 DEF BusIsFree, Sda, Scl, AtNone
    <2>3. ASSUME j_r = "ok" PROVE j_dev.got = h_asked.put
      <3>1. j_dev.got \in Seq(Wires) /\ h_asked.put \in Seq(BusBytes)
        BY DEF I2cType, SlaveStates, CallOK, Calls
      <3>2. BusBytes \subseteq Wires
        BY BytesAreWires
      <3>3. h_asked.put \in Seq(Wires)
        BY <3>1, <3>2
      <3>4. Len(j_dev.got) = Len(h_asked.put) /\ \A i \in 1 .. Len(j_dev.got) : j_dev.got[i] = h_asked.put[i]
        BY <2>1, <2>3 DEF AtNone, Wrote
      <3> QED
        BY <3>1, <3>3, <3>4, SeqEqual
    <2> QED
      BY <2>1, <2>2, <2>3 DEF AtNone, Took
  <1> QED
    BY <1>1, <1>2, <1>3, PTL DEF I2cSpec

=============================================================================
