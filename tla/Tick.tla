-------------------------------- MODULE Tick --------------------------------
(* The clock (timer.c, timer.h): a one-shot comparator on a free-running cycle   *)
(* counter, re-armed by its interrupt, pulled forward by every yield, missed by  *)
(* a masked stretch and rescued where the mask is lifted; and the hang detector  *)
(* behind it (watchdog.c). Cycles are counted modulo CcountRange, as CCOUNT is.  *)
EXTENDS Integers

CONSTANTS
    CcountRange,        \* values of CCOUNT
    Interval,           \* g_timer_interval
    YieldCycles,        \* a yield asks for an interrupt this soon
    LateCycles,         \* most cycles an interrupt, or a rescue, takes between read and write
    WatchdogCycles      \* without a tick for so long, the hang detector resets

ASSUME TickAssumption ==
    /\ {CcountRange, Interval, YieldCycles, LateCycles, WatchdogCycles} \subseteq Nat \ {0}
    /\ YieldCycles < Interval /\ 2 * Interval <= WatchdogCycles
    /\ Interval + WatchdogCycles < CcountRange \div 2

VARIABLES
    c_count, c_compare, c_pending,  \* CCOUNT, CCOMPARE1, the interrupt it raised
    c_next,                         \* g_timer_next
    c_masked,                       \* driver code holds the interrupts off
    c_pc, c_now, c_spent,           \* task, isr, rearm, yield; the value read; cycles since
    h_credit,                       \* history: cycles elapsed and not yet ticked
    h_lost,                         \* history: a match went by unseen and nothing re-armed since
    h_silent                        \* history: cycles since a tick

tickVars == <<c_count, c_compare, c_pending, c_next, c_masked, c_pc, c_now, c_spent,
              h_credit, h_lost, h_silent>>

Cycles(a)  == a % CcountRange
\* (int32_t)a: the half of the range from the middle up is negative.
Signed(a)  == LET m == Cycles(a) IN IF m < CcountRange \div 2 THEN m ELSE m - CcountRange
Ahead(a)   == Signed(a - c_count)

TickInit ==
    /\ c_count = 0 /\ c_compare = Interval /\ c_pending = FALSE /\ c_next = Interval
    /\ c_masked = FALSE /\ c_pc = "task" /\ c_now = 0 /\ c_spent = 0
    /\ h_credit = 0 /\ h_lost = FALSE /\ h_silent = 0

\* CCOMPARE1 is written, which also acknowledges: a value gone by will not match again.
Rearm(a) == c_compare' = a /\ c_pending' = FALSE /\ h_lost' = (Ahead(a) <= 0)

\* A cycle. Interrupts masked at the match may leave it unseen (timer.h).
Cycle ==
    /\ h_silent < WatchdogCycles /\ h_silent' = h_silent + 1
    /\ c_pc # "task" => c_spent < LateCycles
    /\ c_spent' = IF c_pc = "task" THEN 0 ELSE c_spent + 1
    /\ c_count' = Cycles(c_count + 1)
    /\ h_credit' = IF h_credit < WatchdogCycles THEN h_credit + 1 ELSE h_credit
    /\ IF c_compare = c_count'
       THEN \/ c_pending' = TRUE /\ UNCHANGED h_lost
            \/ c_masked /\ UNCHANGED c_pending /\ h_lost' = ~c_pending
       ELSE UNCHANGED <<c_pending, h_lost>>
    /\ UNCHANGED <<c_compare, c_next, c_masked, c_pc, c_now>>

\* Nothing has ticked for the watchdog's time: the board starts again.
WatchdogReset ==
    /\ h_silent = WatchdogCycles
    /\ c_count' = 0 /\ c_compare' = Interval /\ c_pending' = FALSE /\ c_next' = Interval
    /\ c_masked' = FALSE /\ c_pc' = "task" /\ c_now' = 0 /\ c_spent' = 0
    /\ h_credit' = 0 /\ h_lost' = FALSE /\ h_silent' = 0

-----------------------------------------------------------------------------
(* timer_isr *)

\* Level 3 is masked from here to the end, so nothing else runs.
timer_isr ==
    /\ c_pending /\ ~c_masked /\ c_pc \in {"task", "yield"}
    /\ c_pc' = "isr" /\ c_now' = c_count /\ c_spent' = 0
    /\ UNCHANGED <<c_count, c_compare, c_pending, c_next, c_masked, h_credit, h_lost, h_silent>>

\* Mutant: every entry counts, a yield's included.
IsTick_every == TRUE

\* Only an entry at or after the deadline is a tick.
IsTick == Signed(c_now - c_next) >= 0

\* The comparator a yield displaced is put back.
timer_isr_early ==
    /\ c_pc = "isr" /\ ~IsTick /\ Rearm(c_next) /\ c_pc' = "task" /\ c_spent' = 0
    /\ UNCHANGED <<c_count, c_next, c_masked, c_now, h_credit, h_silent>>

\* The next deadline: one interval on, or one interval from now when that has gone by.
timer_isr_ticks ==
    LET due   == Cycles(c_next + Interval)
        ahead == Ahead(due)
        next  == IF ahead <= 0 \/ ahead > Interval THEN Cycles(c_count + Interval) ELSE due
    IN  /\ c_pc = "isr" /\ IsTick
        /\ c_next' = next /\ c_pc' = "rearm" /\ c_spent' = 0
        /\ h_credit' = h_credit - Interval /\ h_silent' = 0
        /\ UNCHANGED <<c_count, c_compare, c_pending, c_masked, c_now, h_lost>>
timer_isr_rearms ==
    /\ c_pc = "rearm" /\ Rearm(c_next) /\ c_pc' = "task" /\ c_spent' = 0
    /\ UNCHANGED <<c_count, c_next, c_masked, c_now, h_credit, h_silent>>

-----------------------------------------------------------------------------
(* Tasks and driver code *)

\* The deadline has gone by: start again from now. A comparator that was pulled
\* forward is not looked at.
timer_rescue ==
    IF Ahead(c_next) > 0
    THEN UNCHANGED <<c_next, c_compare, c_pending, h_lost>>
    ELSE c_next' = Cycles(c_count + Interval) /\ Rearm(c_next')

\* Rescue, then the comparator, only ever earlier.
task_yield ==
    /\ c_pc = "task" /\ ~c_masked /\ ~c_pending /\ timer_rescue /\ c_pc' = "yield" /\ c_spent' = 0
    /\ UNCHANGED <<c_count, c_masked, c_now, h_credit, h_silent>>
task_yield_pulls ==
    LET soon == Cycles(c_count + YieldCycles) IN
    /\ c_pc = "yield" /\ ~c_pending /\ c_pc' = "task" /\ c_spent' = 0
    /\ IF Signed(soon - c_compare) < 0 THEN Rearm(soon)
                                       ELSE UNCHANGED <<c_compare, c_pending, h_lost>>
    /\ UNCHANGED <<c_count, c_next, c_masked, c_now, h_credit, h_silent>>

osi_wifi_int_disable ==
    /\ c_pc = "task" /\ ~c_masked /\ ~c_pending /\ c_masked' = TRUE
    /\ UNCHANGED <<c_count, c_compare, c_pending, c_next, c_pc, c_now, c_spent, h_credit,
                   h_lost, h_silent>>
\* The level first, then the rescue: a pending interrupt comes in between, and re-arms.
osi_wifi_int_restore ==
    /\ c_masked /\ c_masked' = FALSE
    /\ IF c_pending THEN UNCHANGED <<c_next, c_compare, c_pending, h_lost>> ELSE timer_rescue
    /\ UNCHANGED <<c_count, c_pc, c_now, c_spent, h_credit, h_silent>>
\* phy_exit_critical lowers the level and rescues nothing.
phy_exit_critical ==
    /\ c_masked /\ c_masked' = FALSE
    /\ UNCHANGED <<c_count, c_compare, c_pending, c_next, c_pc, c_now, c_spent, h_credit,
                   h_lost, h_silent>>

TickNext ==
    \/ Cycle \/ WatchdogReset
    \/ timer_isr \/ timer_isr_early \/ timer_isr_ticks \/ timer_isr_rearms
    \/ task_yield \/ task_yield_pulls
    \/ osi_wifi_int_disable \/ osi_wifi_int_restore \/ phy_exit_critical

TickSpec == TickInit /\ [][TickNext]_tickVars

-----------------------------------------------------------------------------
\* The clock never runs fast: each tick is paid for by Interval elapsed cycles, however
\* many yields pull the comparator forward (timer_isr: "advance the clock only when the
\* deadline has actually passed"). And it does not stop unnoticed: with interrupts on,
\* the comparator is at most an interval ahead, or has fired, unless a match was lost.
TickIsTime ==
    /\ h_credit >= 0
    /\ c_pc = "task" /\ ~c_masked /\ ~h_lost => c_pending \/ Ahead(c_compare) \in 1 .. Interval

(* What the code does not keep: the README tells each counterexample.         *)
\* Where the mask is lifted the comparator is not left in the past (timer.h: the rescue
\* will "Re-arm the tick if its one-shot comparator has been left in the past").
RescueRearms == [][osi_wifi_int_restore => c_pending' \/ Signed(c_compare' - c_count) > 0]_tickVars
=============================================================================
