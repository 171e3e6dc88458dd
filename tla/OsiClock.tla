------------------------------ MODULE OsiClock ------------------------------
(* Time for the vendor drivers (wifi_osi_impl.c): the pool of software timers    *)
(* that stands in for the ETSTimers the driver owns, the service task that runs  *)
(* their callbacks, the microsecond clock, and the log of posted events.         *)
(* The driver calls in under the blob lock, one call at a time; the service task *)
(* looks at the pool without it, and can be preempted between any two lines.     *)
EXTENDS Integers, Sequences

CONSTANTS
    Ets,                \* the timers the driver owns
    OSI_TIMER_MAX,      \* slots in the pool
    US_PER_TICK,        \* time units in a tick
    Asks,               \* the delays the driver asks for, in those units
    OSI_EVT_LOG,        \* entries of the event log
    ClockReaders,       \* who reads the clock: "task", or the driver's handler "isr" as well
    MaxTime, MaxPosts   \* bounds: time, events

ASSUME OsiClockAssumption ==
    /\ OSI_TIMER_MAX \in Nat \ {0} /\ US_PER_TICK \in Nat \ {0} /\ Asks \subseteq Nat
    /\ OSI_EVT_LOG \in Nat /\ ClockReaders \subseteq {"task", "isr"} /\ MaxTime \in Nat /\ MaxPosts \in Nat

VARIABLES
    w_time,             \* units since the boot
    w_timer,            \* g_timer
    w_short,            \* g_timer_short is not 0
    w_at, w_i, w_now,   \* the service task: where, at which slot, timer_ticks() it read
    w_have, w_tick, w_cc,   \* s_have, s_tick, s_cc of osi_impl_time_us
    w_read,             \* per reader: the cycle count it has sampled, or -1
    w_log, w_posts,     \* g_evt_log, g_evt_n
    w_asked,            \* g_assoc_ssid_len, of the join in hand
    w_said,             \* what the last report said of each event
    h_on, h_armed,       \* history: timers the driver has armed, and when each may first run
    h_early,            \* history: a callback ran before the time asked for
    h_last, h_back      \* history: the latest clock reading, one was below it

timerVs == <<w_timer, w_short, h_on, h_armed>>
svcVs   == <<w_at, w_i, w_now, h_early>>
clockVs == <<w_have, w_tick, w_cc, w_read, h_last, h_back>>
evtVs   == <<w_log, w_posts, w_asked, w_said>>
osiClockVars == <<w_time, timerVs, svcVs, clockVs, evtVs>>

TimerSlots == 1 .. OSI_TIMER_MAX
NOOWNER == "none"
FreeTimer == [used |-> FALSE, armed |-> FALSE, fn |-> FALSE, periodic |-> FALSE,
              period |-> 0, due |-> 0, owner |-> NOOWNER]

timer_ticks == w_time \div US_PER_TICK

OsiClockInit ==
    /\ w_time = 0 /\ w_timer = [i \in TimerSlots |-> FreeTimer] /\ w_short = FALSE
    /\ w_at = "none" /\ w_i = 0 /\ w_now = 0
    /\ w_have = FALSE /\ w_tick = 0 /\ w_cc = 0 /\ w_read = [c \in ClockReaders |-> -1]
    /\ w_log = << >> /\ w_posts = 0 /\ w_asked = 0 /\ w_said = << >>
    /\ h_on = [p \in Ets |-> FALSE] /\ h_armed = [p \in Ets |-> 0] /\ h_early = FALSE
    /\ h_last = 0 /\ h_back = FALSE

TimePasses ==
    /\ w_time < MaxTime /\ w_time' = w_time + 1
    /\ UNCHANGED <<timerVs, svcVs, clockVs, evtVs>>

(* ---------------------------------- Timers --------------------------------- *)
\* The slots bound to a timer, and the pool with the timer bound.
timer_of(p) == {i \in TimerSlots : w_timer[i].used /\ w_timer[i].owner = p}

First(S) == CHOOSE i \in S : \A j \in S : i <= j

\* Mutant: either call takes a slot of its own.
timer_bind_anew(p) ==
    LET free == {i \in TimerSlots : ~w_timer[i].used} IN
    IF free = {} THEN 0 ELSE First(free)

\* The slot already bound, the first free one, or none.
timer_bind(p) ==
    LET free == {i \in TimerSlots : ~w_timer[i].used} IN
    IF timer_of(p) # {} THEN First(timer_of(p)) ELSE IF free # {} THEN First(free) ELSE 0

Bound(p, i) == IF w_timer[i].used THEN w_timer[i] ELSE [FreeTimer EXCEPT !.used = TRUE, !.owner = p]

osi_impl_timer_setfn(p) ==
    LET i == timer_bind(p) IN
    /\ IF i = 0 THEN w_short' = TRUE /\ UNCHANGED w_timer
       ELSE w_timer' = [w_timer EXCEPT ![i] = [Bound(p, i) EXCEPT !.fn = TRUE]] /\ UNCHANGED w_short
    /\ UNCHANGED <<w_time, h_on, h_armed, svcVs, clockVs, evtVs>>

\* Whole ticks of the delay, at least one. The first arm starts the service task.
TicksOf(us) == IF us \div US_PER_TICK = 0 THEN 1 ELSE us \div US_PER_TICK

arm_ticks(p, us, again) ==
    LET i == timer_bind(p) IN
    /\ w_at' = (IF w_at = "none" THEN "sleep" ELSE w_at)
    /\ IF i = 0 THEN w_short' = TRUE /\ UNCHANGED <<w_timer, h_on, h_armed>>
       ELSE /\ w_timer' = [w_timer EXCEPT ![i] =
                  [Bound(p, i) EXCEPT !.period = TicksOf(us), !.due = timer_ticks + TicksOf(us),
                                      !.periodic = again, !.armed = TRUE]]
            /\ h_on' = [h_on EXCEPT ![p] = TRUE] /\ h_armed' = [h_armed EXCEPT ![p] = w_time + us]
            /\ UNCHANGED w_short
    /\ UNCHANGED <<w_time, w_i, w_now, h_early, clockVs, evtVs>>

osi_impl_timer_disarm(p) ==
    /\ w_timer' = IF timer_of(p) = {} THEN w_timer
                  ELSE [w_timer EXCEPT ![First(timer_of(p))].armed = FALSE]
    /\ h_on' = [h_on EXCEPT ![p] = FALSE] /\ h_armed' = [h_armed EXCEPT ![p] = 0]
    /\ UNCHANGED <<w_time, w_short, svcVs, clockVs, evtVs>>

\* The slot keeps its owner, which no longer counts.
osi_impl_timer_done(p) ==
    /\ w_timer' = IF timer_of(p) = {} THEN w_timer
                  ELSE [w_timer EXCEPT ![First(timer_of(p))].armed = FALSE,
                                       ![First(timer_of(p))].used = FALSE,
                                       ![First(timer_of(p))].fn = FALSE]
    /\ h_on' = [h_on EXCEPT ![p] = FALSE] /\ h_armed' = [h_armed EXCEPT ![p] = 0]
    /\ UNCHANGED <<w_time, w_short, svcVs, clockVs, evtVs>>

(* ----------------------------- The service task ---------------------------- *)
osi_service_task ==
    /\ w_at = "sleep" /\ w_at' = "look" /\ w_i' = 1 /\ w_now' = timer_ticks
    /\ UNCHANGED <<w_time, h_early, timerVs, clockVs, evtVs>>

DueNow(i) == w_timer[i].used /\ w_timer[i].armed /\ w_timer[i].fn /\ w_now >= w_timer[i].due

\* One slot: skipped, or found due.
osi_impl_timer_service ==
    /\ w_at = "look"
    /\ IF w_i > OSI_TIMER_MAX THEN w_at' = "sleep" /\ w_i' = 0
       ELSE IF DueNow(w_i) THEN w_at' = "mark" /\ UNCHANGED w_i
       ELSE w_at' = "look" /\ w_i' = w_i + 1
    /\ UNCHANGED <<w_time, w_now, h_early, timerVs, clockVs, evtVs>>

\* The next due tick, or disarmed; by now the slot may have been changed.
service_marks ==
    /\ w_at = "mark" /\ w_at' = "call"
    /\ w_timer' = IF w_timer[w_i].periodic
                  THEN [w_timer EXCEPT ![w_i].due = w_now + w_timer[w_i].period]
                  ELSE [w_timer EXCEPT ![w_i].armed = FALSE]
    /\ UNCHANGED <<w_time, w_i, w_now, h_early, w_short, h_on, h_armed, clockVs, evtVs>>

\* blob_call: the callback runs when the lock is got.
service_calls ==
    LET p == w_timer[w_i].owner IN
    /\ w_at = "call" /\ w_at' = "look" /\ w_i' = w_i + 1
    /\ h_early' = (h_early \/ (w_timer[w_i].used /\ w_timer[w_i].fn /\ w_time < h_armed[p]))
    /\ UNCHANGED <<w_time, w_now, timerVs, clockVs, evtVs>>

(* --------------------------------- The clock ------------------------------- *)
\* An unsigned difference: one taken backwards is enormous, and clamped like any other.
Clamped(sub) == IF sub < 0 \/ sub >= US_PER_TICK THEN US_PER_TICK - 1 ELSE sub

\* The (tick, cycle) pair is taken again whenever the tick has moved.
osi_impl_time_us(cc) ==
    LET moved == ~w_have \/ timer_ticks # w_tick
        from  == IF moved THEN cc ELSE w_cc
        us    == timer_ticks * US_PER_TICK + Clamped(cc - from)
    IN
    /\ w_have' = TRUE /\ w_tick' = timer_ticks /\ w_cc' = from
    /\ h_last' = us /\ h_back' = (h_back \/ us < h_last)

\* A task samples CCOUNT, and enters the critical section later; the handler
\* runs to its end.
MayRun(c) == \A o \in ClockReaders : o = "isr" /\ o # c => w_read[o] = -1

SamplesCcount(c) ==
    /\ MayRun(c) /\ w_read[c] = -1 /\ w_read' = [w_read EXCEPT ![c] = w_time]
    /\ UNCHANGED <<w_time, w_have, w_tick, w_cc, h_last, h_back, timerVs, svcVs, evtVs>>

osi_impl_time_us_lo(c) ==
    /\ MayRun(c) /\ w_read[c] # -1 /\ osi_impl_time_us(w_read[c]) /\ w_read' = [w_read EXCEPT ![c] = -1]
    /\ UNCHANGED <<w_time, timerVs, svcVs, evtVs>>

(* --------------------------------- The events ------------------------------ *)
\* An event with the length of the name it is about. Past the log's end it is counted only.
osi_impl_event_post(id, len) ==
    /\ w_posts < MaxPosts /\ w_posts' = w_posts + 1
    /\ w_log' = IF w_posts < OSI_EVT_LOG THEN Append(w_log, [id |-> id, len |-> len]) ELSE w_log
    /\ UNCHANGED <<w_time, w_asked, w_said, timerVs, svcVs, clockVs>>

\* wifi_join_ssid, wifi_try_connect: the length the events will be compared with.
Joins(len) ==
    /\ w_asked' = len
    /\ UNCHANGED <<w_time, w_log, w_posts, w_said, timerVs, svcVs, clockVs>>

\* What the report says of each entry: an outcome only if the length agrees.
Outcome(e) == IF e.id = "scan" THEN "posted" ELSE IF e.len = w_asked THEN e.id ELSE "layout?"

wifi_event_report ==
    /\ w_said' = [k \in 1 .. Len(w_log) |-> Outcome(w_log[k])]
    /\ UNCHANGED <<w_time, w_log, w_posts, w_asked, timerVs, svcVs, clockVs>>

\* The timers and their service task; the clock; the events. Only time is common to them.
OsiTimerNext ==
    \/ TimePasses
    \/ \E p \in Ets : osi_impl_timer_setfn(p) \/ osi_impl_timer_disarm(p) \/ osi_impl_timer_done(p)
    \/ (\E p \in Ets, us \in Asks, again \in BOOLEAN : arm_ticks(p, us, again))
    \/ osi_service_task \/ osi_impl_timer_service \/ service_marks \/ service_calls

OsiTimeNext ==
    \/ TimePasses
    \/ \E c \in ClockReaders : SamplesCcount(c) \/ osi_impl_time_us_lo(c)
    \/ (\E id \in {"scan", "connected", "disconnected"}, len \in 1 .. 2 : osi_impl_event_post(id, len))
    \/ (\E len \in 1 .. 2 : Joins(len)) \/ wifi_event_report

OsiTimerSpec == OsiClockInit /\ [][OsiTimerNext]_osiClockVars
OsiTimeSpec == OsiClockInit /\ [][OsiTimeNext]_osiClockVars

(* -------------------------------- Properties ------------------------------- *)
\* wifi_osi_impl.c:2120, "Monotonic across a tick boundary": no reading is below
\* an earlier one, wherever the reader is preempted between the cycle counter
\* and the tick.
TimeIsMonotonic == ~h_back

\* The driver's disarm reaches the slot its arm took: a timer the driver has
\* disarmed or ended holds no armed slot, whichever of setfn and arm came first
\* and whatever the pool had left (wifi_osi_impl.c:797).
DisarmReaches == \A p \in Ets : ~h_on[p] => \A i \in timer_of(p) : ~w_timer[i].armed

\* The driver's clock and timers (wifi_osi_impl.c): a disarmed timer holds no
\* armed slot, and one reader's time never runs back.
TimersAreTrue == DisarmReaches /\ TimeIsMonotonic

(* What the code does not keep: the README tells each counterexample.         *)
\* wifi_osi_impl.c:855, "Microsecond arming, rounded up to a tick": a callback
\* does not run before the time the driver asked for has passed.
NotEarly == ~h_early
=============================================================================
