-------------------------------- MODULE Crash -------------------------------
(* How the board stops and what the next boot says of it: the boot (kmain.c),    *)
(* the panic path (panic.c), the fault record (store.c), the hang detector and   *)
(* the breadcrumb in RTC memory (watchdog.c), and the scheduler's report to it   *)
(* (task.c). Time is in ticks.                                                   *)
EXTENDS Integers

CONSTANTS
    LIVENESS_WINDOW,    \* LIVENESS_WINDOW_TICKS
    WDT_TICKS,          \* watchdog_arm(3000), in ticks
    BLOB_PIN_MAX,       \* BLOB_PIN_MAX_TICKS
    MaxFaults           \* bound: faults and power cuts

ASSUME CrashAssumption ==
    /\ LIVENESS_WINDOW \in Nat \ {0} /\ WDT_TICKS \in Nat /\ WDT_TICKS > 2 * LIVENESS_WINDOW
    /\ BLOB_PIN_MAX \in Nat /\ MaxFaults \in Nat

Booting == {"early", "loaded", "tasks"}
InPanic == {"record", "report", "screen"}
Hung    == {"monopoly", "wedged", "dead"}
Modes   == Hung \cup {"alive", "pinned", "none"}

VARIABLES
    x_stage,            \* where the boot, the system or the panic path is
    x_mode,             \* what the running tasks do
    x_depth,            \* g_panic_depth
    x_rec, x_flash,     \* g_rec and the record in flash: [good, fault]
    x_rc,               \* g_record_rc
    x_wdt,              \* the detector's time left, or -1
    x_ticks, x_seen, x_pin,     \* watchdog_liveness's ticks and seen; g_blob_pin_ticks
    x_crumb, x_prev,    \* RTC memory holds a breadcrumb; g_bc_had_prev
    x_told,             \* what this boot printed of the last one
    h_faults,           \* history: faults so far, and power cuts
    h_now,              \* history: the fault being handled
    h_promised, h_early,        \* history: the fault recorded for the next boot; it came early
    h_bitten,           \* history: the detector ended the last session
    h_hung              \* history: ticks since the system hung

recVs   == <<x_rec, x_flash, x_rc>>
wdtVs   == <<x_wdt, x_ticks, x_seen, x_pin>>
crumbVs == <<x_crumb, x_prev, x_told>>
histVs  == <<h_faults, h_now, h_promised, h_early, h_bitten, h_hung>>
crashVars == <<x_stage, x_mode, x_depth, recVs, wdtVs, crumbVs, histVs>>

Zeros == [good |-> FALSE, fault |-> 0]      \* g_rec before store_load: no magic
Silent == [fault |-> 0, tick |-> FALSE]
Blank == [good |-> FALSE, fault |-> 0]      \* an erased sector

\* The state a reset leaves, and watchdog_breadcrumb_init, watchdog_disable_all.
Reset(flash, crumb) ==
    /\ x_stage' = "early" /\ x_mode' = "none" /\ x_depth' = 0
    /\ x_rec' = Zeros /\ x_flash' = flash /\ x_rc' = "none"
    /\ x_wdt' = -1 /\ x_ticks' = 0 /\ x_seen' = FALSE /\ x_pin' = 0
    /\ x_prev' = crumb /\ x_crumb' = TRUE /\ x_told' = Silent /\ h_hung' = 0

CrashInit ==
    /\ x_stage = "early" /\ x_mode = "none" /\ x_depth = 0
    /\ x_rec = Zeros /\ x_flash \in {Blank, [good |-> TRUE, fault |-> 0]} /\ x_rc = "none"
    /\ x_wdt = -1 /\ x_ticks = 0 /\ x_seen = FALSE /\ x_pin = 0
    /\ x_prev = FALSE /\ x_crumb = TRUE /\ x_told = Silent
    /\ h_faults = 0 /\ h_now = 0 /\ h_promised = 0 /\ h_early = FALSE /\ h_bitten = FALSE /\ h_hung = 0

\* The supply fails and comes back: RTC memory is lost.
PowerCut ==
    /\ h_faults < MaxFaults /\ h_faults' = h_faults + 1
    /\ Reset(x_flash, FALSE) /\ h_bitten' = FALSE /\ h_now' = 0
    /\ UNCHANGED <<h_promised, h_early>>

-----------------------------------------------------------------------------
(* The boot. *)

\* store_save: the sector is erased and written, or one of the two fails.
store_save(rec) ==
    \/ x_flash' = rec /\ x_rc' = "ok"
    \/ x_flash' \in {x_flash, Blank} /\ x_rc' = "failed"

\* store_load, store_count_boot, store_save.
store_load ==
    /\ x_stage = "early" /\ x_stage' = "loaded"
    /\ x_rec' = IF x_flash.good THEN x_flash ELSE [good |-> TRUE, fault |-> 0]
    /\ store_save(x_rec')
    /\ h_promised' = IF x_rc' = "ok" THEN h_promised ELSE 0
    /\ UNCHANGED <<x_mode, x_depth, wdtVs, crumbVs, h_faults, h_now, h_early, h_bitten, h_hung>>

\* LAST TICK and LAST FAULT.
kmain_reports ==
    /\ x_stage = "loaded" /\ x_stage' = "tasks"
    /\ x_told' = [fault |-> x_rec.fault, tick |-> x_rec.fault # 0 /\ x_prev]
    /\ UNCHANGED <<x_mode, x_depth, recVs, wdtVs, x_crumb, x_prev, histVs>>

\* The tasks, watchdog_arm, timer_start.
kmain_starts ==
    /\ x_stage = "tasks" /\ x_stage' = "running" /\ x_mode' = "alive"
    /\ x_wdt' = WDT_TICKS
    /\ UNCHANGED <<x_depth, recVs, x_ticks, x_seen, x_pin, crumbVs, histVs>>

-----------------------------------------------------------------------------
(* The panic path. *)

\* Mutant: the handler is entered again as if for the first time.
Nested_never(depth) == FALSE

Nested(depth) == depth > 1

\* panic_prologue: interrupts off; a second entry goes no further.
panic_prologue ==
    /\ h_faults < MaxFaults /\ h_faults' = h_faults + 1
    /\ x_depth' = x_depth + 1 /\ x_mode' = "none" /\ h_hung' = 0
    /\ x_stage' = IF Nested(x_depth') THEN "nested" ELSE "record"
    /\ h_now' = h_faults' /\ h_early' = (IF x_depth = 0 THEN x_stage = "early" ELSE h_early)

\* kernel_panic, from a vector; kernel_panic_msg, from a broken guard, a full task
\* table, the shell.
kernel_panic ==
    /\ x_stage \in Booting \cup {"running"} /\ panic_prologue
    /\ h_promised' = 0 /\ h_bitten' = FALSE
    /\ UNCHANGED <<recVs, wdtVs, crumbVs>>

\* A fault in the report, which reads whatever the registers point at, or in the panel's driver.
Faults_again ==
    /\ x_stage \in {"report", "screen"} /\ panic_prologue
    /\ UNCHANGED <<recVs, wdtVs, crumbVs, h_promised, h_bitten>>

store_record_fault ==
    /\ x_stage = "record" /\ x_stage' = "report"
    /\ x_rec' = [x_rec EXCEPT !.fault = h_now]
    /\ store_save(x_rec')
    /\ h_promised' = IF x_rc' = "ok" /\ h_promised = 0 THEN h_now ELSE h_promised
    /\ UNCHANGED <<x_mode, x_depth, wdtVs, crumbVs, h_faults, h_now, h_early, h_bitten, h_hung>>

\* halt_forever: the detector is disarmed; the record's result is printed.
halt_forever ==
    /\ x_stage = "report" /\ x_stage' = "screen" /\ x_wdt' = -1
    /\ UNCHANGED <<x_mode, x_depth, recVs, x_ticks, x_seen, x_pin, crumbVs, histVs>>
panic_screen ==
    /\ x_stage = "screen" /\ x_stage' = "halted"
    /\ UNCHANGED <<x_mode, x_depth, recVs, wdtVs, crumbVs, histVs>>
panic_nested ==
    /\ x_stage = "nested" /\ x_stage' = "halted" /\ x_wdt' = -1
    /\ UNCHANGED <<x_mode, x_depth, recVs, x_ticks, x_seen, x_pin, crumbVs, histVs>>

-----------------------------------------------------------------------------
(* The tasks, and the detector. *)

Becomes(from, to) ==
    /\ x_stage = "running" /\ x_mode = from /\ x_mode' = to
    /\ UNCHANGED <<x_stage, x_depth, recVs, x_wdt, x_ticks, x_seen, crumbVs, histVs>>
PinStarts == Becomes("alive", "pinned") /\ x_pin' = 0       \* a new pin, a new budget
PinEnds   == Becomes("pinned", "alive") /\ UNCHANGED x_pin
Wedges    == Becomes("pinned", "wedged") /\ UNCHANGED x_pin  \* the call never returns
Hogs      == Becomes("alive", "monopoly") /\ UNCHANGED x_pin \* one task keeps the processor
Dies      == Becomes("alive", "dead") /\ UNCHANGED x_pin     \* no tick any more

Feeds(seen) == seen

\* task_schedule's part: a pinned task is kept, and the detector fed, up to a bound;
\* then watchdog_liveness. The timer itself counts in any case.
watchdog_liveness ==
    \E switched \in (IF x_mode = "alive" THEN BOOLEAN ELSE {FALSE}) :
        LET pinned == x_mode \in {"pinned", "wedged"}
            pin    == IF pinned THEN x_pin + 1 ELSE 0
            seen   == x_seen \/ switched
            closes == x_ticks + 1 >= LIVENESS_WINDOW
            fed    == (pinned /\ pin < BLOB_PIN_MAX) \/ (closes /\ Feeds(seen))
        IN  /\ x_pin' = IF pin > BLOB_PIN_MAX THEN BLOB_PIN_MAX ELSE pin
            /\ x_ticks' = IF closes THEN 0 ELSE x_ticks + 1
            /\ x_seen' = IF closes THEN FALSE ELSE seen
            /\ x_wdt' = IF fed THEN WDT_TICKS ELSE x_wdt - 1

MaxHung == WDT_TICKS + (IF BLOB_PIN_MAX > LIVENESS_WINDOW THEN BLOB_PIN_MAX ELSE LIVENESS_WINDOW)

TickPasses ==
    /\ x_wdt # 0 /\ x_stage \in {"running"} \cup InPanic \cup {"nested"}
    /\ IF x_stage = "running" /\ x_mode # "dead"
       THEN watchdog_liveness
       ELSE x_wdt' = (IF x_wdt > 0 THEN x_wdt - 1 ELSE x_wdt) /\ UNCHANGED <<x_ticks, x_seen, x_pin>>
    /\ h_hung' = IF x_mode \in Hung /\ h_hung <= MaxHung THEN h_hung + 1 ELSE h_hung
    /\ UNCHANGED <<x_stage, x_mode, x_depth, recVs, crumbVs, h_faults, h_now, h_promised, h_early, h_bitten>>

\* The detector resets the board; in the middle of a save the sector is left erased.
Bites ==
    /\ x_wdt = 0
    /\ \E flash \in (IF x_stage = "record" THEN {x_flash, Blank} ELSE {x_flash}) : Reset(flash, x_crumb)
    /\ h_bitten' = (x_depth = 0) /\ h_now' = 0
    /\ UNCHANGED <<h_faults, h_promised, h_early>>

CrashNext ==
    \/ PowerCut \/ store_load \/ kmain_reports \/ kmain_starts
    \/ kernel_panic \/ Faults_again \/ store_record_fault \/ halt_forever \/ panic_screen \/ panic_nested
    \/ PinStarts \/ PinEnds \/ Wedges \/ Hogs \/ Dies
    \/ TickPasses \/ Bites

CrashSpec == CrashInit /\ [][CrashNext]_crashVars

-----------------------------------------------------------------------------
\* A fault that was recorded is the one the next boot reports, whatever faults again in
\* the panic path and wherever the supply or the detector cuts it short (panic.c: "the
\* FIRST fault's record is preserved"), if the record had been loaded when it came.
FirstFaultIsReported ==
    x_stage = "tasks" /\ h_promised # 0 /\ ~h_early => x_told.fault = h_promised

\* A task that keeps the processor, a vendor call that never returns and a tick that has
\* stopped end in a reset, within the detector's time and the bound on a pinned call
\* (watchdog.h, task.c).
HangIsCaught == h_hung <= MaxHung

\* A crash is reported as its first fault, and a machine that stopped switching
\* is reset (panic.c, watchdog in kmain.c).
FaultsSurface == FirstFaultIsReported /\ HangIsCaught

(* What the code does not keep: the README tells each counterexample.         *)
\* "recorded : yes, the next boot will report this" (panic.c): also when the fault came
\* before store_load.
RecordedIsReported ==
    x_stage = "tasks" /\ h_promised # 0 => x_told.fault = h_promised

\* "A watchdog reset leaves no fault record, so this is the only thing that says what the
\* board was doing" (kmain.c): the boot after such a reset prints the last tick.
HangIsReported == x_stage = "tasks" /\ h_bitten => x_told.tick
=============================================================================
