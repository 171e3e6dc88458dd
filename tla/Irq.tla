-------------------------------- MODULE Irq ---------------------------------
(* Interrupt lines (intr.c) and the two drivers that ask for them: the WiFi     *)
(* driver through wifi_osi_impl.c, the Bluetooth controller through bt_host.c.  *)
(* A peripheral's line is level-triggered: it asserts until its handler has     *)
(* served it, and while an enabled line asserts no task runs.                    *)
EXTENDS Integers, FiniteSets

\* Who programs the lines: driver code of each radio, one call at a time.
IrqTasks == {"wifi", "bluetooth"}

\* The lines the code tells apart: the scheduler's tick (15), the WiFi MAC's (27, which
\* the driver knows as 0), and Bluetooth's, from the matrix or its own.
Lines     == {"tick", "mac", "bt"}
BlobLines == {"tick", "zero"}   \* as the WiFi driver numbers them

VARIABLES
    i_handler,          \* g_handler: none, tick, blob, slot, xt: whose trampoline
    i_fn,               \* lines with a WiFi handler recorded in g_blob_isr
    i_slot, i_xt,       \* lines of Bluetooth's slots in g_intr; lines in g_xt
    i_enable,           \* INTENABLE
    i_routed,           \* lines some peripheral source is mapped to
    i_assert,           \* INTERRUPT
    i_write             \* the read half of an update of INTENABLE, and what it will write

irqVars == <<i_handler, i_fn, i_slot, i_xt, i_enable, i_routed, i_assert, i_write>>
tableVars == <<i_handler, i_fn, i_slot, i_xt, i_routed>>

NoWrite == [on |-> FALSE, mask |-> {}]

IrqInit ==
    /\ i_handler = [l \in Lines |-> IF l = "tick" THEN "tick" ELSE "none"]
    /\ i_fn = {} /\ i_slot = {} /\ i_xt = {}
    /\ i_enable = {"tick"} /\ i_routed = {"tick"} /\ i_assert = {}
    /\ i_write = [t \in IrqTasks |-> NoWrite]

Pending == i_assert \cap i_enable

\* Tasks run only while no line wants the processor, and each finishes the update of
\* INTENABLE it is in before it does anything else.
Runs(t) == Pending = {} /\ i_write[t] = NoWrite

\* xt_enable_interrupt, xt_disable_interrupt: a read, and a write of what was read.
Update(t, value) == i_write' = [i_write EXCEPT ![t] = [on |-> TRUE, mask |-> value]]
xt_set_intenable(t) ==
    /\ Pending = {} /\ i_write[t].on
    /\ i_enable' = i_write[t].mask /\ i_write' = [i_write EXCEPT ![t] = NoWrite]
    /\ UNCHANGED <<tableVars, i_assert>>

-----------------------------------------------------------------------------
(* The WiFi driver's lines *)

blob_line_map(n) == IF n = "zero" THEN "mac" ELSE n

\* Recorded, not installed.
osi_impl_set_isr(n) ==
    /\ Runs("wifi") /\ i_fn' = i_fn \cup {blob_line_map(n)}
    /\ UNCHANGED <<i_handler, i_slot, i_xt, i_enable, i_routed, i_assert, i_write>>

\* intr_route: the handler, the matrix, the enable.
osi_impl_set_intr(n) ==
    LET l == blob_line_map(n) IN
    /\ Runs("wifi") /\ l # "tick"
    /\ i_handler' = [i_handler EXCEPT ![l] = "blob"] /\ i_routed' = i_routed \cup {l}
    /\ Update("wifi", i_enable \cup {l})
    /\ UNCHANGED <<i_fn, i_slot, i_xt, i_enable, i_assert>>

osi_impl_ints_on(n) ==
    /\ Runs("wifi") /\ Update("wifi", i_enable \cup {blob_line_map(n)})
    /\ UNCHANGED <<tableVars, i_enable, i_assert>>

\* Mutant: the driver's mask is taken as it comes.
Masked_any(n) == {blob_line_map(n)}

\* The tick's line is not the driver's to touch.
Masked(n) == {blob_line_map(n)} \ {"tick"}

osi_impl_ints_off(n) ==
    /\ Runs("wifi") /\ Update("wifi", i_enable \ Masked(n))
    /\ UNCHANGED <<tableVars, i_enable, i_assert>>

-----------------------------------------------------------------------------
(* The Bluetooth controller's lines *)

\* A matrix source has one line to go to; an internal one its own.
bt_host_intr_alloc ==
    /\ Runs("bluetooth") /\ i_slot = {}
    /\ i_slot' = {"bt"} /\ i_handler' = [i_handler EXCEPT !["bt"] = "slot"]
    /\ i_routed' = i_routed \cup {"bt"} /\ Update("bluetooth", i_enable \cup {"bt"})
    /\ UNCHANGED <<i_fn, i_xt, i_enable, i_assert>>

\* The slot only: the line stays enabled and its trampoline installed.
bt_host_intr_free ==
    /\ Runs("bluetooth") /\ i_slot # {} /\ i_slot' = {}
    /\ UNCHANGED <<i_handler, i_fn, i_xt, i_enable, i_routed, i_assert, i_write>>

bt_host_set_handler ==
    /\ Runs("bluetooth")
    /\ i_xt' = {"bt"} /\ i_handler' = [i_handler EXCEPT !["bt"] = "xt"]
    /\ UNCHANGED <<i_fn, i_slot, i_enable, i_routed, i_assert, i_write>>

\* Only the lines Bluetooth may have; turned off as asked, which is what it turned on.
intr_enable_mask(ls) ==
    /\ Runs("bluetooth") /\ Update("bluetooth", i_enable \cup (ls \cap {"bt"}))
    /\ UNCHANGED <<tableVars, i_enable, i_assert>>
intr_disable_mask(ls) ==
    /\ Runs("bluetooth") /\ ls \subseteq {"bt"} /\ Update("bluetooth", i_enable \ ls)
    /\ UNCHANGED <<tableVars, i_enable, i_assert>>

-----------------------------------------------------------------------------
(* Dispatch *)

Assert(l) ==
    /\ l \in i_routed /\ l \notin i_assert /\ i_assert' = i_assert \cup {l}
    /\ UNCHANGED <<tableVars, i_enable, i_write>>

\* Whether the line's trampoline has a handler behind it to quiet the peripheral.
blob_isr_run(l) ==
    CASE i_handler[l] = "blob" -> l \in i_fn
      [] i_handler[l] = "slot" -> l \in i_slot
      [] i_handler[l] = "xt"   -> l \in i_xt
      [] OTHER                 -> i_handler[l] = "tick"

Unhandled(l) == i_handler[l] = "none"

\* A line with no handler at all is masked; one whose trampoline does nothing is left.
\* The tick first: no other line is served while it is pending.
intr_dispatch(l) ==
    /\ l \in Pending /\ ("tick" \in Pending => l = "tick")
    /\ i_assert' = IF blob_isr_run(l) THEN i_assert \ {l} ELSE i_assert
    /\ i_enable' = IF Unhandled(l) THEN i_enable \ {l} ELSE i_enable
    /\ UNCHANGED <<tableVars, i_write>>

IrqNext ==
    \/ \E l \in Lines : Assert(l) \/ intr_dispatch(l)
    \/ \E t \in IrqTasks : xt_set_intenable(t)
    \/ \E n \in BlobLines : \/ osi_impl_set_isr(n) \/ osi_impl_set_intr(n)
                            \/ osi_impl_ints_on(n) \/ osi_impl_ints_off(n)
    \/ bt_host_intr_alloc \/ bt_host_intr_free \/ bt_host_set_handler
    \/ \E ls \in SUBSET {"tick", "bt"} : intr_enable_mask(ls) \/ intr_disable_mask(ls)

IrqSpec == IrqInit /\ [][IrqNext]_irqVars

-----------------------------------------------------------------------------
\* Whatever the drivers program, in whatever order and half-way through each other's
\* updates, the tick stays enabled and its own (step 272: a mask "with bit 15 set reaches
\* xt_disable_interrupt(15) and stops the tick").
TickLineIsKept ==
    /\ "tick" \in i_enable /\ i_handler["tick"] = "tick"
    /\ \A t \in IrqTasks : i_write[t].on => "tick" \in i_write[t].mask

(* What the code does not keep: the README tells each counterexample.         *)
\* An asserting line is served or masked, so tasks run again (set_isr: "the blob may call
\* this before or after _set_intr, and the trampoline reads the record when it fires, so
\* either order works").
EitherOrderWorks == \A l \in Pending : i_handler[l] = "blob" => l \in i_fn
=============================================================================
