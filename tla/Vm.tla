--------------------------------- MODULE Vm ---------------------------------
(* One program in the virtual machine (vm.c) and the checks its arguments pass   *)
(* through (vmarg.c). The arena holds any bytes, so any instruction may stand at *)
(* any place and any register hold any word: the register file is a value that   *)
(* is computed, saved and restored whole. Words wrap.                            *)
EXTENDS Integers, Sequences, FiniteSets

CONSTANTS
    WordRange,          \* values of a word: 2 ^ 32
    VmSize,             \* the arena's bytes
    VM_INSN_BYTES,      \* also the alignment of a word
    VM_CALL_DEPTH,
    VM_STR_MAX,         \* longest text copied out of the arena, with its end
    PanelW, PanelH,     \* DISP_W, DISP_H
    ViewX, ViewW        \* the program's columns of the panel; rows are treated alike

Words  == 0..(WordRange - 1)
Wrap(n) == n % WordRange
Events == {"tick", "key"}       \* in the order they are looked for
NOCONTEXT == <<>>

ASSUME VmAssumption ==
    /\ WordRange \in Nat /\ {VmSize, VM_INSN_BYTES, PanelW, PanelH, ViewX, ViewW} \subseteq Words
    /\ VM_INSN_BYTES > 0 /\ VM_CALL_DEPTH \in Nat \ {0} /\ VM_STR_MAX \in Nat \ {0, 1}
    /\ ViewX + ViewW <= PanelW

VARIABLES
    v_status,           \* running, halted, faulted
    v_pc, v_file, v_call,                   \* pc; reg[]; call[] up to call_sp
    v_in_handler, v_handler_sp, v_saved,    \* saved_reg[]
    v_handler, v_pending,                   \* evt_handler[], 0 for none; evt_pending
    h_context,          \* history: what the handler interrupted
    h_outside           \* history: bytes and columns reached that are not the program's

machine == <<v_status, v_pc, v_file, v_call, v_in_handler, v_handler_sp, v_saved, h_context>>
vmVars  == <<machine, v_handler, v_pending, h_outside>>

\* vm_init in a slot used for the first time.
VmInit ==
    /\ v_status = "running" /\ v_pc = 0 /\ v_file = 0 /\ v_call = <<>>
    /\ v_in_handler = FALSE /\ v_handler_sp = 0 /\ v_saved = 0 /\ h_context = NOCONTEXT
    /\ v_handler = [e \in Events |-> 0] /\ v_pending = {}
    /\ h_outside = {}

-----------------------------------------------------------------------------
(* Bounds. *)

\* Mutant: the sum is compared, and wraps.
vm_in_bounds_sum(off, len) == Wrap(off + len) <= VmSize

vm_in_bounds(off, len) == off <= VmSize /\ len <= VmSize - off

vmarg_span(off, len, align) == off % align = 0 /\ vm_in_bounds(off, len)
vmarg_items(off, count, elem, max, align) ==
    /\ count <= max /\ count <= (WordRange - 1) \div elem
    /\ vmarg_span(off, Wrap(count * elem), align)

\* Bytes of the arena an access of len bytes at off reaches, and those that are outside.
Reach(off, len)  == {Wrap(off + i) : i \in 0..(len - 1)}
Outside(touched) == touched \ (0..(VmSize - 1))

\* Columns of the panel, and those outside the viewport.
Columns(x, w)  == {<<"column", Wrap(x + i)>> : i \in 0..(w - 1)}
OffView(drawn) == drawn \ Columns(ViewX, ViewW)

-----------------------------------------------------------------------------
(* vm_run: one instruction. *)

Files == {0, 1}
Aligned == {n \in Words : n % VM_INSN_BYTES = 0}
Next4 == Wrap(v_pc + VM_INSN_BYTES)

Fetches == v_status = "running" /\ vm_in_bounds(v_pc, VM_INSN_BYTES)
Reaches(bad) == h_outside' = h_outside \cup bad

vm_raise ==
    /\ v_status' = "faulted"
    /\ UNCHANGED <<v_pc, v_file, v_call, v_in_handler, v_handler_sp, v_saved, h_context>>

\* The instruction ends: any result in the registers, the next one after it.
Advances(file) ==
    /\ v_pc' = Next4 /\ v_file' = file
    /\ UNCHANGED <<v_status, v_call, v_in_handler, v_handler_sp, v_saved, h_context>>

BadPc ==
    /\ v_status = "running" /\ ~vm_in_bounds(v_pc, VM_INSN_BYTES)
    /\ vm_raise /\ UNCHANGED <<v_handler, v_pending, h_outside>>

\* Arithmetic, moves, comparisons, and the system calls that only answer; or a bad
\* register, a bad opcode, a division by zero, a bad system call.
Computes ==
    /\ Fetches
    /\ vm_raise \/ \E f \in Files : Advances(f)
    /\ UNCHANGED <<v_handler, v_pending, h_outside>>

vm_halt ==
    /\ Fetches /\ v_status' = "halted"
    /\ UNCHANGED <<v_pc, v_file, v_call, v_in_handler, v_handler_sp, v_saved, h_context>>
    /\ UNCHANGED <<v_handler, v_pending, h_outside>>

Jumps ==
    /\ Fetches /\ v_pc' \in Aligned
    /\ UNCHANGED <<v_status, v_file, v_call, v_in_handler, v_handler_sp, v_saved, h_context>>
    /\ UNCHANGED <<v_handler, v_pending, h_outside>>

vm_call ==
    /\ Fetches
    /\ IF Len(v_call) >= VM_CALL_DEPTH THEN vm_raise
       ELSE /\ v_call' = Append(v_call, Next4) /\ v_pc' \in Aligned
            /\ UNCHANGED <<v_status, v_file, v_in_handler, v_handler_sp, v_saved, h_context>>
    /\ UNCHANGED <<v_handler, v_pending, h_outside>>

\* Mutant: any return inside a handler ends it.
LeavesHandler_any(sp) == v_in_handler

LeavesHandler(sp) == v_in_handler /\ sp = v_handler_sp

vm_ret ==
    LET sp == Len(v_call) - 1 IN
    /\ Fetches
    /\ IF v_call = <<>> THEN vm_raise
       ELSE /\ v_pc' = v_call[Len(v_call)]
            /\ v_call' = SubSeq(v_call, 1, sp)
            /\ v_file' = IF LeavesHandler(sp) THEN v_saved ELSE v_file
            /\ v_in_handler' = (v_in_handler /\ ~LeavesHandler(sp))
            /\ h_context' = IF LeavesHandler(sp) THEN NOCONTEXT ELSE h_context
            /\ UNCHANGED <<v_status, v_handler_sp, v_saved>>
    /\ UNCHANGED <<v_handler, v_pending, h_outside>>

\* A load or a store of one byte or of an aligned word, the address a sum that wraps.
LoadOrStore ==
    /\ Fetches
    /\ \E off \in Words, f \in Files, len \in {1, VM_INSN_BYTES} :
        IF vm_in_bounds(off, len) /\ off % len = 0
        THEN Advances(f) /\ Reaches(Outside(Reach(off, len)))
        ELSE vm_raise /\ UNCHANGED h_outside
    /\ UNCHANGED <<v_handler, v_pending>>

-----------------------------------------------------------------------------
(* do_syscall: the calls that reach memory or the panel. *)

\* A string is read a byte at a time until its end, wherever that is; each byte is
\* checked. The copy stops at its limit, printing at the arena's size.
StringRead(off, n) == \A i \in 0..(n - 1) : vm_in_bounds(Wrap(off + i), 1)
vm_puts ==
    /\ Fetches
    /\ \E off \in Words, n \in 1..VmSize :
        IF StringRead(off, n)
        THEN (vm_raise \/ Advances(v_file)) /\ Reaches(Outside(Reach(off, n)))
        ELSE vm_raise /\ UNCHANGED h_outside
    /\ UNCHANGED <<v_handler, v_pending>>

\* Clipped to the viewport; what the clip missed is counted and not drawn.
vp_fill(x, w) ==
    LET cw == IF w > ViewW - x THEN ViewW - x ELSE w
        ax == Wrap(ViewX + x)
    IN  IF x >= ViewW \/ cw = 0 \/ ax < ViewX \/ ax + cw > ViewX + ViewW THEN {} ELSE Columns(ax, cw)

\* Whole glyphs, one column wide at scale 1.
vp_text(x, len, scale) ==
    LET room == (ViewW - x) \div scale
        n    == IF len < room THEN len ELSE room
    IN  IF x >= ViewW THEN {} ELSE Columns(Wrap(ViewX + x), n * scale)

\* With the panel locked by another task nothing is drawn (Computes).
vm_fill ==
    /\ Fetches /\ Advances(v_file)
    /\ \E x \in Words, w \in Words : Reaches(OffView(vp_fill(x, w)))
    /\ UNCHANGED <<v_handler, v_pending>>
vm_text ==
    /\ Fetches
    /\ \E off \in Words, n \in 1..(VM_STR_MAX - 1), x \in Words, scale \in 1..2 :
        IF StringRead(off, n)
        THEN /\ Advances(v_file)
             /\ Reaches(Outside(Reach(off, n)) \cup OffView(vp_text(x, n, scale)))
        ELSE vm_raise /\ UNCHANGED h_outside
    /\ UNCHANGED <<v_handler, v_pending>>

\* Two bytes a pixel, the rows w apart in the arena however narrow the part drawn.
BlitBytes(off, w, h, cw) ==
    UNION {Reach(Wrap(off + 2 * (r * w + c)), 2) : r \in 0..(h - 1), c \in 0..(cw - 1)}

vm_blit ==
    /\ Fetches
    /\ \E off \in Words, x \in Words, w \in 1..PanelW, h \in 1..PanelH, f \in Files :
        LET cw == IF w > ViewW - x THEN ViewW - x ELSE w
        IN  IF vmarg_items(off, w * h, 2, PanelW * PanelH, 2)
            THEN /\ Advances(f)
                 /\ Reaches(IF x < ViewW THEN Outside(BlitBytes(off, w, h, cw)) \cup OffView(Columns(Wrap(ViewX + x), cw)) ELSE {})
            ELSE vm_raise /\ UNCHANGED h_outside
    /\ UNCHANGED <<v_handler, v_pending>>

\* A touch is given only inside the viewport, relative to it; the difference wraps.
vm_touch ==
    /\ Fetches /\ \E f \in Files : Advances(f)
    /\ \E x \in 0..(PanelW - 1) :
        Reaches(IF x >= ViewX /\ Wrap(x - ViewX) < ViewW THEN OffView(Columns(x, 1)) ELSE {})
    /\ UNCHANGED <<v_handler, v_pending>>

\* A device transfer: checked and copied through the bounce buffer, or refused.
vm_device ==
    /\ Fetches
    /\ \E off \in Words, len \in 1..VM_STR_MAX :
        IF vmarg_span(off, len, 1) THEN Advances(v_file) /\ Reaches(Outside(Reach(off, len)))
                                   ELSE vm_raise /\ UNCHANGED h_outside
    /\ UNCHANGED <<v_handler, v_pending>>

\* Mail in or out: a bad buffer is refused, and is no fault.
vm_send_recv ==
    /\ Fetches /\ \E f \in Files : Advances(f)
    /\ \E off \in Words, len \in 1..VmSize :
        Reaches(IF vm_in_bounds(off, len) THEN Outside(Reach(off, len)) ELSE {})
    /\ UNCHANGED <<v_handler, v_pending>>

-----------------------------------------------------------------------------
(* Events, between two quanta. *)

\* VM_SYS_EVENT: offset 0 unregisters and forgets what is pending.
vm_sys_event(e) ==
    /\ Fetches
    /\ \E off \in Words :
        IF off = 0
        THEN /\ v_handler' = [v_handler EXCEPT ![e] = 0] /\ v_pending' = v_pending \ {e}
             /\ \E f \in Files : Advances(f)
        ELSE IF vm_in_bounds(off, VM_INSN_BYTES) /\ off % VM_INSN_BYTES = 0
             THEN /\ v_handler' = [v_handler EXCEPT ![e] = off] /\ UNCHANGED v_pending
                  /\ \E f \in Files : Advances(f)
             ELSE vm_raise /\ UNCHANGED <<v_handler, v_pending>>
    /\ UNCHANGED h_outside

\* A tick comes due, a key was typed: only what has a handler is taken.
vm_event_poll(e) ==
    /\ v_status = "running" /\ v_handler[e] # 0 /\ v_pending' = v_pending \cup {e}
    /\ UNCHANGED <<machine, v_handler, h_outside>>

\* The first pending event is delivered as a call the program did not make.
vm_event_dispatch ==
    LET e == IF "tick" \in v_pending THEN "tick" ELSE "key" IN
    /\ v_status = "running" /\ v_pending # {} /\ ~v_in_handler /\ Len(v_call) < VM_CALL_DEPTH
    /\ v_handler[e] # 0
    /\ v_saved' = v_file /\ v_handler_sp' = Len(v_call) /\ v_call' = Append(v_call, v_pc)
    /\ v_pc' = v_handler[e] /\ v_file' \in Files /\ v_in_handler' = TRUE
    /\ v_pending' = v_pending \ {e}
    /\ h_context' = <<v_pc, v_call, v_file>>
    /\ UNCHANGED <<v_status, v_handler, h_outside>>

VmNext ==
    \/ BadPc \/ Computes \/ vm_halt \/ Jumps \/ vm_call \/ vm_ret \/ LoadOrStore
    \/ vm_puts \/ vm_fill \/ vm_text \/ vm_blit \/ vm_touch \/ vm_send_recv
    \/ vm_device
    \/ \E e \in Events : vm_sys_event(e) \/ vm_event_poll(e)
    \/ vm_event_dispatch

VmSpec == VmInit /\ [][VmNext]_vmVars

-----------------------------------------------------------------------------
\* Whatever words a program computes, no instruction or system call reaches a byte
\* outside its arena or a column outside its viewport;
\* and an event is pending only for a registered handler, so the branch that throws all
\* pending events away is never taken (vm_in_bounds, vmarg_*, vp_*, vm_event_dispatch).
StaysInside ==
    /\ h_outside = {}
    /\ \A e \in v_pending : v_handler[e] # 0

\* "The register file is restored here, so the interrupted code cannot tell a handler
\* ran" (vm.c, RET): when a handler ends the program is where it was, with the registers
\* and the return addresses it had, however the handler called and returned.
HandlerIsTransparent ==
    [][v_in_handler /\ ~v_in_handler' => <<v_pc', v_call', v_file'>> = h_context]_vmVars
=============================================================================
