-------------------------------- MODULE Apps --------------------------------
(***************************************************************************)
(* The life of an application: kernel/app.c (slots, viewports, focus, the  *)
(* round-robin app_tick), the arenas of kernel/arena.c it allocates, the   *)
(* mailboxes of kernel/ipc.c, the permission table of kernel/device.c and  *)
(* what kernel/vm.c keeps per slot, as the shell and the desktop (which    *)
(* runs in the touch task) launch, focus and kill programs and the apps    *)
(* task runs them.                                                         *)
(*                                                                         *)
(* None of app.c and arena.c runs in a critical section, so a launch, a    *)
(* retirement and a tick are sequences of steps.  Preempts says whether    *)
(* the timer may switch tasks between two of them: TRUE is the machine,    *)
(* FALSE is the discipline the code is written for, one call at a time.    *)
(* The heap under the arenas is what Allocator.tla promises.               *)
(***************************************************************************)
EXTENDS Integers, FiniteSets

CONSTANTS
    APP_MAX,        \* application slots
    ARENA_MAX,      \* arenas: arena.c asserts ARENA_MAX >= APP_MAX + 1
    Regions,        \* the blocks heap_alloc can return
    Progs,          \* the programs of the launch table
    Launchers,      \* the tasks that call launch_entry: "shell", "touch"
    Killers,        \* the tasks that call app_kill
    NONE,
    Preempts

Ids    == 0 .. APP_MAX - 1
Arenas == 0 .. ARENA_MAX - 1
Tasks  == Launchers \cup Killers \cup {"apps"}

ASSUME AppsAssumption ==
    /\ APP_MAX \in Nat \ {0} /\ ARENA_MAX \in Nat /\ ARENA_MAX >= APP_MAX + 1
    /\ Launchers \cup Killers \subseteq {"shell", "touch"}
    /\ NONE \notin Regions \cup Progs /\ Preempts \in BOOLEAN

VARIABLES
    mem,        \* the blocks heap_alloc has handed out and not taken back
    arena,      \* g_arenas[a].base, NONE when 0
    state,      \* g_apps[id].state
    app_arena,  \* g_apps[id].arena
    vm_base,    \* g_apps[id].vm.base
    handler,    \* the program that registered vm.evt_handler, NONE when 0
    tenant,     \* history: the program last published in the slot
    box,        \* the mailbox: the program the message was sent to, NONE when empty
    perms,      \* g_perms[id]: the program whose manifest it came from
    g_focused, g_views_suspended,
    view,       \* the viewport of the slot's vm
    pc,         \* where each task is inside a call, "idle" in none
    slot, ar, mine, \* its locals: the slot, the arena id, the block or addressee
    prog, why   \* and the program it launches, the reason it retires a slot for

tables == <<mem, arena, state, app_arena, vm_base, handler, tenant, box, perms>>
views  == <<g_focused, g_views_suspended, view>>
locals == <<pc, slot, ar, mine, prog, why>>
vars   == <<tables, views, locals>>

AppState == {"FREE", "RUNNING", "HALTED", "FAULTED", "KILLED"}
View     == {"panel", "full", "strip", "none"}
Pc       == {"idle", "create", "alloc", "store", "init", "publish", "fields", "grant", "focus",
             "free", "unbind", "clear", "revoke", "dead", "scan", "run", "send"}

\* The type of the tables and of the tasks' locals.
TypeOK ==
    /\ mem \subseteq Regions
    /\ arena \in [Arenas -> Regions \cup {NONE}]
    /\ state \in [Ids -> AppState]
    /\ app_arena \in [Ids -> Arenas \cup {-1}]
    /\ vm_base \in [Ids -> Regions \cup {NONE}]
    /\ handler \in [Ids -> Progs \cup {NONE}]
    /\ tenant \in [Ids -> Progs \cup {NONE}]
    /\ box \in [Ids -> Progs \cup {NONE}]
    /\ perms \in [Ids -> Progs \cup {NONE}]
    /\ g_focused \in Ids \cup {-1}
    /\ g_views_suspended \in BOOLEAN
    /\ view \in [Ids -> View]
    /\ pc \in [Tasks -> Pc]
    /\ slot \in [Tasks -> Ids]
    /\ ar \in [Tasks -> Arenas \cup {-1}]
    /\ mine \in [Tasks -> Regions \cup Progs \cup {NONE}]
    /\ prog \in [Tasks -> Progs \cup {NONE}]
    /\ why \in [Tasks -> AppState]

\* Boot: m5_selftest has started, killed and faulted programs in every slot but
\* the last, which is still zero (a zeroed arena field names arena 0); then kmain
\* creates arena 0 for its own VM task.
Init ==
    /\ \E r \in Regions : mem = {r} /\ arena = [a \in Arenas |-> IF a = 0 THEN r ELSE NONE]
    /\ state = [id \in Ids |-> IF id = APP_MAX - 1 THEN "FREE"
                              ELSE IF id = APP_MAX - 2 THEN "FAULTED" ELSE "KILLED"]
    /\ app_arena = [id \in Ids |-> IF id = APP_MAX - 1 THEN 0 ELSE -1]
    /\ \E r \in Regions : vm_base = [id \in Ids |-> IF id = APP_MAX - 1 THEN NONE ELSE r]
    /\ handler = [id \in Ids |-> NONE]
    /\ tenant = [id \in Ids |-> NONE]
    /\ box = [id \in Ids |-> NONE]
    /\ perms = [id \in Ids |-> NONE]
    /\ g_focused = -1 /\ g_views_suspended = FALSE
    /\ view = [id \in Ids |-> "none"]
    /\ pc = [t \in Tasks |-> "idle"]
    /\ slot = [t \in Tasks |-> 0]
    /\ ar = [t \in Tasks |-> -1]
    /\ mine = [t \in Tasks |-> NONE]
    /\ prog = [t \in Tasks |-> NONE]
    /\ why = [t \in Tasks |-> "FREE"]

-----------------------------------------------------------------------------
Turn(t) == Preempts \/ \A u \in Tasks \ {t} : pc[u] = "idle"

At(t, where) == Turn(t) /\ pc[t] = where
Goto(t, where) == pc' = [pc EXCEPT ![t] = where]

\* A call that returns leaves its locals behind.
Return(t) ==
    /\ Goto(t, "idle")
    /\ ar' = [ar EXCEPT ![t] = -1]
    /\ mine' = [mine EXCEPT ![t] = NONE]
    /\ prog' = [prog EXCEPT ![t] = NONE]
    /\ slot' = [slot EXCEPT ![t] = 0]
    /\ why' = [why EXCEPT ![t] = "FREE"]

\* apply_view, given the states, the focus and the suspension it reads.
apply_view(id, st, focused, suspended) ==
    IF st[id] # "RUNNING" THEN view[id]
    ELSE IF id = focused THEN "full"
    ELSE IF suspended THEN "none" ELSE "strip"

-----------------------------------------------------------------------------
(* launch_entry and app_start.                                              *)

\* The first slot that is not running; a full table refuses, which is no step.
StartScan(t, p) ==
    /\ At(t, "idle")
    /\ \E id \in Ids : /\ state[id] # "RUNNING" /\ \A k \in Ids : k < id => state[k] = "RUNNING"
                       /\ slot' = [slot EXCEPT ![t] = id]
    /\ prog' = [prog EXCEPT ![t] = p]
    /\ Goto(t, "create")
    /\ UNCHANGED <<tables, views, ar, mine, why>>

\* arena_create: the first free id ...
CreateScan(t) ==
    /\ At(t, "create")
    /\ \/ \E a \in Arenas : /\ arena[a] = NONE /\ \A b \in Arenas : b < a => arena[b] # NONE
                            /\ ar' = [ar EXCEPT ![t] = a]
                            /\ Goto(t, "alloc")
                            /\ UNCHANGED <<slot, mine, prog, why>>
       \/ (\A a \in Arenas : arena[a] # NONE) /\ Return(t)
    /\ UNCHANGED <<tables, views>>

\* ... a block from the heap, or none ...
CreateAlloc(t) ==
    /\ At(t, "alloc")
    /\ \/ \E r \in Regions \ mem : /\ mem' = mem \cup {r}
                                   /\ mine' = [mine EXCEPT ![t] = r]
                                   /\ Goto(t, "store")
                                   /\ UNCHANGED <<slot, ar, prog, why>>
       \/ Return(t) /\ UNCHANGED mem
    /\ UNCHANGED <<arena, state, app_arena, vm_base, handler, tenant, box, perms, views>>

\* ... and the entry, written last.
CreateStore(t) ==
    /\ At(t, "store")
    /\ arena' = [arena EXCEPT ![ar[t]] = mine[t]]
    /\ mine' = [mine EXCEPT ![t] = NONE]
    /\ Goto(t, "init")
    /\ UNCHANGED <<mem, state, app_arena, vm_base, handler, tenant, box, perms, views,
                   slot, ar, prog, why>>

\* arena_bounds, the copy of the image, vm_init (which leaves the event fields
\* of the slot as they were) and ipc_clear.
StartInit(t) ==
    /\ At(t, "init")
    /\ \/ /\ arena[ar[t]] # NONE
          /\ vm_base' = [vm_base EXCEPT ![slot[t]] = arena[ar[t]]]
          /\ view' = [view EXCEPT ![slot[t]] = "panel"]
          /\ box' = [box EXCEPT ![slot[t]] = NONE]
          /\ Goto(t, "publish")
          /\ UNCHANGED <<slot, ar, mine, prog, why>>
       \/ /\ arena[ar[t]] = NONE
          /\ Return(t)
          /\ UNCHANGED <<vm_base, view, box>>
    /\ UNCHANGED <<mem, arena, state, app_arena, handler, tenant, perms,
                   g_focused, g_views_suspended>>

\* a->state = APP_RUNNING: from here app_tick and ipc_send see the program.
StartPublish(t) ==
    /\ At(t, "publish")
    /\ state' = [state EXCEPT ![slot[t]] = "RUNNING"]
    /\ tenant' = [tenant EXCEPT ![slot[t]] = prog[t]]
    /\ Goto(t, "fields")
    /\ UNCHANGED <<mem, arena, app_arena, vm_base, handler, box, perms, views,
                   slot, ar, mine, prog, why>>

\* Mutant of StartFields: the slot does not record its arena.
StartFields_lost(t) ==
    /\ At(t, "fields")
    /\ view' = [view EXCEPT ![slot[t]] = apply_view(slot[t], state, g_focused, g_views_suspended)]
    /\ Goto(t, "grant")
    /\ UNCHANGED <<tables, g_focused, g_views_suspended, slot, ar, mine, prog, why>>

\* The other fields of the slot, and apply_view.
StartFields(t) ==
    /\ At(t, "fields")
    /\ app_arena' = [app_arena EXCEPT ![slot[t]] = ar[t]]
    /\ view' = [view EXCEPT ![slot[t]] = apply_view(slot[t], state, g_focused, g_views_suspended)]
    /\ Goto(t, "grant")
    /\ UNCHANGED <<mem, arena, state, vm_base, handler, tenant, box, perms,
                   g_focused, g_views_suspended, slot, ar, mine, prog, why>>

\* Back in launch_entry: the manifest's bits; the desktop then focuses the program.
LaunchGrant(t) ==
    /\ At(t, "grant")
    /\ perms' = [perms EXCEPT ![slot[t]] = prog[t]]
    /\ IF t = "touch" THEN Goto(t, "focus") /\ UNCHANGED <<slot, ar, mine, prog, why>>
       ELSE Return(t)
    /\ UNCHANGED <<mem, arena, state, app_arena, vm_base, handler, tenant, box, views>>

launch_entry(t) ==
    \/ \E p \in Progs : StartScan(t, p)
    \/ CreateScan(t) \/ CreateAlloc(t) \/ CreateStore(t)
    \/ StartInit(t) \/ StartPublish(t) \/ StartFields(t) \/ LaunchGrant(t)

-----------------------------------------------------------------------------
(* Viewports.                                                               *)

\* app_view_focus(id), with the guard against a program that has stopped.
FocusOn(id) ==
    LET f == IF id >= 0 /\ state[id] = "RUNNING" THEN id ELSE -1 IN
    /\ g_focused' = f
    /\ view' = [k \in Ids |-> IF k \in {g_focused, f}
                              THEN apply_view(k, state, f, g_views_suspended) ELSE view[k]]

app_view_focus(t) ==
    \/ /\ At(t, "focus") /\ FocusOn(slot[t]) /\ Return(t)
       /\ UNCHANGED <<tables, g_views_suspended>>
    \/ /\ t = "touch" /\ At(t, "idle") /\ g_focused # -1 /\ FocusOn(-1)
       /\ UNCHANGED <<tables, g_views_suspended, locals>>

app_views_suspend(on) ==
    /\ "touch" \in Tasks /\ At("touch", "idle")
    /\ g_views_suspended' = on
    /\ view' = [k \in Ids |-> apply_view(k, state, g_focused, on)]
    /\ UNCHANGED <<tables, g_focused, locals>>

-----------------------------------------------------------------------------
(* retire, shared by app_kill and app_tick.                                 *)

\* Mutant of RetireFree: the stopped program keeps the main region.
RetireFree_focused(t) ==
    LET id == slot[t] IN
    /\ At(t, "free")
    /\ IF app_arena[id] >= 0
       THEN /\ mem' = mem \ {arena[app_arena[id]]}
            /\ ar' = [ar EXCEPT ![t] = app_arena[id]]
            /\ Goto(t, "unbind")
       ELSE Goto(t, "clear") /\ UNCHANGED <<mem, ar>>
    /\ UNCHANGED <<arena, state, app_arena, vm_base, handler, tenant, box, perms,
                   views, slot, mine, prog, why>>

\* Drop the focus; arena_destroy gives the block back (a base of 0 is rejected) ...
RetireFree(t) ==
    LET id == slot[t] IN
    /\ At(t, "free")
    /\ g_focused' = IF g_focused = id THEN -1 ELSE g_focused
    /\ IF app_arena[id] >= 0
       THEN /\ mem' = mem \ {arena[app_arena[id]]}
            /\ ar' = [ar EXCEPT ![t] = app_arena[id]]
            /\ Goto(t, "unbind")
       ELSE Goto(t, "clear") /\ UNCHANGED <<mem, ar>>
    /\ UNCHANGED <<arena, state, app_arena, vm_base, handler, tenant, box, perms,
                   g_views_suspended, view, slot, mine, prog, why>>

\* Mutant of RetireUnbind: the arena id is forgotten, its entry stays.
RetireUnbind_kept(t) ==
    /\ At(t, "unbind")
    /\ app_arena' = [app_arena EXCEPT ![slot[t]] = -1]
    /\ Goto(t, "clear")
    /\ UNCHANGED <<mem, arena, state, vm_base, handler, tenant, box, perms, views,
                   slot, ar, mine, prog, why>>

\* ... and clears the entry; the slot forgets the id.
RetireUnbind(t) ==
    /\ At(t, "unbind")
    /\ arena' = [arena EXCEPT ![ar[t]] = NONE]
    /\ app_arena' = [app_arena EXCEPT ![slot[t]] = -1]
    /\ Goto(t, "clear")
    /\ UNCHANGED <<mem, state, vm_base, handler, tenant, box, perms, views,
                   slot, ar, mine, prog, why>>

RetireClear(t) ==
    /\ At(t, "clear")
    /\ box' = [box EXCEPT ![slot[t]] = NONE]
    /\ Goto(t, "revoke")
    /\ UNCHANGED <<mem, arena, state, app_arena, vm_base, handler, tenant, perms, views,
                   slot, ar, mine, prog, why>>

\* Mutant of RetireRevoke: the grant stays in the table.
RetireRevoke_not(t) ==
    /\ At(t, "revoke")
    /\ Goto(t, "dead")
    /\ UNCHANGED <<tables, views, slot, ar, mine, prog, why>>

RetireRevoke(t) ==
    /\ At(t, "revoke")
    /\ perms' = [perms EXCEPT ![slot[t]] = NONE]
    /\ Goto(t, "dead")
    /\ UNCHANGED <<mem, arena, state, app_arena, vm_base, handler, tenant, box, views,
                   slot, ar, mine, prog, why>>

\* app_tick moves on to the next slot, or ends.
NextSlot ==
    IF slot["apps"] + 1 \in Ids
    THEN /\ slot' = [slot EXCEPT !["apps"] = @ + 1]
         /\ ar' = [ar EXCEPT !["apps"] = -1]
         /\ why' = [why EXCEPT !["apps"] = "FREE"]
         /\ Goto("apps", "scan")
         /\ UNCHANGED <<mine, prog>>
    ELSE Return("apps")

RetireDead(t) ==
    /\ At(t, "dead")
    /\ state' = [state EXCEPT ![slot[t]] = why[t]]
    /\ IF t = "apps" THEN NextSlot ELSE Return(t)
    /\ UNCHANGED <<mem, arena, app_arena, vm_base, handler, tenant, box, perms, views>>

retire(t) == \/ RetireFree(t) \/ RetireUnbind(t) \/ RetireClear(t)
             \/ RetireRevoke(t) \/ RetireDead(t)

\* app_kill: only a running program.
app_kill(t, id) ==
    /\ At(t, "idle")
    /\ state[id] = "RUNNING"
    /\ slot' = [slot EXCEPT ![t] = id]
    /\ why' = [why EXCEPT ![t] = "KILLED"]
    /\ Goto(t, "free")
    /\ UNCHANGED <<tables, views, ar, mine, prog>>

-----------------------------------------------------------------------------
(* app_tick, in the apps task.                                              *)

TickBegin ==
    /\ At("apps", "idle")
    /\ \E id \in Ids : state[id] = "RUNNING"
    /\ Goto("apps", "scan")
    /\ UNCHANGED <<tables, views, slot, ar, mine, prog, why>>

TickSlot ==
    /\ At("apps", "scan")
    /\ IF state[slot["apps"]] = "RUNNING"
       THEN Goto("apps", "run") /\ UNCHANGED <<slot, ar, mine, prog, why>>
       ELSE NextSlot
    /\ UNCHANGED <<tables, views>>

\* vm_run: instructions that stay inside the arena change nothing here; the
\* quantum may end, and the program may halt or fault.
RunEnds ==
    /\ At("apps", "run")
    /\ \/ NextSlot
       \/ \E r \in {"HALTED", "FAULTED"} :
            /\ why' = [why EXCEPT !["apps"] = r]
            /\ Goto("apps", "free")
            /\ UNCHANGED <<slot, ar, mine, prog>>
    /\ UNCHANGED <<tables, views>>

\* SYS_EVENT registers a handler, or takes it back.
RunEvent ==
    /\ At("apps", "run")
    /\ \E h \in {tenant[slot["apps"]], NONE} : handler' = [handler EXCEPT ![slot["apps"]] = h]
    /\ UNCHANGED <<mem, arena, state, app_arena, vm_base, tenant, box, perms, views, locals>>

\* ipc_recv empties the mailbox.
ipc_recv ==
    /\ At("apps", "run")
    /\ box' = [box EXCEPT ![slot["apps"]] = NONE]
    /\ UNCHANGED <<mem, arena, state, app_arena, vm_base, handler, tenant, perms, views, locals>>

\* ipc_send looks at the receiver's state before it enters its critical section.
SendCheck(dst) ==
    /\ At("apps", "run")
    /\ state[dst] = "RUNNING"
    /\ ar' = [ar EXCEPT !["apps"] = dst]
    /\ mine' = [mine EXCEPT !["apps"] = tenant[dst]]
    /\ Goto("apps", "send")
    /\ UNCHANGED <<tables, views, slot, prog, why>>

SendStore ==
    /\ At("apps", "send")
    /\ LET dst == ar["apps"] IN
       box' = [box EXCEPT ![dst] = IF @ = NONE THEN mine["apps"] ELSE @]
    /\ ar' = [ar EXCEPT !["apps"] = -1]
    /\ mine' = [mine EXCEPT !["apps"] = NONE]
    /\ Goto("apps", "run")
    /\ UNCHANGED <<mem, arena, state, app_arena, vm_base, handler, tenant, perms, views,
                   slot, prog, why>>

app_tick == \/ TickBegin \/ TickSlot \/ RunEnds \/ RunEvent \/ ipc_recv
            \/ (\E dst \in Ids : SendCheck(dst)) \/ SendStore

Next ==
    \/ \E t \in Launchers : launch_entry(t) \/ app_view_focus(t)
    \/ \E t \in Killers, id \in Ids : app_kill(t, id)
    \/ \E t \in Tasks : retire(t)
    \/ \E on \in BOOLEAN : app_views_suspend(on)
    \/ app_tick

Spec == Init /\ [][Next]_vars

-----------------------------------------------------------------------------
Quiet   == \A t \in Tasks : pc[t] = "idle"
Running == {id \in Ids : state[id] = "RUNNING"}

\* "Terminating an application releases its arena completely" (retire): between
\* calls the arenas in use are the kernel's and one for each running program,
\* and the heap holds no other block.
ArenasAccounted ==
    Quiet =>
        /\ \A i, j \in Running : i # j => app_arena[i] # app_arena[j]
        /\ {a \in Arenas : arena[a] # NONE} = {0} \cup {app_arena[id] : id \in Running}
        /\ mem = {arena[a] : a \in {a \in Arenas : arena[a] # NONE}}

\* The interpreter only runs a program in memory the heap has given to it and
\* to no other running program, and never in the kernel's arena.
RunsInOwnMemory ==
    pc["apps"] \in {"run", "send"} =>
        LET id == slot["apps"] IN
        /\ vm_base[id] \in mem /\ vm_base[id] # arena[0]
        /\ \A j \in Running \ {id} : vm_base[j] # vm_base[id]

\* A message is only ever in the mailbox of the program it was sent to: it does
\* not wait for whoever occupies the slot next (ipc_send, ipc_clear).
MailIsOwn == \A id \in Ids : box[id] # NONE => box[id] = tenant[id] /\ id \in Running

\* A capability does not outlive its holder (retire).
GrantIsOwn == \A id \in Ids : perms[id] # NONE => perms[id] = tenant[id] /\ id \in Running

\* Nothing in a slot is inherited: its mail and its grants are those of the
\* program that runs in it now, however the last one ended (retire, ipc_clear).
NothingInherited == TypeOK /\ MailIsOwn /\ GrantIsOwn

\* One function decides every viewport (apply_view): between calls each running
\* program draws exactly where the focus and the suspension say, and the focus
\* is with a running program.
ViewsAgree ==
    Quiet =>
        /\ g_focused # -1 => g_focused \in Running
        /\ \A id \in Running : view[id] = IF id = g_focused THEN "full"
                                          ELSE IF g_views_suspended THEN "none" ELSE "strip"

\* vm_init "resets" the VM (vm.h), and vm_event_poll and vm_event_dispatch are
\* no-ops for a program that registered nothing: a handler in a running slot
\* was registered by the program that runs there.
HandlerIsOwn == \A id \in Running : handler[id] \in {NONE, tenant[id]}

=============================================================================
