-------------------------------- MODULE View --------------------------------
(* Who paints the upper region of the panel: the display task's loop           *)
(* (kmain.c task_display), the launcher and its chrome (desktop.c), the 3D view *)
(* with or without a framebuffer (raycast.c), against the touch task that       *)
(* changes the view, the programs that end, and the shell commands that switch  *)
(* the view, the framebuffer and calibration.                                   *)
EXTENDS Integers

CONSTANTS
    RAY_COLS,           \* columns of a 3D frame
    MaxHeld             \* bound: `fb on` is not typed at a deeper lock than this

ASSUME ViewAssumption == {RAY_COLS, MaxHeld} \subseteq Nat \ {0}

\* The icons, by what opening one does; "full" is any of the views that own the
\* region and the band below it.
Icons == {"3d", "app", "full"}

VARIABLES
    z_pc, z_at,         \* the display task: where it is, the column it is at
    z_tp, z_sp,         \* what the touch task and the shell have still to do
    z_mode,             \* g_mode
    z_sel, z_msg,       \* g_sel; g_msg_sel: is there a launch message
    z_dirty, z_vdirty,  \* g_dirty of the launcher; that of the full view
    z_run, z_focus,     \* the program: is it running, does it own the region
    z_bar,              \* g_app_bar: its title bar has to be drawn
    z_fb, z_owned,      \* g_fb # NULL; is the block it names still allocated
    z_depth,            \* how deep the display task holds the draw lock
    z_calib,            \* g_running of calib.c
    z_panel, z_title    \* what the region shows; is the title bar on it

deskVs == <<z_mode, z_sel, z_msg, z_dirty, z_vdirty, z_run, z_focus, z_bar>>
bufVs  == <<z_fb, z_owned>>
seenVs == <<z_panel, z_title>>
viewVars == <<z_pc, z_at, z_tp, z_sp, deskVs, bufVs, z_depth, z_calib, seenVs>>

Shown(what)      == [what |-> what, sel |-> "none", cursor |-> "none", msg |-> FALSE]
LauncherAt(s, c) == [what |-> "launcher", sel |-> s, cursor |-> c, msg |-> z_msg]

ViewInit ==
    /\ z_pc = "top" /\ z_at = 1 /\ z_tp = "idle" /\ z_sp = "idle"
    /\ z_mode = "launcher" /\ z_sel = "full" /\ z_msg = FALSE
    /\ z_dirty = TRUE /\ z_vdirty = FALSE /\ z_run = FALSE /\ z_focus = FALSE /\ z_bar = FALSE
    /\ z_fb \in BOOLEAN /\ z_owned = z_fb
    /\ z_depth = 0 /\ z_calib = FALSE
    /\ z_panel = Shown("black") /\ z_title = FALSE

(* ----------------------------- The display task ---------------------------- *)
Paints(from, to) == z_pc = from /\ z_pc' = to

\* Calibration owns the whole panel: the task sleeps and looks again (`dfreeze`,
\* which stops it the same way, is a diagnostic and left out).
task_display ==
    /\ ~z_calib /\ Paints("top", "view")
    /\ UNCHANGED <<z_at, z_tp, z_sp, deskVs, bufVs, z_depth, z_calib, seenVs>>

\* An idle launcher costs no SPI: nothing is drawn unless something changed, and
\* an expired message is a change.
desktop_frame ==
    /\ z_mode = "launcher"
    /\ \E old \in {FALSE, z_msg} :
        /\ z_msg' = (z_msg /\ ~old)
        /\ z_dirty' = FALSE
        /\ Paints("view", IF z_dirty \/ old THEN "icons" ELSE "chrome")
    /\ UNCHANGED <<z_at, z_tp, z_sp, z_mode, z_sel, z_vdirty, z_run, z_focus, z_bar, bufVs, z_depth,
                   z_calib, seenVs>>

draw_icon ==
    /\ Paints("icons", "cursor")
    /\ z_depth' = z_depth + 1
    /\ z_panel' = LauncherAt(z_sel, z_panel.cursor) /\ z_title' = FALSE
    /\ UNCHANGED <<z_at, z_tp, z_sp, deskVs, bufVs, z_calib>>

draw_cursor_cleans ==
    /\ Paints("cursor", "chrome")
    /\ z_depth' = z_depth - 1
    /\ z_panel' = LauncherAt(z_panel.sel, z_sel) /\ z_dirty' = FALSE
    /\ UNCHANGED <<z_at, z_tp, z_sp, z_mode, z_sel, z_msg, z_vdirty, z_run, z_focus, z_bar, bufVs,
                   z_calib, z_title>>

draw_cursor ==
    /\ Paints("cursor", "chrome")
    /\ z_depth' = z_depth - 1
    /\ z_panel' = LauncherAt(z_panel.sel, z_sel)
    /\ UNCHANGED <<z_at, z_tp, z_sp, deskVs, bufVs, z_calib, z_title>>

\* The other views keep a flag of their own; a program paints for itself.
view_frame ==
    /\ z_mode \in {"full", "app"} /\ Paints("view", "chrome")
    /\ IF z_mode = "full" /\ z_vdirty
       THEN z_panel' = Shown("full") /\ z_title' = FALSE /\ z_vdirty' = FALSE
       ELSE UNCHANGED <<seenVs, z_vdirty>>
    /\ UNCHANGED <<z_at, z_tp, z_sp, z_mode, z_sel, z_msg, z_dirty, z_run, z_focus, z_bar, bufVs,
                   z_depth, z_calib>>

(* ------------------------------ The 3D renderer ---------------------------- *)
\* Without a framebuffer the lock spans the whole loop; with one, only the blit.
raycast_frame ==
    /\ z_mode = "3d" /\ Paints("view", "compose")
    /\ z_at' = 1
    /\ z_depth' = z_depth + (IF z_fb THEN 0 ELSE 1)
    /\ UNCHANGED <<z_tp, z_sp, deskVs, bufVs, z_calib, seenVs>>

\* A column is marched and composed into the framebuffer, or into g_col.
compose ==
    /\ Paints("compose", "column")
    /\ UNCHANGED <<z_at, z_tp, z_sp, deskVs, bufVs, z_depth, z_calib, seenVs>>

column ==
    /\ Paints("column", IF z_at < RAY_COLS THEN "compose" ELSE "end")
    /\ z_at' = IF z_at < RAY_COLS THEN z_at + 1 ELSE 1
    /\ z_panel' = IF z_fb THEN z_panel ELSE Shown("3d")
    /\ z_title' = (z_title /\ z_fb)
    /\ UNCHANGED <<z_tp, z_sp, deskVs, bufVs, z_depth, z_calib>>

\* The release belongs to the path the frame ENDS on. A release by a task that
\* does not hold the lock is refused.
raycast_ends ==
    /\ Paints("end", IF z_fb THEN "out" ELSE "chrome")
    /\ z_depth' = IF z_fb \/ z_depth = 0 THEN z_depth ELSE z_depth - 1
    /\ UNCHANGED <<z_at, z_tp, z_sp, deskVs, bufVs, z_calib, seenVs>>

\* The close button is stamped into the buffer, then one locked blit.
desktop_overlay_into ==
    /\ Paints("out", "chrome")
    /\ z_panel' = Shown("3d") /\ z_title' = FALSE
    /\ UNCHANGED <<z_at, z_tp, z_sp, deskVs, bufVs, z_depth, z_calib>>

(* -------------------------------- The chrome ------------------------------- *)
\* A program that stopped gives the region back here; the bar above one that
\* runs is drawn on demand.
desktop_chrome ==
    /\ Paints("chrome", IF z_mode = "app" /\ z_focus /\ z_bar THEN "bar" ELSE "strip")
    /\ IF z_mode = "app" /\ ~z_focus
       THEN z_mode' = "launcher" /\ z_dirty' = TRUE /\ UNCHANGED z_bar
       ELSE z_bar' = (z_bar /\ ~(z_mode = "app")) /\ UNCHANGED <<z_mode, z_dirty>>
    /\ UNCHANGED <<z_at, z_tp, z_sp, z_sel, z_msg, z_vdirty, z_run, z_focus, bufVs, z_depth, z_calib,
                   seenVs>>

draw_close ==
    /\ Paints("bar", "strip")
    /\ z_title' = TRUE
    /\ UNCHANGED <<z_at, z_tp, z_sp, deskVs, bufVs, z_depth, z_calib, z_panel>>

\* The strip, the frame count and its record; then a yield or a sleep.
frame_ends ==
    /\ Paints("strip", "top")
    /\ UNCHANGED <<z_at, z_tp, z_sp, deskVs, bufVs, z_depth, z_calib, seenVs>>

(* ------------------------------ The touch task ----------------------------- *)
Touching == z_tp = "idle" /\ ~z_calib
touchKeeps == <<z_pc, z_at, z_sp, bufVs, z_depth, z_calib>>

\* Leaving a view: by its close button, or by the corner, which drops no focus.
close_view(corner) ==
    /\ Touching /\ z_mode # "launcher"
    /\ z_mode' = "launcher" /\ z_tp' = "band"
    /\ z_focus' = (z_focus /\ corner) /\ z_bar' = (z_bar /\ corner)
    /\ UNCHANGED <<touchKeeps, z_sel, z_msg, z_dirty, z_vdirty, z_run, seenVs>>

\* The first sample of a press moves the selection.
desktop_press(i) ==
    /\ Touching /\ z_mode = "launcher"
    /\ z_sel' = i /\ z_tp' = "dirty"
    /\ UNCHANGED <<touchKeeps, z_mode, z_msg, z_dirty, z_vdirty, z_run, z_focus, z_bar, seenVs>>

\* A second tap opens it. A program may find no slot.
open_icon ==
    /\ Touching /\ z_mode = "launcher"
    /\ \/ /\ z_sel = "3d" /\ z_mode' = "3d" /\ z_msg' = FALSE
          /\ UNCHANGED <<z_tp, z_run, z_focus, z_bar>>
       \/ /\ z_sel = "full" /\ z_mode' = "full" /\ z_msg' = TRUE /\ z_tp' = "open"
          /\ UNCHANGED <<z_run, z_focus, z_bar>>
       \/ /\ z_sel = "app" /\ z_mode' = "app" /\ z_msg' = FALSE /\ z_tp' = "fill"
          /\ z_run' = TRUE /\ z_focus' = TRUE /\ z_bar' = TRUE
       \/ /\ z_sel = "app" /\ z_msg' = TRUE /\ z_tp' = "dirty"
          /\ UNCHANGED <<z_mode, z_run, z_focus, z_bar>>
    /\ UNCHANGED <<touchKeeps, z_sel, z_dirty, z_vdirty, seenVs>>

\* What the touch task does last: it draws under the lock, or marks a view dirty.
touch_last ==
    /\ z_tp # "idle"
    /\ z_tp \in {"band", "fill"} => z_depth = 0
    /\ z_tp' = IF z_tp = "fill" THEN "dirty" ELSE "idle"
    /\ z_dirty' = (z_dirty \/ z_tp \in {"band", "dirty"})
    /\ z_vdirty' = (z_vdirty \/ z_tp = "open")
    /\ IF z_tp = "fill" THEN z_panel' = Shown("black") /\ z_title' = FALSE ELSE UNCHANGED seenVs
    /\ UNCHANGED <<touchKeeps, z_mode, z_sel, z_msg, z_run, z_focus, z_bar>>

\* A tap on a cross: the next cross, or the end. The user taps what calib_start
\* has drawn.
calib_tap ==
    /\ z_calib /\ z_tp = "idle" /\ z_sp = "idle" /\ z_depth = 0
    /\ \/ z_panel' = Shown("cross") /\ z_title' = FALSE /\ UNCHANGED <<z_calib, z_tp>>
       \/ z_calib' = FALSE /\ z_tp' = "dirty" /\ UNCHANGED seenVs
    /\ UNCHANGED <<z_pc, z_at, z_sp, deskVs, bufVs, z_depth>>

program_ends ==
    /\ z_run /\ z_run' = FALSE /\ z_focus' = FALSE
    /\ UNCHANGED <<z_pc, z_at, z_tp, z_sp, z_mode, z_sel, z_msg, z_dirty, z_vdirty, z_bar, bufVs,
                   z_depth, z_calib, seenVs>>

(* -------------------------------- The shell -------------------------------- *)
\* `3d` and `view3d`.
desktop_set_active(on) ==
    /\ z_sp = "idle"
    /\ z_mode' = (IF on THEN "launcher" ELSE "3d") /\ z_dirty' = TRUE
    /\ UNCHANGED <<z_pc, z_at, z_tp, z_sp, z_sel, z_msg, z_vdirty, z_run, z_focus, z_bar, bufVs,
                   z_depth, z_calib, seenVs>>

\* `fb off` frees the block, then forgets it. An `fb on` that finds no memory
\* changes nothing.
raycast_set_framebuffer(on) ==
    /\ z_sp = "idle" /\ z_fb # on
    /\ on => z_depth < MaxHeld
    /\ IF on THEN z_fb' = TRUE /\ z_owned' = TRUE /\ UNCHANGED z_sp
             ELSE z_owned' = FALSE /\ z_sp' = "forget" /\ UNCHANGED z_fb
    /\ UNCHANGED <<z_pc, z_at, z_tp, deskVs, z_depth, z_calib, seenVs>>

fb_forgets ==
    /\ z_sp = "forget" /\ z_sp' = "idle" /\ z_fb' = FALSE
    /\ UNCHANGED <<z_pc, z_at, z_tp, deskVs, z_owned, z_depth, z_calib, seenVs>>

\* `cal` claims the panel, then draws on it.
calib_claims ==
    /\ z_sp = "idle" /\ ~z_calib /\ z_calib' = TRUE /\ z_sp' = "cross"
    /\ UNCHANGED <<z_pc, z_at, z_tp, deskVs, bufVs, z_depth, seenVs>>

draw_screen ==
    /\ z_sp = "cross" /\ z_depth = 0 /\ z_sp' = "idle"
    /\ z_panel' = Shown("cross") /\ z_title' = FALSE
    /\ UNCHANGED <<z_pc, z_at, z_tp, deskVs, bufVs, z_depth, z_calib>>

ViewNext ==
    \/ task_display \/ desktop_frame \/ draw_icon \/ draw_cursor \/ view_frame
    \/ raycast_frame \/ compose \/ column \/ raycast_ends \/ desktop_overlay_into
    \/ desktop_chrome \/ draw_close \/ frame_ends
    \/ \E corner \in BOOLEAN : close_view(corner)
    \/ \E i \in Icons : desktop_press(i)
    \/ open_icon \/ touch_last \/ calib_tap \/ program_ends
    \/ \E on \in BOOLEAN : desktop_set_active(on) \/ raycast_set_framebuffer(on)
    \/ fb_forgets \/ calib_claims \/ draw_screen

ViewSpec == ViewInit /\ [][ViewNext]_viewVars

(* -------------------------------- Properties ------------------------------- *)
\* An idle launcher shows the truth: when the display task rests with nothing
\* marked dirty, the panel holds the launcher with the current selection, cursor
\* and message, whatever was pressed, opened, closed, calibrated or ended while
\* it was painting (desktop.c g_dirty is cleared before the paint, not after).
LauncherIsCurrent ==
    z_pc = "top" /\ z_tp = "idle" /\ z_sp = "idle"
    /\ z_mode = "launcher" /\ ~z_dirty /\ ~z_calib
    => z_panel = LauncherAt(z_sel, z_sel)

(* What the code does not keep: the README tells each counterexample.         *)
\* Between frames the display task holds nothing: the draw lock a 3D frame took
\* at its start is given back by the path the frame ends on (raycast.c:312-314).
LockIsGivenBack == z_pc = "top" => z_depth = 0

\* The renderer writes and sends only a framebuffer that is allocated to it.
BufferIsOurs ==
    /\ z_pc = "compose" /\ z_fb => z_owned
    /\ z_pc = "out" => z_fb /\ z_owned

\* While a focused program runs, the bar with the way out is on the panel
\* (desktop.c:430-434).
BarIsDrawn ==
    z_pc = "top" /\ z_tp = "idle" /\ z_sp = "idle"
    /\ z_mode = "app" /\ z_focus /\ ~z_bar /\ ~z_calib /\ z_panel.what # "cross"
    => z_title

\* While calibration waits for a tap, the cross is on the panel (kmain.c:1487-1494).
CrossIsVisible ==
    z_pc = "top" /\ z_tp = "idle" /\ z_sp = "idle" /\ z_calib => z_panel = Shown("cross")
=============================================================================
