------------------------------- MODULE Touch --------------------------------
(* From the panel to the view: the debounced sample (touch.c), its routing by   *)
(* the touch task (kmain.c), the launcher's taps and close buttons (desktop.c)  *)
(* and the calibration that takes every touch while it runs (calib.c). One      *)
(* sample is one pass of the touch task, a tick apart.                           *)
EXTENDS Integers, Sequences, FiniteSets

CONSTANTS
    TOUCH_DOWN_SAMPLES, \* samples a press must last to be reported
    TAP_MIN_TICKS,      \* a shorter contact is chatter
    DOUBLE_TAP_TICKS    \* the second tap comes sooner than this

ASSUME TouchAssumption ==
    /\ TOUCH_DOWN_SAMPLES \in Nat \ {0} /\ TAP_MIN_TICKS \in Nat
    /\ DOUBLE_TAP_TICKS \in Nat \ {0}

UP     == "up"
NOCELL == "no cell"

\* Places of the panel the code tells apart, and the launcher's icon under each: the
\* close button of a view, the top left corner, another icon, a strip's close button,
\* and the rest, where the last cross is.
Spots   == {"close", "corner", "middle", "strip", "rest"}
cell_at(s) == IF s \in {"strip", "rest"} THEN NOCELL ELSE s

\* The four crosses, in the order they are shown: which side of each axis they are on.
Crosses == {"left", "right"} \X {"top", "bottom"}
TARGETS == <<<<"left", "top">>, <<"right", "top">>, <<"left", "bottom">>, <<"right", "bottom">>>>

VARIABLES
    t_run,              \* g_down_run, no further than the threshold
    d_mode,             \* g_mode: the launcher, a keyboard view, the 3D view, a program
    d_sel, d_was_down, d_press_age, d_tap_sel, d_tap_age,   \* the launcher's press state
    d_focus, d_strip,   \* a program has the region; a program has a strip
    c_running, c_taps, c_was_down, c_installed,     \* calib.c; the mapping in use
    h_spot, h_len,      \* where this contact is and for how many samples
    h_acts              \* history: what it has done so far

deskVars  == <<d_mode, d_sel, d_was_down, d_press_age, d_tap_sel, d_tap_age, d_focus, d_strip>>
calVars   == <<c_running, c_taps, c_was_down, c_installed>>
touchVars == <<t_run, deskVars, calVars, h_spot, h_len, h_acts>>

TouchInit ==
    /\ t_run = 0 /\ d_mode = "launcher" /\ d_sel = "corner" /\ d_was_down = FALSE
    /\ d_press_age = 0 /\ d_tap_sel = NOCELL /\ d_tap_age = DOUBLE_TAP_TICKS
    /\ d_focus = FALSE /\ d_strip = FALSE
    /\ c_running = FALSE /\ c_taps = <<>> /\ c_was_down = FALSE /\ c_installed = TARGETS
    /\ h_spot = UP /\ h_len = 0 /\ h_acts = 0

-----------------------------------------------------------------------------
(* touch_read *)

Upto(n, cap) == IF n > cap THEN cap ELSE n

\* Mutant: the first qualifying sample is a press.
IsDown_at_once(run) == run > 0

IsDown(run) == run >= TOUCH_DOWN_SAMPLES

\* One sample: the pen and the pressure qualify at a place, or they do not. A finger
\* stays where it was put; noise is a contact of one sample.
touch_read(s) ==
    /\ s = UP \/ h_spot \in {UP, s}
    /\ h_spot' = s
    /\ t_run' = IF s = UP THEN 0 ELSE Upto(t_run + 1, TOUCH_DOWN_SAMPLES)
    /\ h_len' = IF s = UP THEN 0 ELSE Upto(h_len + 1, TOUCH_DOWN_SAMPLES)

-----------------------------------------------------------------------------
(* calib.c *)

calib_start ==
    /\ c_running' = TRUE /\ c_taps' = <<>> /\ c_was_down' = FALSE
    /\ h_acts' = 0          \* a finger already down counts as a new one
    /\ UNCHANGED <<t_run, deskVars, c_installed, h_spot, h_len>>

\* Two targets share each coordinate: a pair that disagrees, or two sides that do not
\* differ, and nothing is installed.
finish(taps) ==
    LET x(i) == taps[i][1]
        y(i) == taps[i][2]
        agree == x(1) = x(3) /\ x(2) = x(4) /\ y(1) = y(2) /\ y(3) = y(4)
        span  == x(1) = "left" /\ x(2) = "right" /\ y(1) = "top" /\ y(3) = "bottom"
    IN  IF agree /\ span THEN taps ELSE c_installed

\* One reading per press, of the raw channels.
calib_touch(place, down) ==
    LET taps == Append(c_taps, place) IN
    /\ c_running
    /\ c_was_down' = down
    /\ IF down /\ ~c_was_down
       THEN /\ c_taps' = IF Len(taps) = Len(TARGETS) THEN <<>> ELSE taps
            /\ c_running' = (Len(taps) # Len(TARGETS))
            /\ c_installed' = IF Len(taps) = Len(TARGETS) THEN finish(taps) ELSE c_installed
            /\ h_acts' = h_acts + 1
       ELSE UNCHANGED <<c_taps, c_running, c_installed>>
            /\ h_acts' = IF h_len' = 0 THEN 0 ELSE h_acts
    /\ UNCHANGED deskVars

-----------------------------------------------------------------------------
(* desktop.c *)

KeyboardView == d_mode = "notes"

\* A press on a close button, of the open view or of a strip no keyboard covers.
Closes(s) ==
    \/ s = "close" /\ d_mode # "launcher"
    \/ s = "strip" /\ ~KeyboardView /\ d_strip

desktop_chrome_touch(s) ==
    /\ IF s = "close"
       THEN d_mode' = "launcher" /\ d_focus' = FALSE /\ UNCHANGED d_strip
       ELSE d_strip' = FALSE /\ UNCHANGED <<d_mode, d_focus>>
    /\ h_acts' = IF s = "close" THEN h_acts + 1 ELSE Upto(h_acts + 1, 1)
    /\ d_press_age' = Upto(d_press_age + 1, TAP_MIN_TICKS)
    /\ d_tap_age' = Upto(d_tap_age + 1, DOUBLE_TAP_TICKS)
    /\ UNCHANGED <<d_sel, d_was_down, d_tap_sel>>

\* The icon decides: the 3D view, a keyboard view, or a program if a slot is free.
open_selected ==
    \/ d_sel = "corner" /\ d_mode' = "3d" /\ UNCHANGED d_focus
    \/ d_sel = "middle" /\ d_mode' = "notes" /\ UNCHANGED d_focus
    \/ d_sel = "close" /\ d_mode' = "app" /\ d_focus' = TRUE
    \/ d_sel = "close" /\ UNCHANGED <<d_mode, d_focus>>

\* The first sample of a press selects, its end is a tap, a second tap opens.
desktop_touch(s, down) ==
    LET press == down /\ ~d_was_down
        lift  == ~down /\ d_was_down
        tap   == lift /\ d_press_age >= TAP_MIN_TICKS
        twice == tap /\ d_tap_sel = d_sel /\ d_tap_age < DOUBLE_TAP_TICKS
    IN  IF d_mode # "launcher"
        THEN /\ d_mode' = IF down /\ s = "corner" THEN "launcher" ELSE d_mode
             /\ h_acts' = IF h_len' = 0 THEN 0 ELSE h_acts + (IF d_mode' # d_mode THEN 1 ELSE 0)
             /\ d_press_age' = Upto(d_press_age + 1, TAP_MIN_TICKS)
             /\ d_tap_age' = Upto(d_tap_age + 1, DOUBLE_TAP_TICKS)
             /\ UNCHANGED <<d_sel, d_was_down, d_tap_sel, d_focus>>
        ELSE /\ d_was_down' = down
             /\ d_sel' = IF press /\ cell_at(s) # NOCELL THEN cell_at(s) ELSE d_sel
             /\ d_press_age' = IF press THEN 0 ELSE Upto(d_press_age + 1, TAP_MIN_TICKS)
             /\ IF twice THEN open_selected ELSE UNCHANGED <<d_mode, d_focus>>
             /\ d_tap_sel' = CASE twice -> NOCELL [] tap /\ ~twice -> d_sel [] OTHER -> d_tap_sel
             /\ d_tap_age' = IF tap THEN 0 ELSE Upto(d_tap_age + 1, DOUBLE_TAP_TICKS)
             /\ h_acts' = IF h_len' = 0 THEN 0 ELSE h_acts

-----------------------------------------------------------------------------
(* task_touch: one pass. *)

\* While calibrating, the reading is the cross the finger is nearest to.
CalibrationSample ==
    \E place \in Crosses, s \in {UP, "rest"} :
        touch_read(s) /\ calib_touch(place, IsDown(t_run'))

RoutedSample ==
    \E s \in Spots \cup {UP} :
        LET down == IsDown(t_run') IN
        /\ ~c_running /\ touch_read(s)
        /\ CASE down /\ Closes(s)             -> desktop_chrome_touch(s)
             [] ~(down /\ Closes(s)) /\ KeyboardView ->
                    /\ h_acts' = IF h_len' = 0 THEN 0 ELSE h_acts
                    /\ d_press_age' = Upto(d_press_age + 1, TAP_MIN_TICKS)
                    /\ d_tap_age' = Upto(d_tap_age + 1, DOUBLE_TAP_TICKS)
                    /\ UNCHANGED <<d_mode, d_sel, d_was_down, d_tap_sel, d_focus, d_strip>>
             [] OTHER                          -> desktop_touch(s, down) /\ UNCHANGED d_strip
        /\ UNCHANGED calVars

\* A program starts from the shell, or ends: the display task then leaves its view.
shell_launch ==
    /\ ~d_strip /\ d_strip' = TRUE
    /\ UNCHANGED <<t_run, d_mode, d_sel, d_was_down, d_press_age, d_tap_sel, d_tap_age,
                   d_focus, calVars, h_spot, h_len, h_acts>>
app_retires ==
    /\ d_focus /\ d_focus' = FALSE
    /\ d_mode' = IF d_mode = "app" THEN "launcher" ELSE d_mode
    /\ UNCHANGED <<t_run, d_sel, d_was_down, d_press_age, d_tap_sel, d_tap_age, d_strip,
                   calVars, h_spot, h_len, h_acts>>

TouchNext == calib_start \/ CalibrationSample \/ RoutedSample \/ shell_launch \/ app_retires

TouchSpec == TouchInit /\ [][TouchNext]_touchVars

-----------------------------------------------------------------------------
\* A view closes, a program dies or a cross is read only while a finger has been seen
\* in TOUCH_DOWN_SAMPLES consecutive samples; one contact closes one view or reads one
\* cross (a strip's close button repeats under a resting finger, and is counted once);
\* and a mapping is installed only from a run in which every cross was the one showing
\* (touch.c, g_down_run; calib.c, calib_touch and finish).
TouchIsDeliberate ==
    /\ h_acts > 0 => h_len >= TOUCH_DOWN_SAMPLES
    /\ h_acts <= 1
    /\ c_installed = TARGETS

(* What the code does not keep: the README tells each counterexample.         *)
\* "a press that closes a program must not also select an icon underneath it"
\* (kmain.c): the contact that closed a view moves no selection.
ClosingSelectsNothing ==
    [][h_acts > 0 /\ h_acts' > 0 => d_sel' = d_sel]_touchVars
=============================================================================
