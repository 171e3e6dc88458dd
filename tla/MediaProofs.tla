---------------------------- MODULE MediaProofs -----------------------------
(***************************************************************************)
(* Proofs about what the user sees and hears: the player, the launcher, the*)
(* panel and sampled sound.                                                *)
(***************************************************************************)
EXTENDS Media, View, Display, Pcm, Facts, SequenceTheorems, TLAPS

-----------------------------------------------------------------------------
(* The player.                                                              *)

Jobs == [state : {"IDLE", "PENDING", "RUNNING", "DONE"}, kind : {"PLAY", "VIDEO", "BENCH"},
         stop : BOOLEAN, pause : BOOLEAN, err : BOOLEAN, by : {"view", "shell"}, advanced : BOOLEAN]
Videos == [want : BOOLEAN, playing : BOOLEAN, detail : BOOLEAN, req : BOOLEAN]

\* While a stop is to be obeyed the job in hand is a stopped one and nobody is on the way to
\* another; a video of the view's is drawn only in its view, which knows it; and the display
\* task, about to start one, finds nothing of its own running.
Busy(job) == job.state \in {"PENDING", "RUNNING"}
NothingComing(vid, disp, shell) ==
    /\ disp \notin {"submit song", "fill song", "submit video", "fill video"}
    /\ shell = "idle" /\ vid.req = FALSE /\ vid.want = FALSE
MediaTyped(job, vid, flags) == job \in Jobs /\ vid \in Videos /\ flags \subseteq BOOLEAN
Obeyed(job, vid, want, disp, shell, silent, odd) ==
    silent = TRUE /\ odd = FALSE => job.stop = TRUE /\ want = FALSE /\ NothingComing(vid, disp, shell)
Drawn(job, vid, mode, odd) ==
    odd = FALSE /\ Busy(job) /\ job.kind = "VIDEO" /\ job.by = "view" => mode = "video" /\ vid.playing = TRUE
OwnIsOver(job, disp) == disp \in {"submit video", "fill video"} /\ Busy(job) => job.by = "shell"
MediaInv ==
    /\ MediaTyped(m_job, m_vid, {m_odd, m_silent, m_want})
    /\ Obeyed(m_job, m_vid, m_want, m_disp, m_shell, m_silent, m_odd)
    /\ Drawn(m_job, m_vid, m_mode, m_odd) /\ OwnIsOver(m_job, m_disp)

\* For every interleaving of the media task, the display task, the touch task and the shell: a
\* stop ends the song, and a view that was left draws no more, unless one of the events the code
\* does not guard against has happened (mp3.c, player.c, vidlist.c).
THEOREM PlayerAlwaysObeys == MediaSpec => []PlayerObeys
  <1>1. MediaInit => MediaInv
    <2> SUFFICES ASSUME MediaInit PROVE MediaInv
      OBVIOUS
    <2>1. NoJob \in Jobs /\ NoJob.state = "IDLE"
      BY DEF NoJob, Jobs
    <2>2. m_vid \in Videos
      BY DEF MediaInit, Videos
    <2>3. {m_odd, m_silent, m_want} \subseteq BOOLEAN /\ m_silent # TRUE /\ m_job = NoJob
      BY DEF MediaInit
    <2> QED
      BY <2>1, <2>2, <2>3 DEF MediaInv, Busy, MediaTyped, Obeyed, Drawn, OwnIsOver
  <1>2. MediaInv /\ [MediaNext]_mediaVars => MediaInv'
    <2> SUFFICES ASSUME MediaInv, [MediaNext]_mediaVars PROVE MediaInv'
      OBVIOUS
    <2> USE DEF MediaInv, Busy, MediaTyped, Obeyed, Drawn, OwnIsOver, NothingComing, busy, Jobs, Videos, HandingOver, NoJob, Stopped, TouchIdle, ShellIdle
    <2>1. CASE mp3_task_takes
      BY <2>1 DEF mp3_task_takes
    <2>2. CASE mp3_task_ends
      BY ZenonT(60), <2>2 DEF mp3_task_ends
    <2>3. CASE player_service
      <3>1. UNCHANGED <<m_job, m_vid, m_mode, m_shell, m_silent, m_odd>>
        BY <2>3 DEF player_service
      <3>2. \/ m_want = TRUE /\ m_want' = FALSE /\ m_disp' = "submit song"
            \/ m_want' = m_want /\ m_disp' = "advance"
        BY <2>3 DEF player_service
      <3> HIDE DEF Jobs, Videos
      <3> QED
        BY <3>1, <3>2
    <2>4. CASE service_submits
      <3>1. UNCHANGED <<m_job, m_vid, m_mode, m_shell, m_silent, m_odd, m_want>>
        BY <2>4 DEF service_submits
      <3>2. m_disp = "submit song" /\ m_disp' \in {"advance", "fill song"}
        BY <2>4 DEF service_submits
      <3> HIDE DEF Jobs, Videos
      <3> QED
        BY <3>1, <3>2
    <2>5. CASE service_fills
      BY <2>5 DEF service_fills, Fill
    <2>6. CASE service_advances
      BY ZenonT(60), <2>6 DEF service_advances, Finished
    <2>7. CASE vidlist_frame
      <3>1. UNCHANGED <<m_want, m_mode, m_shell, m_silent, m_odd>> /\ m_disp = "frame"
        BY <2>7 DEF vidlist_frame
      <3>2. CASE m_vid.req = TRUE
        <4> DEFINE v == [m_vid EXCEPT !.req = FALSE, !.want = TRUE, !.detail = TRUE]
        <4>1. /\ m_job' = Stopped(m_job) /\ v.want
              /\ IF ~busy THEN m_disp' = "submit video" /\ m_vid' = v
                 ELSE m_disp' = "service" /\ m_vid' = [v EXCEPT !.playing = @ /\ (v.want \/ busy)]
          BY <2>7, <3>2 DEF vidlist_frame
        <4>2. ~(m_silent = TRUE /\ m_odd = FALSE)
          BY <3>2
        <4>3. m_job' \in Jobs /\ (Busy(m_job') <=> Busy(m_job))
              /\ m_job'.kind = m_job.kind /\ m_job'.by = m_job.by
          BY <4>1
        <4>4. v \in Videos /\ v.playing = m_vid.playing
          OBVIOUS
        <4>5. CASE busy
          <5>1. m_disp' = "service" /\ m_vid' = [v EXCEPT !.playing = v.playing /\ TRUE]
            BY <4>1, <4>5
          <5>2. m_vid' \in Videos /\ m_vid'.playing = m_vid.playing
            BY <4>4, <5>1
          <5> QED
            BY <3>1, <4>2, <4>3, <5>1, <5>2
        <4>6. CASE ~busy
          BY <3>1, <4>1, <4>2, <4>3, <4>4, <4>6
        <4> QED
          BY <4>5, <4>6
      <3>3. CASE m_vid.req # TRUE
        <4>1. /\ m_job' = m_job
              /\ IF m_vid.want /\ ~busy THEN m_disp' = "submit video" /\ m_vid' = m_vid
                 ELSE m_disp' = "service" /\ m_vid' = [m_vid EXCEPT !.playing = @ /\ (m_vid.want \/ busy)]
          BY <2>7, <3>3 DEF vidlist_frame
        <4>2. CASE m_vid.want = TRUE /\ ~busy
          BY <3>1, <4>1, <4>2
        <4>3. CASE ~(m_vid.want = TRUE /\ ~busy)
          <5> DEFINE keep == m_vid.playing /\ (m_vid.want \/ busy)
          <5>1. m_disp' = "service" /\ m_vid' = [m_vid EXCEPT !.playing = keep]
            BY <4>1, <4>3
          <5>2. keep \in BOOLEAN /\ (Busy(m_job) /\ m_vid.playing = TRUE => keep = TRUE)
            OBVIOUS
          <5> HIDE DEF keep
          <5>3. /\ m_vid' \in Videos /\ m_vid'.playing = keep
                /\ m_vid'.req = m_vid.req /\ m_vid'.want = m_vid.want
            BY <5>1, <5>2
          <5> QED
            BY <3>1, <4>1, <5>1, <5>2, <5>3
        <4> QED
          BY <4>2, <4>3
      <3> QED
        BY <3>2, <3>3
    <2>8. CASE vidlist_submits
      BY ZenonT(60), <2>8 DEF vidlist_submits
    <2>9. CASE vidlist_fills
      BY <2>9 DEF vidlist_fills
    <2>10. CASE player_touch_start
      BY <2>10 DEF player_touch_start, start
    <2>11. CASE player_touch_pause
      BY <2>11 DEF player_touch_pause
    <2>12. CASE player_touch_stop
      BY <2>12 DEF player_touch_stop, StopPressed
    <2>13. CASE vidlist_touch
      BY ZenonT(60), <2>13 DEF vidlist_touch
    <2>14. CASE desktop_chrome_touch
      BY ZenonT(60), <2>14 DEF desktop_chrome_touch, Closing
    <2>15. CASE vidlist_close
      BY ZenonT(60), <2>15 DEF vidlist_close
    <2>16. CASE open_selected
      BY ZenonT(60), <2>16 DEF open_selected
    <2>17. CASE mp3_shell_submits
      <3>1. UNCHANGED <<m_job, m_vid, m_mode, m_disp, m_odd, m_want>> /\ m_silent' = FALSE
        BY <2>17 DEF mp3_shell_submits
      <3> HIDE DEF Jobs, Videos
      <3> QED
        BY <3>1
    <2>18. CASE mp3_shell_fills
      BY <2>18 DEF mp3_shell_fills, Fill
    <2>19. CASE mp3_shell_bench_ends
      BY <2>19 DEF mp3_shell_bench_ends
    <2>20. CASE mp3_shell_controls
      <3>1. UNCHANGED <<m_vid, m_mode, m_shell, m_silent, m_disp, m_odd, m_want>>
        BY <2>20 DEF mp3_shell_controls
      <3>2. /\ m_job' \in Jobs /\ (Busy(m_job') <=> Busy(m_job))
            /\ m_job'.kind = m_job.kind /\ m_job'.by = m_job.by
            /\ m_job.stop = TRUE => m_job'.stop = TRUE
        BY ZenonT(60), <2>20 DEF mp3_shell_controls
      <3> HIDE DEF Jobs, Videos
      <3> QED
        BY <3>1, <3>2
    <2>21. CASE player_play_number
      BY <2>21 DEF player_play_number, start
    <2>22. CASE vidlist_play_number
      BY <2>22 DEF vidlist_play_number
    <2>23. CASE desktop_open
      BY ZenonT(60), <2>23 DEF desktop_open
    <2>24. CASE UNCHANGED mediaVars
      <3> HIDE DEF MediaTyped, Obeyed, Drawn, OwnIsOver
      <3> QED
        BY <2>24 DEF mediaVars
    <2> HIDE DEF MediaInv
    <2> QED
      BY <2>1, <2>2, <2>3, <2>4, <2>5, <2>6, <2>7, <2>8, <2>9, <2>10, <2>11, <2>12, <2>13, <2>14,
         <2>15, <2>16, <2>17, <2>18, <2>19, <2>20, <2>21, <2>22, <2>23, <2>24 DEF MediaNext
  <1>3. MediaInv => PlayerObeys
    BY DEF MediaInv, PlayerObeys, StopMeansSilence, OffThePanel, busy, MediaTyped, Obeyed, Drawn, Busy
  <1> QED
    BY <1>1, <1>2, <1>3, PTL DEF MediaSpec

-----------------------------------------------------------------------------
(* The view.                                                                *)

\* The launcher will be painted again: it is dirty, or something under way ends by making it so.
Marked == z_dirty \/ z_tp \in {"band", "dirty", "fill"} \/ z_calib

\* While nothing will paint it again, the launcher's panel is right as far as the frame under way
\* has got, and that frame is not one of the 3D view.
ViewInv ==
    /\ z_dirty \in BOOLEAN /\ z_calib \in BOOLEAN /\ z_msg \in BOOLEAN
    /\ z_sp = "cross" => z_calib
    /\ z_mode = "launcher" /\ ~Marked =>
           /\ z_pc \notin {"compose", "column", "end", "out"}
           /\ z_pc = "cursor" => z_panel = LauncherAt(z_sel, z_panel.cursor)
           /\ z_pc \notin {"icons", "cursor"} => z_panel = LauncherAt(z_sel, z_sel)

\* For any number of columns and any depth of the lock: whatever the touch task, the programs and
\* the shell do while a frame is painted, a launcher at rest shows the current selection, cursor
\* and message (desktop.c, kmain.c).
THEOREM LauncherStaysCurrent == ViewSpec => []LauncherIsCurrent
  <1>1. ViewInit => ViewInv
    BY DEF ViewInit, ViewInv, Marked
  <1>2. ViewInv /\ [ViewNext]_viewVars => ViewInv'
    <2> SUFFICES ASSUME ViewInv, [ViewNext]_viewVars PROVE ViewInv'
      OBVIOUS
    <2> USE DEF ViewInv, Marked, Paints, LauncherAt, bufVs, seenVs, deskVs
    <2>1. CASE task_display
      BY <2>1 DEF task_display
    <2>2. CASE desktop_frame
      <3>1. PICK old \in {FALSE, z_msg} : z_msg' = (z_msg /\ ~old)
                 /\ z_pc = "view" /\ z_pc' = IF z_dirty \/ old THEN "icons" ELSE "chrome"
        BY <2>2 DEF desktop_frame
      <3>2. z_msg' \in BOOLEAN /\ (~old => z_msg' = z_msg)
        BY <3>1
      <3>3. CASE z_dirty \/ old
        BY <2>2, <3>1, <3>2, <3>3 DEF desktop_frame
      <3>4. CASE ~(z_dirty \/ old)
        BY <2>2, <3>1, <3>2, <3>4 DEF desktop_frame
      <3> QED
        BY <3>3, <3>4
    <2>3. CASE draw_icon
      BY <2>3 DEF draw_icon
    <2>4. CASE draw_cursor
      BY <2>4 DEF draw_cursor
    <2>5. CASE view_frame
      BY <2>5 DEF view_frame
    <2>6. CASE raycast_frame
      BY <2>6 DEF raycast_frame
    <2>7. CASE compose
      BY <2>7 DEF compose
    <2>8. CASE column
      BY <2>8 DEF column
    <2>9. CASE raycast_ends
      BY <2>9 DEF raycast_ends
    <2>10. CASE desktop_overlay_into
      BY <2>10 DEF desktop_overlay_into
    <2>11. CASE desktop_chrome
      BY <2>11 DEF desktop_chrome
    <2>12. CASE draw_close
      BY <2>12 DEF draw_close
    <2>13. CASE frame_ends
      BY <2>13 DEF frame_ends
    <2>14. ASSUME NEW corner \in BOOLEAN, close_view(corner) PROVE ViewInv'
      BY <2>14 DEF close_view, touchKeeps, Touching
    <2>15. ASSUME NEW i \in Icons, desktop_press(i) PROVE ViewInv'
      BY <2>15 DEF desktop_press, touchKeeps, Touching
    <2>16. CASE open_icon
      BY <2>16 DEF open_icon, touchKeeps, Touching
    <2>17. CASE touch_last
      BY <2>17 DEF touch_last, touchKeeps
    <2>18. CASE calib_tap
      BY <2>18 DEF calib_tap
    <2>19. CASE program_ends
      BY <2>19 DEF program_ends
    <2>20. ASSUME NEW on \in BOOLEAN, desktop_set_active(on) PROVE ViewInv'
      BY <2>20 DEF desktop_set_active
    <2>21. ASSUME NEW on \in BOOLEAN, raycast_set_framebuffer(on) PROVE ViewInv'
      BY <2>21 DEF raycast_set_framebuffer
    <2>22. CASE fb_forgets
      BY <2>22 DEF fb_forgets
    <2>23. CASE calib_claims
      BY <2>23 DEF calib_claims
    <2>24. CASE draw_screen
      BY <2>24 DEF draw_screen
    <2>25. CASE UNCHANGED viewVars
      BY <2>25 DEF viewVars
    <2> HIDE DEF ViewInv
    <2> QED
      BY <2>1, <2>2, <2>3, <2>4, <2>5, <2>6, <2>7, <2>8, <2>9, <2>10, <2>11, <2>12, <2>13, <2>14,
         <2>15, <2>16, <2>17, <2>18, <2>19, <2>20, <2>21, <2>22, <2>23, <2>24, <2>25 DEF ViewNext
  <1>3. ViewInv => LauncherIsCurrent
    BY DEF ViewInv, Marked, LauncherIsCurrent
  <1> QED
    BY <1>1, <1>2, <1>3, PTL DEF ViewSpec

-----------------------------------------------------------------------------
(* The panel.                                                               *)

USE DisplayAssumption

DrawKinds == {"none", "fill", "rows", "solid", "be", "split", "text", "read", "sync"}
Stages == {"rest", "lock", "column", "page", "ramwr", "push", "held", "wait", "end", "read", "restore"}
JobRec == [pc : Stages, kind : DrawKinds, x : Int, y : Int, w : Nat, h : Nat, at : Nat, more : Nat]
Pix == [by : Artists, place : Int \X Int]

\* A primitive that sends pixels has some to send, and is not past their end.
JobOk(j) ==
    /\ j.at <= j.w * j.h
    /\ j.kind \notin {"none", "read"} => j.w >= 1 /\ j.h >= 1
    /\ j.pc # "rest" => j.kind # "none"
    /\ j.pc \notin {"rest", "lock", "read", "restore"} => j.kind # "read"

Act(j) == j.pc \notin {"rest", "lock"}

\* The lock is with whoever is inside a primitive or between two of a batch, and its
\* depth counts the two; in a panic only the panic screen draws.
LockKept(J, B, o, d, P) ==
    /\ J \in [Artists -> JobRec] /\ \A t \in Artists : JobOk(J[t])
    /\ B \subseteq Drawers /\ o \in Drawers \cup {"nobody"} /\ d \in Int /\ P \in BOOLEAN
    /\ P = FALSE => /\ J[PANIC].pc = "rest"
                    /\ \A t \in Drawers : Act(J[t]) \/ t \in B => o = t
                    /\ o = "nobody" => d = 0
                    /\ o # "nobody" => d = (IF Act(J[o]) THEN 1 ELSE 0) + (IF o \in B THEN 1 ELSE 0)
    /\ P = TRUE => \A t \in Drawers : J[t].pc = "rest"

\* The controller's stream, the line buffer and what the engine still has to send are
\* those of the one task inside.
StreamKept(J, P, mode, line, flight, by) ==
    /\ mode \in {"write", "read"} /\ flight \in Seq(Pix)
    /\ P = FALSE /\ mode = "read" => \E t \in Artists : J[t].pc = "restore"
    /\ \A t \in Artists : J[t].pc \in {"push", "held", "wait"} /\ mode = "write" => by = t
    /\ \A t \in Artists : Act(J[t]) /\ J[t].kind = "fill" => line = t
    /\ flight # <<>> => \E t \in Artists : /\ J[t].pc \in {"held", "wait"}
                                           /\ \A i \in 1 .. Len(flight) : flight[i].by = t
    /\ P = TRUE => flight = <<>>

DisplayInv ==
    /\ LockKept(s_job, s_batch, s_owner, s_depth, s_panic)
    /\ StreamKept(s_job, s_panic, s_mode, s_line, s_flight, l_by)
    /\ PixelsAreTheWindows

\* At most one context is inside a primitive.
LEMMA OneInside ==
    ASSUME NEW J, NEW B, NEW o, NEW d, NEW P, LockKept(J, B, o, d, P),
           NEW t \in Artists, NEW u \in Artists, Act(J[t]), Act(J[u])
    PROVE  t = u
  <1>1. CASE P = FALSE
    BY <1>1 DEF LockKept, Act, Artists
  <1>2. CASE P = TRUE
    BY <1>2 DEF LockKept, Act, Artists
  <1> QED
    BY <1>1, <1>2 DEF LockKept

\* A context that goes on inside its primitive, or asks for one, leaves the lock as it is.
LEMMA LockGoesOn ==
    ASSUME NEW J, NEW B, NEW o, NEW d, NEW P, LockKept(J, B, o, d, P), NEW t \in Artists,
           (t = PANIC) = P, NEW new \in JobRec, JobOk(new), Act(new) <=> Act(J[t])
    PROVE  LockKept([J EXCEPT ![t] = new], B, o, d, P)
  <1> DEFINE K == [J EXCEPT ![t] = new]
  <1>1. J \in [Artists -> JobRec] /\ P \in BOOLEAN /\ o \in Drawers \cup {"nobody"}
    BY DEF LockKept
  <1>2. K \in [Artists -> JobRec] /\ K[t] = new /\ \A u \in Artists : u # t => K[u] = J[u]
    BY <1>1
  <1> HIDE DEF K
  <1>3. \A u \in Artists : JobOk(K[u]) /\ (Act(K[u]) <=> Act(J[u]))
    BY <1>2 DEF LockKept
  <1>4. Drawers \subseteq Artists /\ PANIC \in Artists /\ PANIC \notin Drawers
    BY DEF Artists
  <1>5. ASSUME P = FALSE
        PROVE  /\ K[PANIC].pc = "rest"
               /\ \A u \in Drawers : Act(K[u]) \/ u \in B => o = u
               /\ o = "nobody" => d = 0
               /\ o # "nobody" => d = (IF Act(K[o]) THEN 1 ELSE 0) + (IF o \in B THEN 1 ELSE 0)
    <2>1. t # PANIC
      BY <1>5
    <2>2. K[PANIC].pc = "rest"
      BY <1>2, <1>4, <1>5, <2>1 DEF LockKept
    <2>3. \A u \in Drawers : Act(K[u]) \/ u \in B => o = u
      BY <1>3, <1>4, <1>5 DEF LockKept
    <2>4. o = "nobody" => d = 0
      BY <1>5 DEF LockKept
    <2>5. ASSUME o # "nobody"
          PROVE  d = (IF Act(K[o]) THEN 1 ELSE 0) + (IF o \in B THEN 1 ELSE 0)
      <3>1. o \in Artists /\ (Act(K[o]) <=> Act(J[o]))
        BY <1>1, <1>3, <1>4, <2>5
      <3>2. d = (IF Act(J[o]) THEN 1 ELSE 0) + (IF o \in B THEN 1 ELSE 0)
        BY <1>5, <2>5 DEF LockKept
      <3> QED
        BY <3>1, <3>2
    <2> QED
      BY <2>2, <2>3, <2>4, <2>5
  <1>6. ASSUME P = TRUE PROVE \A u \in Drawers : K[u].pc = "rest"
    BY <1>2, <1>4, <1>6 DEF LockKept
  <1>7. LockKept(K, B, o, d, P)
    BY <1>2, <1>3, <1>5, <1>6 DEF LockKept
  <1> QED
    BY <1>7 DEF K

\* The lock taken at the start of a primitive.
LEMMA LockTaken ==
    ASSUME NEW J, NEW B, NEW o, NEW d, NEW P, LockKept(J, B, o, d, P), NEW t \in Drawers, P = FALSE,
           o = "nobody" \/ o = t, NEW new \in JobRec, JobOk(new), Act(new), ~Act(J[t])
    PROVE  LockKept([J EXCEPT ![t] = new], B, t, d + 1, P)
  <1> DEFINE K == [J EXCEPT ![t] = new]
  <1>1. J \in [Artists -> JobRec] /\ B \subseteq Drawers /\ d \in Int
    BY DEF LockKept
  <1>2. t \in Artists /\ Drawers \subseteq Artists /\ PANIC \in Artists /\ PANIC \notin Drawers /\ t # "nobody"
    BY DEF Artists
  <1>3. K \in [Artists -> JobRec] /\ K[t] = new /\ \A u \in Artists : u # t => K[u] = J[u]
    BY <1>1, <1>2
  <1> HIDE DEF K
  <1>4. \A u \in Artists : JobOk(K[u])
    BY <1>3 DEF LockKept
  <1>5. K[PANIC].pc = "rest"
    BY <1>2, <1>3 DEF LockKept
  <1>6. ASSUME NEW u \in Drawers, Act(K[u]) \/ u \in B PROVE t = u
    <2>1. CASE u # t
      <3>1. o = u
        BY <1>2, <1>3, <1>6, <2>1 DEF LockKept
      <3> QED
        BY <3>1, <2>1
    <2> QED
      BY <2>1
  <1>7. d + 1 = (IF Act(K[t]) THEN 1 ELSE 0) + (IF t \in B THEN 1 ELSE 0)
    <2>1. d = (IF t \in B THEN 1 ELSE 0)
      <3>1. CASE o = "nobody"
        BY <3>1, <1>2 DEF LockKept
      <3>2. CASE o = t
        <4>1. d = (IF Act(J[t]) THEN 1 ELSE 0) + (IF t \in B THEN 1 ELSE 0)
          BY <3>2, <1>2 DEF LockKept
        <4> QED
          BY <4>1
      <3> QED
        BY <3>1, <3>2
    <2> QED
      BY <2>1, <1>1, <1>3
  <1>8. LockKept(K, B, t, d + 1, P)
    BY <1>1, <1>2, <1>3, <1>4, <1>5, <1>6, <1>7 DEF LockKept
  <1> QED
    BY <1>8 DEF K

\* The lock given back at its end; the owner of a batch keeps it.
LEMMA LockGiven ==
    ASSUME NEW J, NEW B, NEW o, NEW d, NEW P, LockKept(J, B, o, d, P), NEW t \in Drawers, P = FALSE,
           Act(J[t])
    PROVE  LockKept([J EXCEPT ![t] = Resting], B, IF d = 1 THEN "nobody" ELSE o, d - 1, P)
  <1> DEFINE K == [J EXCEPT ![t] = Resting]
             q == IF d = 1 THEN "nobody" ELSE o
  <1>1. J \in [Artists -> JobRec] /\ B \subseteq Drawers /\ d \in Int
    BY DEF LockKept
  <1>2. t \in Artists /\ Drawers \subseteq Artists /\ PANIC \in Artists /\ PANIC \notin Drawers /\ t # "nobody"
    BY DEF Artists
  <1>0. Resting \in JobRec /\ JobOk(Resting) /\ ~Act(Resting) /\ Resting.pc = "rest"
    BY DEF Resting, JobRec, Stages, DrawKinds, JobOk, Act
  <1>3. K \in [Artists -> JobRec] /\ K[t] = Resting /\ \A u \in Artists : u # t => K[u] = J[u]
    BY <1>0, <1>1, <1>2
  <1> HIDE DEF K
  <1>4. \A u \in Artists : JobOk(K[u])
    BY <1>0, <1>3 DEF LockKept
  <1>5. K[PANIC].pc = "rest"
    BY <1>2, <1>3 DEF LockKept
  <1>6. o = t /\ d = 1 + (IF t \in B THEN 1 ELSE 0)
    <2>1. o = t
      BY DEF LockKept
    <2>2. d = (IF Act(J[t]) THEN 1 ELSE 0) + (IF t \in B THEN 1 ELSE 0)
      BY <1>2, <2>1 DEF LockKept
    <2> QED
      BY <2>1, <2>2
  <1>7. CASE t \in B
    <2>1. q = t /\ d - 1 = 1
      BY <1>6, <1>7
    <2>2. \A u \in Drawers : Act(K[u]) \/ u \in B => q = u
      BY <1>0, <1>2, <1>3, <1>6, <2>1 DEF LockKept
    <2>3. d - 1 = (IF Act(K[q]) THEN 1 ELSE 0) + (IF q \in B THEN 1 ELSE 0)
      BY <1>0, <1>3, <1>7, <2>1
    <2> HIDE DEF q
    <2>4. LockKept(K, B, q, d - 1, P)
      BY <1>1, <1>2, <1>3, <1>4, <1>5, <2>1, <2>2, <2>3 DEF LockKept
    <2> QED
      BY <2>4 DEF K, q
  <1>8. CASE t \notin B
    <2>1. q = "nobody" /\ d - 1 = 0
      BY <1>6, <1>8
    <2>2. \A u \in Drawers : ~(Act(K[u]) \/ u \in B)
      BY <1>0, <1>2, <1>3, <1>6, <1>8 DEF LockKept
    <2> HIDE DEF q
    <2>4. LockKept(K, B, q, d - 1, P)
      BY <1>1, <1>2, <1>3, <1>4, <1>5, <2>1, <2>2 DEF LockKept
    <2> QED
      BY <2>4 DEF K, q
  <1> QED
    BY <1>7, <1>8

\* The lock taken and given around several primitives.
LEMMA BatchTaken ==
    ASSUME NEW J, NEW B, NEW o, NEW d, NEW P, LockKept(J, B, o, d, P), NEW t \in Drawers, P = FALSE,
           o = "nobody" \/ o = t, J[t].pc = "rest", t \notin B
    PROVE  LockKept(J, B \cup {t}, t, d + 1, P)
  <1>1. J \in [Artists -> JobRec] /\ B \subseteq Drawers /\ d \in Int
    BY DEF LockKept
  <1>2. t \in Artists /\ t # "nobody" /\ ~Act(J[t])
    BY DEF Artists, Act
  <1>3. d = 0
    <2>1. CASE o = "nobody"
      BY <2>1 DEF LockKept
    <2>2. CASE o = t
      <3>1. d = (IF Act(J[t]) THEN 1 ELSE 0) + (IF t \in B THEN 1 ELSE 0)
        BY <2>2, <1>2 DEF LockKept
      <3> QED
        BY <3>1, <1>2
    <2> QED
      BY <2>1, <2>2
  <1>4. \A u \in Drawers : Act(J[u]) \/ u \in B \cup {t} => t = u
    BY <1>2 DEF LockKept
  <1>5. d + 1 = (IF Act(J[t]) THEN 1 ELSE 0) + (IF t \in B \cup {t} THEN 1 ELSE 0)
    BY <1>2, <1>3
  <1>6. d + 1 \in Int /\ B \cup {t} \subseteq Drawers
    BY <1>1
  <1> QED
    BY <1>2, <1>4, <1>5, <1>6 DEF LockKept

LEMMA BatchGiven ==
    ASSUME NEW J, NEW B, NEW o, NEW d, NEW P, LockKept(J, B, o, d, P), NEW t \in Drawers, P = FALSE,
           J[t].pc = "rest", t \in B
    PROVE  LockKept(J, B \ {t}, IF d = 1 THEN "nobody" ELSE o, d - 1, P)
  <1>1. J \in [Artists -> JobRec] /\ B \subseteq Drawers /\ d \in Int
    BY DEF LockKept
  <1>2. t \in Artists /\ t # "nobody" /\ ~Act(J[t])
    BY DEF Artists, Act
  <1>3. o = t
    BY DEF LockKept
  <1>4. d = (IF Act(J[t]) THEN 1 ELSE 0) + (IF t \in B THEN 1 ELSE 0)
    BY <1>2, <1>3 DEF LockKept
  <1>5. d = 1
    BY <1>2, <1>4
  <1>6. \A u \in Drawers : ~(Act(J[u]) \/ u \in B \ {t})
    BY <1>2, <1>3 DEF LockKept
  <1>7. LockKept(J, B \ {t}, "nobody", 0, P)
    BY <1>1, <1>6 DEF LockKept
  <1> QED
    BY <1>5, <1>7

\* What one context's step leaves of the stream, when nobody else is inside.
LEMMA StreamMoves ==
    ASSUME NEW K, NEW P, NEW mode, NEW line, NEW flight, NEW by, NEW t \in Artists,
           \A u \in Artists : u # t => ~Act(K[u]),
           mode \in {"write", "read"}, flight \in Seq(Pix),
           P = FALSE /\ mode = "read" => K[t].pc = "restore",
           K[t].pc \in {"push", "held", "wait"} /\ mode = "write" => by = t,
           Act(K[t]) /\ K[t].kind = "fill" => line = t,
           flight # <<>> => /\ K[t].pc \in {"held", "wait"}
                            /\ \A i \in 1 .. Len(flight) : flight[i].by = t,
           P = TRUE => flight = <<>>
    PROVE  StreamKept(K, P, mode, line, flight, by)
  <1>1. ASSUME NEW u \in Artists, K[u].pc \in {"push", "held", "wait"}, mode = "write" PROVE by = u
    <2>1. Act(K[u])
      BY <1>1 DEF Act
    <2> QED
      BY <2>1, <1>1
  <1>2. ASSUME NEW u \in Artists, Act(K[u]), K[u].kind = "fill" PROVE line = u
    BY <1>2
  <1> QED
    BY <1>1, <1>2 DEF StreamKept

LEMMA LesserOf ==
    ASSUME NEW a \in Int, NEW b \in Int
    PROVE  Min({a, b}) \in {a, b} /\ Min({a, b}) <= a /\ Min({a, b}) <= b
  <1>1. \E x \in {a, b} : \A y \in {a, b} : x =< y
    <2>1. CASE a <= b
      BY <2>1
    <2>2. CASE b <= a
      BY <2>2
    <2> QED
      BY <2>1, <2>2
  <1>2. Min({a, b}) \in {a, b} /\ \A y \in {a, b} : Min({a, b}) =< y
    BY <1>1 DEF Min
  <1> QED
    BY <1>2

\* A span is within what is left of the primitive.
LEMMA SpanIs ==
    ASSUME NEW j \in JobRec, JobOk(j)
    PROVE  SpanOf(j) \in Nat /\ j.at + SpanOf(j) <= j.w * j.h /\ j.w * j.h \in Nat
  <1> DEFINE a == j.w * j.h - j.at
             b == CASE j.kind = "solid" -> LINE_MAX [] j.kind \in {"be", "split"} -> BE_CHUNK
                    [] OTHER -> j.w
  <1>1. j.w \in Nat /\ j.h \in Nat /\ j.at \in Nat /\ j.at <= j.w * j.h
    BY DEF JobRec, JobOk
  <1>2. j.w * j.h \in Nat
    BY <1>1
  <1>3. a \in Nat
    BY <1>1, <1>2
  <1>4. b \in Nat
    BY <1>1
  <1>5. SpanOf(j) = Min({a, b})
    BY DEF SpanOf
  <1>6. Min({a, b}) \in {a, b} /\ Min({a, b}) <= a
    <2>1. a \in Int /\ b \in Int
      BY <1>3, <1>4
    <2> HIDE DEF a, b
    <2> QED
      BY <2>1, LesserOf
  <1>7. SpanOf(j) \in Nat /\ SpanOf(j) <= a
    <2> HIDE DEF a, b
    <2> QED
      BY <1>3, <1>4, <1>5, <1>6
  <1> QED
    BY <1>1, <1>2, <1>7

Spanned(j) == [j EXCEPT !.at = j.at + SpanOf(j),
                        !.pc = IF j.at + SpanOf(j) < j.w * j.h THEN "push" ELSE "end"]

LEMMA AfterSpanIs ==
    ASSUME NEW j \in JobRec, JobOk(j), j.pc \in {"push", "held", "wait"}
    PROVE  /\ Spanned(j) \in JobRec /\ JobOk(Spanned(j)) /\ Act(Spanned(j)) /\ Spanned(j).kind = j.kind
           /\ Spanned(j).pc \in {"push", "end"}
  <1> DEFINE new == Spanned(j)
  <1>1. SpanOf(j) \in Nat /\ j.at + SpanOf(j) <= j.w * j.h /\ j.at \in Nat
    BY SpanIs DEF JobRec
  <1> DEFINE a == j.at + SpanOf(j)
             s == IF j.at + SpanOf(j) < j.w * j.h THEN "push" ELSE "end"
  <1>2. a \in Nat /\ a <= j.w * j.h /\ s \in {"push", "end"} /\ new = [j EXCEPT !.at = a, !.pc = s]
    BY <1>1 DEF Spanned
  <1> HIDE DEF a, s, new
  <1>3. /\ new \in JobRec /\ new.at = a /\ new.pc = s /\ new.kind = j.kind /\ new.w = j.w
        /\ new.h = j.h
    BY <1>2 DEF JobRec, Stages
  <1>4. JobOk(new) /\ Act(new) /\ new.pc \in {"push", "end"}
    BY <1>2, <1>3 DEF JobOk, Act
  <1> QED
    BY <1>3, <1>4 DEF new

LEMMA PlaceIs ==
    ASSUME NEW x \in Int, NEW y \in Int, NEW w \in Int, NEW h \in Int, NEW k \in Int, w >= 1, h >= 1
    PROVE  Place(<<x, x + w - 1>>, <<y, y + h - 1>>, k) \in Int \X Int
  <1> DEFINE p == x + w - 1
             q == y + h - 1
  <1>1. p - x + 1 = w /\ q - y + 1 = h
    OBVIOUS
  <1> HIDE DEF p, q
  <1>2. Place(<<x, p>>, <<y, q>>, k) = <<x + (k % w), y + ((k \div w) % h)>>
    <2>1. /\ <<x, p>>[1] = x /\ <<x, p>>[2] = p /\ <<y, q>>[1] = y /\ <<y, q>>[2] = q
      OBVIOUS
    <2> QED
      BY <1>1, <2>1, Zenon DEF Place
  <1>3. k % w \in Int /\ k \div w \in Int
    OBVIOUS
  <1>4. (k \div w) % h \in Int
    BY <1>3
  <1>5. Place(<<x, p>>, <<y, q>>, k) \in Int \X Int
    BY <1>2, <1>3, <1>4
  <1> QED
    BY <1>5 DEF p, q

\* The pixels of a span carry the task that sends them.
LEMMA PixelsAre ==
    ASSUME s_job \in [Artists -> JobRec], NEW t \in Artists, JobOk(s_job[t]), s_job[t].pc = "push",
           s_job[t].kind = "fill" => s_line = t
    PROVE  Pixels(t) \in Seq(Pix) /\ \A i \in 1 .. Len(Pixels(t)) : Pixels(t)[i].by = t
  <1> DEFINE j == s_job[t]
             n == SpanOf(j)
  <1>1. j \in JobRec /\ n \in Nat
    BY SpanIs
  <1>2. j.x \in Int /\ j.y \in Int /\ j.w \in Int /\ j.h \in Int /\ j.w >= 1 /\ j.h >= 1 /\ j.at \in Int
    BY <1>1 DEF JobRec, JobOk
  <1>3. ASSUME NEW k \in Int PROVE Place(RECT(j)[1], RECT(j)[2], k) \in Int \X Int
    <2>1. RECT(j)[1] = <<j.x, j.x + j.w - 1>> /\ RECT(j)[2] = <<j.y, j.y + j.h - 1>>
      BY DEF RECT
    <2> DEFINE x == j.x
               y == j.y
               w == j.w
               h == j.h
    <2>2. x \in Int /\ y \in Int /\ w \in Int /\ h \in Int /\ w >= 1 /\ h >= 1
      BY <1>2
    <2>3. RECT(j)[1] = <<x, x + w - 1>> /\ RECT(j)[2] = <<y, y + h - 1>>
      BY <2>1
    <2> HIDE DEF x, y, w, h, j
    <2>4. Place(<<x, x + w - 1>>, <<y, y + h - 1>>, k) \in Int \X Int
      BY <1>3, <2>2, PlaceIs
    <2> QED
      BY <2>3, <2>4, Zenon
  <1>4. Pixels(t) = [i \in 1 .. n |-> [by |-> IF j.kind = "fill" THEN s_line ELSE t,
                                      place |-> Place(RECT(j)[1], RECT(j)[2], j.at + i - 1)]]
    BY DEF Pixels
  <1> HIDE DEF n
  <1>5. ASSUME NEW i \in 1 .. n
        PROVE  Pixels(t)[i] \in Pix /\ Pixels(t)[i].by = t
    <2>1. Pixels(t)[i] = [by |-> t, place |-> Place(RECT(j)[1], RECT(j)[2], j.at + i - 1)]
      BY <1>4
    <2>2. j.at + i - 1 \in Int
      BY <1>1, <1>2
    <2>3. Place(RECT(j)[1], RECT(j)[2], j.at + i - 1) \in Int \X Int
      BY <1>3, <2>2
    <2> QED
      BY <2>1, <2>3 DEF Pix
  <1> HIDE DEF j
  <1>6. Pixels(t) \in [1 .. n -> Pix]
    BY <1>4, <1>5
  <1>7. Pixels(t) \in Seq(Pix) /\ Len(Pixels(t)) = n
    BY <1>1, <1>6
  <1> QED
    BY <1>5, <1>7

\* Pixels that land belong to the window they land in.
LEMMA LandsRight ==
    ASSUME NEW px, Lands(px), NEW t, Sends => l_by = t, \A i \in 1 .. Len(px) : px[i].by = t
    PROVE  PixelsAreTheWindows' /\ l_by' = l_by
  <1>1. l_by' = l_by
    BY DEF Lands
  <1>2. CASE Sends /\ l_at >= 0
    <2>1. l_seen' = Landed(px) /\ l_by = t
      BY <1>2 DEF Lands
    <2>2. \A w \in Landed(px) : w.by = w.win
      BY <2>1 DEF Landed
    <2> QED
      BY <1>1, <2>1, <2>2 DEF PixelsAreTheWindows
  <1>3. CASE ~(Sends /\ l_at >= 0)
    BY <1>1, <1>3 DEF Lands, PixelsAreTheWindows
  <1> QED
    BY <1>2, <1>3

-----------------------------------------------------------------------------

\* A step of the context inside a primitive, which stays inside.
LEMMA InsideStep ==
    ASSUME DisplayInv, NEW t \in Artists, Live(t), Act(s_job[t]), NEW new \in JobRec, JobOk(new),
           Act(new), s_job' = [s_job EXCEPT ![t] = new], UNCHANGED <<lockVs, s_panic>>,
           s_mode' \in {"write", "read"}, s_flight' \in Seq(Pix),
           s_panic = FALSE /\ s_mode' = "read" => new.pc = "restore",
           new.pc \in {"push", "held", "wait"} /\ s_mode' = "write" => l_by' = t,
           new.kind = "fill" => s_line' = t,
           s_flight' # <<>> => /\ new.pc \in {"held", "wait"}
                               /\ \A i \in 1 .. Len(s_flight') : s_flight'[i].by = t,
           s_panic = TRUE => s_flight' = <<>>, PixelsAreTheWindows'
    PROVE  DisplayInv'
  <1> DEFINE K == [s_job EXCEPT ![t] = new]
  <1>1. LockKept(s_job, s_batch, s_owner, s_depth, s_panic) /\ s_job \in [Artists -> JobRec]
    BY DEF DisplayInv, LockKept
  <1>2. LockKept(K, s_batch, s_owner, s_depth, s_panic)
    BY <1>1, LockGoesOn DEF Live
  <1>3. K[t] = new /\ K = s_job'
    BY <1>1
  <1> HIDE DEF K
  <1>4. \A u \in Artists : u # t => ~Act(K[u])
    BY <1>2, <1>3, OneInside
  <1>5. StreamKept(K, s_panic, s_mode', s_line', s_flight', l_by')
    BY <1>3, <1>4, StreamMoves
  <1> QED
    BY <1>2, <1>3, <1>5 DEF DisplayInv, lockVs

\* A step that leaves every context, the lock and the stream where they are, or moves only
\* one that is outside its primitive.
LEMMA OutsideStep ==
    ASSUME DisplayInv, NEW t \in Artists, ~Act(s_job[t]), NEW new \in JobRec, ~Act(new),
           s_job' = [s_job EXCEPT ![t] = new],
           LockKept(s_job', s_batch', s_owner', s_depth', s_panic),
           UNCHANGED <<s_panic, s_mode, s_line, s_flight, l_by, l_seen>>
    PROVE  DisplayInv'
  <1> DEFINE K == [s_job EXCEPT ![t] = new]
  <1>1. s_job \in [Artists -> JobRec]
    BY DEF DisplayInv, LockKept
  <1>2. K = s_job' /\ K[t] = new /\ \A u \in Artists : u # t => K[u] = s_job[u]
    BY <1>1
  <1> HIDE DEF K
  <1>3. \A u \in Artists : /\ Act(K[u]) <=> Act(s_job[u])
                           /\ Act(K[u]) => K[u] = s_job[u]
    BY <1>2
  <1>4. StreamKept(s_job, s_panic, s_mode, s_line, s_flight, l_by)
    BY DEF DisplayInv
  <1>5. \A u \in Artists : s_job[u].pc \in {"push", "held", "wait", "restore"} => K[u] = s_job[u]
    BY <1>3 DEF Act
  <1>6. \A u \in Artists : K[u].pc \in {"push", "held", "wait", "restore"} => K[u] = s_job[u]
    BY <1>3 DEF Act
  <1>7. StreamKept(K, s_panic, s_mode, s_line, s_flight, l_by)
    <2>1. s_mode \in {"write", "read"} /\ s_flight \in Seq(Pix) /\ (s_panic = TRUE => s_flight = <<>>)
      BY <1>4 DEF StreamKept
    <2>2. s_panic = FALSE /\ s_mode = "read" => \E u \in Artists : K[u].pc = "restore"
      BY <1>4, <1>5 DEF StreamKept
    <2>3. \A u \in Artists : K[u].pc \in {"push", "held", "wait"} /\ s_mode = "write" => l_by = u
      BY <1>4, <1>6 DEF StreamKept
    <2>4. \A u \in Artists : Act(K[u]) /\ K[u].kind = "fill" => s_line = u
      BY <1>3, <1>4 DEF StreamKept
    <2>5. s_flight # <<>> => \E u \in Artists : /\ K[u].pc \in {"held", "wait"}
                                                /\ \A i \in 1 .. Len(s_flight) : s_flight[i].by = u
      BY <1>4, <1>5 DEF StreamKept
    <2> QED
      BY <2>1, <2>2, <2>3, <2>4, <2>5 DEF StreamKept
  <1> QED
    BY <1>2, <1>7 DEF DisplayInv, PixelsAreTheWindows

\* The lock and the job of a context that asks for a primitive.
LEMMA ClipIs ==
    ASSUME NEW from \in Int, NEW len \in Int, NEW limit \in Int, len >= 1, from < limit
    PROVE  Clip(from, len, limit) \in Nat /\ Clip(from, len, limit) >= 1
  <1> DEFINE d == limit - from
  <1>1. d \in Int /\ d >= 1
    OBVIOUS
  <1> HIDE DEF d
  <1>2. Min({len, d}) \in {len, d}
    BY <1>1, LesserOf
  <1>3. Clip(from, len, limit) = Min({len, d})
    BY DEF Clip, d
  <1> QED
    BY <1>1, <1>2, <1>3

Asked(t) == \E new \in JobRec : JobOk(new) /\ ~Act(new) /\ s_job' = [s_job EXCEPT ![t] = new]

LEMMA StartIs ==
    ASSUME NEW kind \in DrawKinds \ {"none"}, NEW x \in Int, NEW y \in Int, NEW w \in Nat, NEW h \in Nat,
           NEW more \in Nat, kind = "read" \/ (w >= 1 /\ h >= 1), NEW t \in Artists, Starts(t, kind, x, y, w, h, more)
    PROVE  Asked(t)
  <1> DEFINE new == [pc |-> "lock", kind |-> kind, x |-> x, y |-> y, w |-> w, h |-> h, at |-> 0, more |-> more]
  <1>1. new \in JobRec /\ new.pc = "lock" /\ new.kind = kind /\ new.w = w /\ new.h = h /\ new.at = 0
    BY DEF JobRec, Stages
  <1>2. w * h \in Nat
    OBVIOUS
  <1>3. s_job' = [s_job EXCEPT ![t] = new]
    BY DEF Starts
  <1> HIDE DEF new
  <1>4. JobOk(new) /\ ~Act(new)
    BY <1>1, <1>2 DEF JobOk, Act
  <1> QED
    BY <1>1, <1>3, <1>4 DEF Asked

LEMMA DrawsKeeps ==
    ASSUME DisplayInv, NEW t \in Artists, Draws(t)
    PROVE  DisplayInv'
  <1>1. ASSUME NEW r \in Requests
        PROVE  /\ r.x \in Int /\ r.y \in Int /\ r.w \in Nat /\ r.h \in Nat /\ r.w >= 1 /\ r.h >= 1
               /\ r.x < DISP_W => Clip(r.x, r.w, DISP_W) \in Nat /\ Clip(r.x, r.w, DISP_W) >= 1
               /\ r.y < DISP_H => Clip(r.y, r.h, DISP_H) \in Nat /\ Clip(r.y, r.h, DISP_H) >= 1
    <2> DEFINE x == r.x
               y == r.y
               w == r.w
               h == r.h
    <2>1. x \in Int /\ y \in Int /\ w \in Nat /\ h \in Nat /\ w >= 1 /\ h >= 1
      BY DEF Requests
    <2>2. DISP_W \in Int /\ DISP_H \in Int
      BY DEF DISP_W, DISP_H
    <2> HIDE DEF x, y, w, h
    <2>3. ASSUME x < DISP_W PROVE Clip(x, w, DISP_W) \in Nat /\ Clip(x, w, DISP_W) >= 1
      BY <2>1, <2>2, <2>3, ClipIs
    <2>4. ASSUME y < DISP_H PROVE Clip(y, h, DISP_H) \in Nat /\ Clip(y, h, DISP_H) >= 1
      BY <2>1, <2>2, <2>4, ClipIs
    <2> QED
      BY <2>1, <2>3, <2>4 DEF x, y, w, h
  <1>2. Asked(t)
    <2>1. ASSUME NEW r \in Requests, display_fill_rect(t, r) PROVE Asked(t)
      <3>1. /\ Clip(r.x, r.w, DISP_W) \in Nat /\ Clip(r.x, r.w, DISP_W) >= 1
            /\ Clip(r.y, r.h, DISP_H) \in Nat /\ Clip(r.y, r.h, DISP_H) >= 1
            /\ r.x \in Int /\ r.y \in Int
        BY <1>1, <2>1 DEF display_fill_rect
      <3>2. Starts(t, "fill", r.x, r.y, Clip(r.x, r.w, DISP_W), Clip(r.y, r.h, DISP_H), 0)
        BY <2>1 DEF display_fill_rect
      <3>3. "fill" \in DrawKinds \ {"none"} /\ 0 \in Nat
        BY DEF DrawKinds
      <3> QED
        BY <3>1, <3>2, <3>3, StartIs
    <2>2. ASSUME NEW r \in Requests, NEW kind \in {"rows", "solid"}, display_blit(t, r, kind) PROVE Asked(t)
      <3>1. /\ Clip(r.x, r.w, DISP_W) \in Nat /\ Clip(r.x, r.w, DISP_W) >= 1
            /\ Clip(r.y, r.h, DISP_H) \in Nat /\ Clip(r.y, r.h, DISP_H) >= 1
            /\ r.x \in Int /\ r.y \in Int
        BY <1>1, <2>2 DEF display_blit
      <3>2. Starts(t, kind, r.x, r.y, Clip(r.x, r.w, DISP_W), Clip(r.y, r.h, DISP_H), 0)
        BY <2>2 DEF display_blit
      <3>3. kind \in DrawKinds \ {"none"} /\ 0 \in Nat
        BY <2>2 DEF DrawKinds
      <3> QED
        BY <3>1, <3>2, <3>3, StartIs
    <2>3. ASSUME NEW r \in Requests, display_blit_be(t, r) \/ display_blit_be_start(t, r) PROVE Asked(t)
      <3>1. \E kind \in {"be", "split"} : Starts(t, kind, r.x, r.y, r.w, r.h, 0)
        BY <2>3 DEF display_blit_be, display_blit_be_start
      <3>2. PICK kind \in {"be", "split"} : Starts(t, kind, r.x, r.y, r.w, r.h, 0)
        BY <3>1
      <3>3. kind \in DrawKinds \ {"none"} /\ 0 \in Nat
        BY <3>2 DEF DrawKinds
      <3> QED
        BY <1>1, <3>2, <3>3, StartIs
    <2>4. ASSUME NEW r \in Requests, display_text(t, r) PROVE Asked(t)
      <3>1. Starts(t, "text", r.x, r.y, 1, 2, 1)
        BY <2>4 DEF display_text
      <3>2. "text" \in DrawKinds \ {"none"} /\ 1 \in Nat /\ 2 \in Nat /\ 1 >= 1 /\ 2 >= 1
        BY DEF DrawKinds
      <3> QED
        BY <1>1, <3>1, <3>2, StartIs
    <2>5. ASSUME display_panel_read(t) PROVE Asked(t)
      <3>1. Starts(t, "read", 0, 0, 0, 0, 0)
        BY <2>5 DEF display_panel_read
      <3>2. "read" \in DrawKinds \ {"none"} /\ 0 \in Nat /\ 0 \in Int
        BY DEF DrawKinds
      <3> QED
        BY <3>1, <3>2, StartIs
    <2>6. ASSUME display_resync(t) PROVE Asked(t)
      <3>1. Starts(t, "sync", 0, 0, 2, 2, 0)
        BY <2>6 DEF display_resync, DISP_W, DISP_H
      <3>2. "sync" \in DrawKinds \ {"none"} /\ 0 \in Nat /\ 0 \in Int /\ 2 \in Nat /\ 2 >= 1
        BY DEF DrawKinds
      <3> QED
        BY <3>1, <3>2, StartIs
    <2> QED
      BY <2>1, <2>2, <2>3, <2>4, <2>5, <2>6 DEF Draws
  <1>3. PICK new \in JobRec : JobOk(new) /\ ~Act(new) /\ s_job' = [s_job EXCEPT ![t] = new]
    BY <1>2 DEF Asked
  <1>4. /\ UNCHANGED <<lockVs, s_line, s_dma, s_panic, s_mode, s_flight, panelVs>>
        /\ ~Act(s_job[t]) /\ (t = PANIC) = s_panic
    BY DEF Draws, Act, Live
  <1>5. LockKept(s_job, s_batch, s_owner, s_depth, s_panic)
    BY DEF DisplayInv
  <1>6. LockKept([s_job EXCEPT ![t] = new], s_batch, s_owner, s_depth, s_panic)
    BY <1>3, <1>4, <1>5, LockGoesOn
  <1>7. LockKept(s_job', s_batch', s_owner', s_depth', s_panic)
    BY <1>3, <1>4, <1>6 DEF lockVs
  <1> QED
    BY <1>3, <1>4, <1>7, OutsideStep DEF panelVs

LEMMA LocksKeeps ==
    ASSUME DisplayInv, NEW t \in Artists, Locks(t)
    PROVE  DisplayInv'
  <1> DEFINE j == s_job[t]
             pc == IF s_job[t].kind = "read" THEN "read" ELSE "column"
             new == [s_job[t] EXCEPT !.pc = pc]
             K == [s_job EXCEPT ![t] = new]
  <1>1. /\ LockKept(s_job, s_batch, s_owner, s_depth, s_panic) /\ s_job \in [Artists -> JobRec]
        /\ StreamKept(s_job, s_panic, s_mode, s_line, s_flight, l_by)
        /\ PixelsAreTheWindows /\ JobOk(j) /\ j \in JobRec /\ s_panic \in BOOLEAN
    BY DEF DisplayInv, LockKept
  <1>2. /\ (t = PANIC) = s_panic /\ j.pc = "lock" /\ draw_lock(t) /\ s_job' = K
        /\ s_line' = (IF j.kind = "fill" THEN t ELSE s_line)
        /\ UNCHANGED <<s_dma, s_panic, s_mode, s_flight, panelVs>>
    BY DEF Locks, Live, Moves
  <1>3. /\ new \in JobRec /\ new.pc = pc /\ new.kind = j.kind /\ new.at = j.at /\ new.w = j.w /\ new.h = j.h
        /\ pc \in {"read", "column"} /\ (pc # "read" => j.kind # "read")
    BY <1>1 DEF JobRec, Stages
  <1>4. JobOk(new) /\ Act(new) /\ ~Act(j)
    BY <1>1, <1>2, <1>3 DEF JobOk, Act
  <1>5. K[t] = new /\ \A u \in Artists : u # t => K[u] = s_job[u]
    BY <1>1
  <1> HIDE DEF pc, new
  <1>6. LockKept(K, s_batch', s_owner', s_depth', s_panic)
    <2>1. CASE s_panic = FALSE
      <3>1. t \in Drawers
        BY <1>2, <2>1 DEF Artists
      <3>2. s_owner \in {"nobody", t} /\ s_owner' = t /\ s_depth' = s_depth + 1 /\ s_batch' = s_batch
        BY <1>2, <2>1 DEF draw_lock
      <3>3. LockKept(K, s_batch, t, s_depth + 1, s_panic)
        BY <1>1, <1>3, <1>4, <2>1, <3>1, <3>2, LockTaken
      <3> QED
        BY <3>2, <3>3
    <2>2. CASE s_panic = TRUE
      <3>1. UNCHANGED <<s_batch, s_owner, s_depth>>
        BY <1>2, <2>2 DEF draw_lock, lockVs
      <3>2. LockKept(K, s_batch, s_owner, s_depth, s_panic)
        <4>1. K \in [Artists -> JobRec] /\ \A u \in Artists : JobOk(K[u])
          BY <1>1, <1>3, <1>4, <1>5 DEF LockKept
        <4>2. t = PANIC /\ \A u \in Drawers : K[u] = s_job[u]
          BY <1>2, <1>5, <2>2 DEF Artists
        <4> HIDE DEF K
        <4> QED
          BY <1>1, <2>2, <4>1, <4>2 DEF LockKept
      <3> QED
        BY <3>1, <3>2
    <2> QED
      BY <1>1, <2>1, <2>2
  <1> HIDE DEF K
  <1>7. \A u \in Artists : u # t => ~Act(K[u])
    BY <1>4, <1>5, <1>6, OneInside
  <1>8. \A u \in Artists : ~Act(s_job[u])
    BY <1>4, <1>5, <1>7
  <1>9. s_flight = <<>> /\ s_mode \in {"write", "read"} /\ (s_panic = FALSE => s_mode # "read")
    <2>1. \A u \in Artists : s_job[u].pc \notin {"held", "wait", "restore"}
      BY <1>8 DEF Act
    <2> QED
      BY <1>1, <2>1 DEF StreamKept
  <1>10. StreamKept(K, s_panic, s_mode, s_line', s_flight, l_by)
    <2>1. s_flight \in Seq(Pix)
      BY <1>1 DEF StreamKept
    <2>2. K[t].pc \notin {"push", "held", "wait"}
      BY <1>3, <1>5
    <2>3. Act(K[t]) /\ K[t].kind = "fill" => s_line' = t
      BY <1>2, <1>3, <1>5
    <2> QED
      BY <1>7, <1>9, <2>1, <2>2, <2>3, StreamMoves
  <1> QED
    BY <1>1, <1>2, <1>6, <1>10 DEF DisplayInv, PixelsAreTheWindows, panelVs

\* What a context inside a primitive may count on.
LEMMA Inside ==
    ASSUME DisplayInv, NEW t \in Artists, Act(s_job[t])
    PROVE  /\ s_job[t] \in JobRec /\ JobOk(s_job[t]) /\ s_job \in [Artists -> JobRec] /\ s_panic \in BOOLEAN
           /\ s_mode \in {"write", "read"} /\ s_flight \in Seq(Pix)
           /\ s_panic = FALSE /\ s_mode = "read" => s_job[t].pc = "restore"
           /\ s_job[t].pc \in {"push", "held", "wait"} /\ s_mode = "write" => l_by = t
           /\ s_job[t].kind = "fill" => s_line = t
           /\ s_flight # <<>> => /\ s_job[t].pc \in {"held", "wait"}
                                 /\ \A i \in 1 .. Len(s_flight) : s_flight[i].by = t
           /\ s_panic = TRUE => s_flight = <<>>
           /\ PixelsAreTheWindows
  <1>1. /\ LockKept(s_job, s_batch, s_owner, s_depth, s_panic)
        /\ StreamKept(s_job, s_panic, s_mode, s_line, s_flight, l_by) /\ PixelsAreTheWindows
    BY DEF DisplayInv
  <1>2. \A u \in Artists : Act(s_job[u]) => u = t
    BY <1>1, OneInside
  <1>3. \A u \in Artists : s_job[u].pc \in {"restore", "held", "wait"} => u = t
    BY <1>2 DEF Act
  <1>4. s_job \in [Artists -> JobRec] /\ JobOk(s_job[t]) /\ s_panic \in BOOLEAN
    BY <1>1 DEF LockKept
  <1>5. s_panic = FALSE /\ s_mode = "read" => s_job[t].pc = "restore"
    BY <1>1, <1>3 DEF StreamKept
  <1>6. s_flight # <<>> => /\ s_job[t].pc \in {"held", "wait"}
                           /\ \A i \in 1 .. Len(s_flight) : s_flight[i].by = t
    <2>1. SUFFICES ASSUME s_flight # <<>>
                   PROVE  /\ s_job[t].pc \in {"held", "wait"}
                          /\ \A i \in 1 .. Len(s_flight) : s_flight[i].by = t
      OBVIOUS
    <2>2. PICK u \in Artists : /\ s_job[u].pc \in {"held", "wait"}
                               /\ \A i \in 1 .. Len(s_flight) : s_flight[i].by = u
      BY <1>1, <2>1 DEF StreamKept
    <2> QED
      BY <1>3, <2>2
  <1> QED
    BY <1>1, <1>4, <1>5, <1>6 DEF StreamKept

LEMMA WindowKeeps ==
    ASSUME DisplayInv, NEW t \in Artists, set_window(t)
    PROVE  DisplayInv'
  <1> DEFINE j == s_job[t]
  <1>1. Live(t) /\ j.pc \in {"column", "page", "ramwr"}
        /\ UNCHANGED <<lockVs, s_line, s_dma, s_panic, s_mode, s_flight, l_seen>>
    BY DEF set_window
  <1>2. Act(j)
    BY <1>1 DEF Act
  <1>3. /\ j \in JobRec /\ JobOk(j) /\ s_job \in [Artists -> JobRec] /\ s_panic \in BOOLEAN
        /\ s_mode \in {"write", "read"} /\ s_flight \in Seq(Pix)
        /\ s_panic = FALSE => s_mode # "read"
        /\ j.kind = "fill" => s_line = t
        /\ s_flight = <<>> /\ PixelsAreTheWindows
    BY <1>1, <1>2, Inside
  <1>4. PICK pc \in {"page", "ramwr", "end", "push"} : /\ s_job' = [s_job EXCEPT ![t].pc = pc]
                                                       /\ pc = "push" /\ s_mode = "write" => l_by' = t
    BY DEF set_window, Moves, write_cmd_data, Sends
  <1> DEFINE new == [j EXCEPT !.pc = pc]
  <1>5. /\ new \in JobRec /\ new.pc = pc /\ new.kind = j.kind /\ new.at = j.at /\ new.w = j.w /\ new.h = j.h
        /\ s_job' = [s_job EXCEPT ![t] = new]
    BY <1>3, <1>4 DEF JobRec, Stages
  <1> HIDE DEF new
  <1>6. JobOk(new) /\ Act(new)
    BY <1>1, <1>3, <1>5 DEF JobOk, Act
  <1>7. PixelsAreTheWindows'
    BY <1>1, <1>3 DEF PixelsAreTheWindows
  <1> QED
    BY <1>1, <1>2, <1>3, <1>4, <1>5, <1>6, <1>7, InsideStep

LEMMA TxKeeps ==
    ASSUME DisplayInv, NEW t \in Artists, spi2_tx(t)
    PROVE  DisplayInv'
  <1> DEFINE j == s_job[t]
             new == Spanned(s_job[t])
  <1>1. /\ Live(t) /\ j.pc = "push" /\ Lands(Pixels(t)) /\ s_line' = LineAfter(t)
        /\ UNCHANGED <<lockVs, s_dma, s_panic, s_mode, s_flight>>
    BY DEF spi2_tx
  <1>2. Act(j)
    BY <1>1 DEF Act
  <1>3. /\ j \in JobRec /\ JobOk(j) /\ s_job \in [Artists -> JobRec] /\ s_panic \in BOOLEAN
        /\ s_mode \in {"write", "read"} /\ s_flight \in Seq(Pix)
        /\ s_panic = FALSE => s_mode # "read"
        /\ s_mode = "write" => l_by = t
        /\ j.kind = "fill" => s_line = t
        /\ s_flight = <<>>
    BY <1>1, <1>2, Inside
  <1>4. s_job' = [s_job EXCEPT ![t] = new]
    BY <1>3 DEF spi2_tx, AfterSpan, Spanned
  <1>5. new \in JobRec /\ JobOk(new) /\ Act(new) /\ new.kind = j.kind /\ new.pc \in {"push", "end"}
    BY <1>1, <1>3, AfterSpanIs
  <1> HIDE DEF new
  <1>6. \A i \in 1 .. Len(Pixels(t)) : Pixels(t)[i].by = t
    BY <1>1, <1>3, PixelsAre
  <1>7. PixelsAreTheWindows' /\ l_by' = l_by
    BY <1>1, <1>3, <1>6, LandsRight DEF Sends
  <1>8. new.kind = "fill" => s_line' = t
    BY <1>1, <1>3, <1>5 DEF LineAfter
  <1> QED
    BY <1>1, <1>2, <1>3, <1>4, <1>5, <1>7, <1>8, InsideStep

LEMMA GoKeeps ==
    ASSUME DisplayInv, NEW t \in Artists, spi2_dma_go(t)
    PROVE  DisplayInv'
  <1> DEFINE j == s_job[t]
             pc == IF j.kind = "split" THEN "held" ELSE "wait"
             new == [j EXCEPT !.pc = pc]
  <1>1. /\ Live(t) /\ j.pc = "push" /\ s_flight' = Pixels(t) /\ s_line' = LineAfter(t)
        /\ UNCHANGED <<lockVs, s_dma, s_panic, s_mode, panelVs>> /\ ~s_panic
    BY DEF spi2_dma_go, ByDma
  <1>2. Act(j)
    BY <1>1 DEF Act
  <1>3. /\ j \in JobRec /\ JobOk(j) /\ s_job \in [Artists -> JobRec] /\ s_panic \in BOOLEAN
        /\ s_mode \in {"write", "read"}
        /\ s_panic = FALSE => s_mode # "read"
        /\ s_mode = "write" => l_by = t
        /\ j.kind = "fill" => s_line = t
        /\ PixelsAreTheWindows
    BY <1>1, <1>2, Inside
  <1>4. s_job' = [s_job EXCEPT ![t] = new]
    BY <1>3 DEF spi2_dma_go, Moves
  <1>5. /\ new \in JobRec /\ new.pc \in {"held", "wait"} /\ new.kind = j.kind /\ new.at = j.at
        /\ new.w = j.w /\ new.h = j.h
    BY <1>3 DEF JobRec, Stages
  <1> HIDE DEF new, pc
  <1>6. JobOk(new) /\ Act(new)
    BY <1>1, <1>3, <1>5 DEF JobOk, Act
  <1>7. Pixels(t) \in Seq(Pix) /\ \A i \in 1 .. Len(Pixels(t)) : Pixels(t)[i].by = t
    BY <1>1, <1>3, PixelsAre
  <1>8. PixelsAreTheWindows' /\ l_by' = l_by /\ (new.kind = "fill" => s_line' = t)
    BY <1>1, <1>3, <1>5 DEF PixelsAreTheWindows, panelVs, LineAfter
  <1> QED
    BY <1>1, <1>2, <1>3, <1>4, <1>5, <1>6, <1>7, <1>8, InsideStep

LEMMA WaitKeeps ==
    ASSUME DisplayInv, NEW t \in Artists, spi2_dma_wait(t) \/ spi2_dma_timeout(t)
    PROVE  DisplayInv'
  <1> DEFINE j == s_job[t]
             new == Spanned(s_job[t])
  <1>1. /\ Live(t) /\ j.pc = "wait" /\ AfterSpan(t) /\ s_flight' = <<>>
        /\ UNCHANGED <<lockVs, s_line, s_panic, s_mode, panelVs>>
    BY DEF spi2_dma_wait, spi2_dma_timeout
  <1>2. Act(j)
    BY <1>1 DEF Act
  <1>3. /\ j \in JobRec /\ JobOk(j) /\ s_job \in [Artists -> JobRec] /\ s_panic \in BOOLEAN
        /\ s_mode \in {"write", "read"}
        /\ s_panic = FALSE => s_mode # "read"
        /\ s_mode = "write" => l_by = t
        /\ j.kind = "fill" => s_line = t
        /\ PixelsAreTheWindows
    BY <1>1, <1>2, Inside
  <1>4. s_job' = [s_job EXCEPT ![t] = new]
    BY <1>1, <1>3 DEF AfterSpan, Spanned
  <1>5. new \in JobRec /\ JobOk(new) /\ Act(new) /\ new.kind = j.kind /\ new.pc \in {"push", "end"}
    BY <1>1, <1>3, AfterSpanIs
  <1> HIDE DEF new
  <1>6. <<>> \in Seq(Pix)
    OBVIOUS
  <1>7. PixelsAreTheWindows' /\ l_by' = l_by /\ (new.kind = "fill" => s_line' = t)
    BY <1>1, <1>3, <1>5 DEF PixelsAreTheWindows, panelVs
  <1> QED
    BY <1>1, <1>2, <1>3, <1>4, <1>5, <1>6, <1>7, InsideStep

LEMMA FinishKeeps ==
    ASSUME DisplayInv, NEW t \in Artists, display_blit_be_finish(t)
    PROVE  DisplayInv'
  <1> DEFINE j == s_job[t]
             new == [j EXCEPT !.pc = "wait"]
  <1>1. /\ Live(t) /\ j.pc = "held"
        /\ UNCHANGED <<lockVs, s_line, s_dma, s_panic, s_mode, s_flight, panelVs>>
    BY DEF display_blit_be_finish
  <1>2. Act(j)
    BY <1>1 DEF Act
  <1>3. /\ j \in JobRec /\ JobOk(j) /\ s_job \in [Artists -> JobRec] /\ s_panic \in BOOLEAN
        /\ s_mode \in {"write", "read"} /\ s_flight \in Seq(Pix)
        /\ s_panic = FALSE => s_mode # "read"
        /\ s_mode = "write" => l_by = t
        /\ j.kind = "fill" => s_line = t
        /\ s_flight # <<>> => \A i \in 1 .. Len(s_flight) : s_flight[i].by = t
        /\ s_panic = TRUE => s_flight = <<>>
        /\ PixelsAreTheWindows
    BY <1>1, <1>2, Inside
  <1>4. s_job' = [s_job EXCEPT ![t] = new]
    BY <1>3 DEF display_blit_be_finish, Moves
  <1>5. /\ new \in JobRec /\ new.pc = "wait" /\ new.kind = j.kind /\ new.at = j.at
        /\ new.w = j.w /\ new.h = j.h
    BY <1>3 DEF JobRec, Stages
  <1> HIDE DEF new
  <1>6. JobOk(new) /\ Act(new)
    BY <1>1, <1>3, <1>5 DEF JobOk, Act
  <1>7. PixelsAreTheWindows' /\ l_by' = l_by
    BY <1>1, <1>3 DEF PixelsAreTheWindows, panelVs
  <1> QED
    BY <1>1, <1>2, <1>3, <1>4, <1>5, <1>6, <1>7, InsideStep

\* The lock given back: the stream has nothing left of the primitive.
LEMMA UnlocksKeeps ==
    ASSUME DisplayInv, NEW t \in Artists, Live(t), Act(s_job[t]), Unlocks(t), s_flight = <<>>,
           UNCHANGED <<s_panic, s_line, s_flight>>, s_mode' \in {"write", "read"},
           s_panic = FALSE => s_mode' = "write", PixelsAreTheWindows'
    PROVE  DisplayInv'
  <1> DEFINE K == [s_job EXCEPT ![t] = Resting]
  <1>1. /\ LockKept(s_job, s_batch, s_owner, s_depth, s_panic) /\ s_job \in [Artists -> JobRec]
        /\ s_panic \in BOOLEAN /\ s_flight \in Seq(Pix)
    BY DEF DisplayInv, LockKept, StreamKept
  <1>2. s_job' = K /\ draw_unlock(t) /\ (t = PANIC) = s_panic
    BY DEF Unlocks, Live
  <1>3. Resting \in JobRec /\ JobOk(Resting) /\ ~Act(Resting) /\ Resting.pc = "rest"
    BY DEF Resting, JobRec, Stages, DrawKinds, JobOk, Act
  <1>4. K[t] = Resting /\ \A u \in Artists : u # t => K[u] = s_job[u]
    BY <1>1
  <1>5. LockKept(K, s_batch', s_owner', s_depth', s_panic)
    <2>1. CASE s_panic = FALSE
      <3>1. t \in Drawers
        BY <1>2, <2>1 DEF Artists
      <3>2. /\ s_depth' = s_depth - 1 /\ s_owner' = (IF s_depth = 1 THEN "nobody" ELSE s_owner)
            /\ s_batch' = s_batch
        BY <1>2, <2>1 DEF draw_unlock
      <3>3. LockKept(K, s_batch, IF s_depth = 1 THEN "nobody" ELSE s_owner, s_depth - 1, s_panic)
        BY <1>1, <2>1, <3>1, LockGiven
      <3> QED
        BY <3>2, <3>3
    <2>2. CASE s_panic = TRUE
      <3>1. UNCHANGED <<s_batch, s_owner, s_depth>>
        BY <1>2, <2>2 DEF draw_unlock, lockVs
      <3>2. LockKept(K, s_batch, s_owner, s_depth, s_panic)
        <4>1. K \in [Artists -> JobRec] /\ \A u \in Artists : JobOk(K[u])
          BY <1>1, <1>3, <1>4 DEF LockKept
        <4>2. t = PANIC /\ \A u \in Drawers : K[u] = s_job[u]
          BY <1>2, <1>4, <2>2 DEF Artists
        <4> HIDE DEF K
        <4> QED
          BY <1>1, <2>2, <4>1, <4>2 DEF LockKept
      <3> QED
        BY <3>1, <3>2
    <2> QED
      BY <1>1, <2>1, <2>2
  <1>6. \A u \in Artists : Act(s_job[u]) => u = t
    BY <1>1, OneInside
  <1> HIDE DEF K
  <1>7. \A u \in Artists : ~Act(K[u])
    BY <1>3, <1>4, <1>6
  <1>8. StreamKept(K, s_panic, s_mode', s_line', s_flight', l_by')
    <2>1. s_flight' = <<>> /\ s_flight' \in Seq(Pix)
      BY <1>1
    <2>2. ~Act(K[t]) /\ K[t].pc \notin {"push", "held", "wait"}
      BY <1>3, <1>4, <1>7
    <2> QED
      BY <1>7, <2>1, <2>2, StreamMoves
  <1> QED
    BY <1>2, <1>5, <1>8 DEF DisplayInv

LEMMA EndKeeps ==
    ASSUME DisplayInv, NEW t \in Artists, push_end(t)
    PROVE  DisplayInv'
  <1> DEFINE j == s_job[t]
  <1>1. /\ Live(t) /\ j.pc = "end" /\ l_seen' = {}
        /\ UNCHANGED <<s_line, s_dma, s_panic, s_mode, s_flight>>
    BY DEF push_end
  <1>2. Act(j)
    BY <1>1 DEF Act
  <1>3. /\ j \in JobRec /\ JobOk(j) /\ s_job \in [Artists -> JobRec] /\ s_panic \in BOOLEAN
        /\ s_mode \in {"write", "read"} /\ s_flight \in Seq(Pix)
        /\ s_panic = FALSE => s_mode # "read"
        /\ j.kind = "fill" => s_line = t
        /\ s_flight = <<>>
    BY <1>1, <1>2, Inside
  <1>4. PixelsAreTheWindows'
    BY <1>1 DEF PixelsAreTheWindows
  <1>5. CASE j.more > 0 /\ j.x + j.w < DISP_W
    <2> DEFINE x == j.x + j.w
               more == j.more - 1
               new == [j EXCEPT !.pc = "column", !.at = 0, !.x = x, !.more = more]
    <2>1. x \in Int /\ more \in Nat
      BY <1>3, <1>5 DEF JobRec
    <2>2. s_job' = [s_job EXCEPT ![t] = new] /\ UNCHANGED lockVs
      BY <1>3, <1>5 DEF push_end
    <2> HIDE DEF x, more
    <2>3. /\ new \in JobRec /\ new.pc = "column" /\ new.kind = j.kind /\ new.at = 0 /\ new.w = j.w
          /\ new.h = j.h
      BY <1>3, <2>1 DEF JobRec, Stages
    <2> HIDE DEF new
    <2>4. j.w * j.h \in Nat
      BY <1>3 DEF JobRec
    <2>5. JobOk(new) /\ Act(new)
      BY <1>1, <1>3, <2>3, <2>4 DEF JobOk, Act
    <2> QED
      BY <1>1, <1>2, <1>3, <1>4, <2>2, <2>3, <2>5, InsideStep
  <1>6. CASE ~(j.more > 0 /\ j.x + j.w < DISP_W)
    <2>1. Unlocks(t)
      BY <1>6 DEF push_end
    <2> QED
      BY <1>1, <1>2, <1>3, <1>4, <2>1, UnlocksKeeps
  <1> QED
    BY <1>5, <1>6

LEMMA ReadKeeps ==
    ASSUME DisplayInv, NEW t \in Artists, display_panel_read_pull(t)
    PROVE  DisplayInv'
  <1> DEFINE j == s_job[t]
  <1>1. /\ Live(t) /\ j.pc \in {"read", "restore"}
        /\ UNCHANGED <<s_line, s_dma, s_panic, s_flight, l_by, l_seen>>
    BY DEF display_panel_read_pull
  <1>2. Act(j)
    BY <1>1 DEF Act
  <1>3. /\ j \in JobRec /\ JobOk(j) /\ s_job \in [Artists -> JobRec] /\ s_panic \in BOOLEAN
        /\ s_flight \in Seq(Pix) /\ (j.kind = "fill" => s_line = t)
        /\ s_flight = <<>> /\ PixelsAreTheWindows
    BY <1>1, <1>2, Inside
  <1>4. PixelsAreTheWindows'
    BY <1>1, <1>3 DEF PixelsAreTheWindows
  <1>5. CASE j.pc = "read"
    <2> DEFINE new == [j EXCEPT !.pc = "restore"]
    <2>1. s_job' = [s_job EXCEPT ![t] = new] /\ UNCHANGED lockVs /\ s_mode' = "read"
      BY <1>3, <1>5 DEF display_panel_read_pull, Moves
    <2>2. /\ new \in JobRec /\ new.pc = "restore" /\ new.kind = j.kind /\ new.at = j.at /\ new.w = j.w
          /\ new.h = j.h
      BY <1>3 DEF JobRec, Stages
    <2> HIDE DEF new
    <2>3. JobOk(new) /\ Act(new)
      BY <1>1, <1>3, <1>5, <2>2 DEF JobOk, Act
    <2> QED
      BY <1>1, <1>2, <1>3, <1>4, <2>1, <2>2, <2>3, InsideStep
  <1>6. CASE j.pc = "restore"
    <2>1. Unlocks(t) /\ s_mode' = "write"
      BY <1>6 DEF display_panel_read_pull
    <2> QED
      BY <1>1, <1>2, <1>3, <1>4, <2>1, UnlocksKeeps
  <1> QED
    BY <1>1, <1>5, <1>6

LEMMA BatchKeeps ==
    ASSUME DisplayInv, NEW t \in Drawers, display_lock(t) \/ display_unlock(t)
    PROVE  DisplayInv'
  <1>1. /\ s_panic = FALSE /\ s_job[t].pc = "rest" /\ LockKept(s_job, s_batch, s_owner, s_depth, s_panic)
        /\ UNCHANGED <<s_job, s_line, s_dma, s_panic, s_mode, s_flight, panelVs>>
    BY DEF display_lock, display_unlock, DisplayInv, LockKept
  <1>2. LockKept(s_job, s_batch', s_owner', s_depth', s_panic)
    <2>1. CASE display_lock(t)
      <3>1. /\ s_owner' = t /\ s_depth' = s_depth + 1 /\ s_batch' = s_batch \cup {t}
            /\ s_owner \in {"nobody", t} /\ t \notin s_batch
        BY <2>1 DEF display_lock
      <3>2. LockKept(s_job, s_batch \cup {t}, t, s_depth + 1, s_panic)
        BY <1>1, <3>1, BatchTaken
      <3> QED
        BY <3>1, <3>2
    <2>2. CASE display_unlock(t)
      <3>1. /\ s_depth' = s_depth - 1 /\ s_owner' = (IF s_depth = 1 THEN "nobody" ELSE s_owner)
            /\ s_batch' = s_batch \ {t} /\ t \in s_batch
        BY <2>2 DEF display_unlock
      <3>2. LockKept(s_job, s_batch \ {t}, IF s_depth = 1 THEN "nobody" ELSE s_owner, s_depth - 1, s_panic)
        BY <1>1, <3>1, BatchGiven
      <3> QED
        BY <3>1, <3>2
    <2> QED
      BY <2>1, <2>2
  <1> QED
    BY <1>1, <1>2 DEF DisplayInv, PixelsAreTheWindows, panelVs

LEMMA EngineKeeps ==
    ASSUME DisplayInv, EngineShifts
    PROVE  DisplayInv'
  <1>1. /\ s_flight # <<>> /\ Lands(<<Head(s_flight)>>) /\ s_flight' = Tail(s_flight)
        /\ UNCHANGED <<s_job, lockVs, s_line, s_dma, s_panic, s_mode>>
    BY DEF EngineShifts
  <1>2. PICK t \in Artists : /\ s_job[t].pc \in {"held", "wait"}
                             /\ \A i \in 1 .. Len(s_flight) : s_flight[i].by = t
    BY <1>1 DEF DisplayInv, StreamKept
  <1>3. Act(s_job[t])
    BY <1>2 DEF Act
  <1>4. /\ s_flight \in Seq(Pix) /\ (s_mode = "write" => l_by = t) /\ s_panic \in BOOLEAN
        /\ s_panic = TRUE => s_flight = <<>>
    BY <1>2, <1>3, Inside
  <1>5. Head(s_flight) = s_flight[1] /\ 1 \in 1 .. Len(s_flight)
    BY <1>1, <1>4
  <1>6. \A i \in 1 .. Len(<<Head(s_flight)>>) : <<Head(s_flight)>>[i].by = t
    BY <1>2, <1>5
  <1>7. PixelsAreTheWindows' /\ l_by' = l_by
    BY <1>1, <1>4, <1>6, LandsRight DEF Sends
  <1>8. /\ Tail(s_flight) \in Seq(Pix)
        /\ \A i \in 1 .. Len(Tail(s_flight)) : Tail(s_flight)[i].by = t
    BY SMTT(30), <1>1, <1>2, <1>4
  <1>9. StreamKept(s_job, s_panic, s_mode, s_line, Tail(s_flight), l_by)
    BY <1>1, <1>2, <1>4, <1>8 DEF DisplayInv, StreamKept
  <1> QED
    BY <1>1, <1>7, <1>9 DEF DisplayInv, lockVs

\* The panic takes the panel over: no transfer is in flight and nobody else runs again.
LEMMA PanicKeeps ==
    ASSUME DisplayInv, display_enter_panic_mode
    PROVE  DisplayInv'
  <1> DEFINE K == [t \in Artists |-> Resting]
  <1>1. Resting \in JobRec /\ JobOk(Resting) /\ ~Act(Resting) /\ Resting.pc = "rest"
    BY DEF Resting, JobRec, Stages, DrawKinds, JobOk, Act
  <1>2. K \in [Artists -> JobRec] /\ \A t \in Artists : K[t] = Resting
    BY <1>1
  <1>3. /\ s_flight = <<>> /\ s_panic' = TRUE /\ s_job' = K /\ s_batch' = {} /\ UNCHANGED <<s_owner, s_depth>>
        /\ UNCHANGED <<s_line, s_dma, s_mode, s_flight, panelVs>>
    BY DEF display_enter_panic_mode
  <1> HIDE DEF K
  <1>4. LockKept(K, {}, s_owner, s_depth, TRUE)
    BY <1>1, <1>2 DEF DisplayInv, LockKept, Artists
  <1>5. StreamKept(K, TRUE, s_mode, s_line, s_flight, l_by)
    BY <1>1, <1>2, <1>3 DEF DisplayInv, StreamKept
  <1> QED
    BY <1>3, <1>4, <1>5 DEF DisplayInv, PixelsAreTheWindows, panelVs

\* A pixel on the panel was sent by the primitive whose window it landed in
\* (display.c: draw_lock, set_window, spi2_tx, the split blit, the panic screen),
\* for any tasks that draw and any buffer sizes.
THEOREM PixelsStayInTheirWindow == DisplaySpec => []PixelsAreTheWindows
<1>1. DisplayInit => DisplayInv
  <2> SUFFICES ASSUME DisplayInit PROVE DisplayInv
    OBVIOUS
  <2> DEFINE K == [t \in Artists |-> Resting]
  <2>1. Resting \in JobRec /\ JobOk(Resting) /\ ~Act(Resting) /\ Resting.pc = "rest"
    BY DEF Resting, JobRec, Stages, DrawKinds, JobOk, Act
  <2>2. K \in [Artists -> JobRec] /\ \A t \in Artists : K[t] = Resting
    BY <2>1
  <2>3. s_job = K
    BY DEF DisplayInit
  <2> HIDE DEF K
  <2>4. LockKept(K, {}, "nobody", 0, FALSE)
    BY <2>1, <2>2 DEF LockKept, Artists
  <2>5. StreamKept(K, FALSE, "write", "nobody", <<>>, "nobody")
    BY <2>1, <2>2 DEF StreamKept
  <2> QED
    BY <2>3, <2>4, <2>5 DEF DisplayInit, DisplayInv, PixelsAreTheWindows
<1>2. DisplayInv /\ [DisplayNext]_displayVars => DisplayInv'
  <2> SUFFICES ASSUME DisplayInv, [DisplayNext]_displayVars PROVE DisplayInv'
    OBVIOUS
  <2>1. CASE display_force_fifo \/ UNCHANGED displayVars
    BY <2>1 DEF display_force_fifo, displayVars, DisplayInv, PixelsAreTheWindows, panelVs, lockVs
  <2> QED
    BY <2>1, DrawsKeeps, LocksKeeps, WindowKeeps, TxKeeps, GoKeeps, WaitKeeps, FinishKeeps, EndKeeps,
       ReadKeeps, BatchKeeps, EngineKeeps, PanicKeeps DEF DisplayNext
<1>3. DisplayInv => PixelsAreTheWindows
  BY DEF DisplayInv
<1> QED
  BY <1>1, <1>2, <1>3, PTL DEF DisplaySpec

-----------------------------------------------------------------------------
(* Sampled sound (Pcm.tla).                                                 *)

\* The stream since the ring was started: a ring of silence, the samples base + 1 ..
\* base + m, then z more of silence. What is at position x of it, and the last sample
\* before position h.
Content(base, m, x) == IF x < Ring \/ x >= Ring + m THEN 0 ELSE base + (x - Ring) + 1
LastAt(base, m, h) == IF h <= Ring THEN base ELSE IF h <= Ring + m THEN base + (h - Ring) ELSE base + m

\* The writer has it as far as its last full buffer and the fill of the next; the engine
\* is where the last poll saw it and late buffers on; the ring holds the last Ring of it.
EngineOK(p, dma) ==
    \/ dma.eof = -1 /\ dma.late = 0 /\ p.played = 0
    \/ dma.eof \in 0 .. PCM_BUFS - 1 /\ (dma.eof + 1) % PCM_BUFS = (p.played + dma.late) % PCM_BUFS
WriterOK(p, w) ==
    /\ p.played \in Nat /\ p.queued \in 0 .. PCM_BUFS /\ p.fill \in 0 .. PCM_SAMPLES - 1
    /\ p.queued = PCM_BUFS => p.fill = 0
    /\ (p.played + p.queued) * PCM_SAMPLES + p.fill = w
    /\ p.last \in 0 .. PCM_BUFS - 1 /\ (p.last + 1) % PCM_BUFS = p.played % PCM_BUFS
HoldsAt(ring, base, m, x) == ring[x % Ring] = Content(base, m, x)
HoldsStream(ring, base, m, w) == \A x \in w - Ring .. w - 1 : HoldsAt(ring, base, m, x)

\* What has been heard at position h: the stream so far, in order.
HeardAt(ear, base, m, h) ==
    /\ ear.last = LastAt(base, m, h) /\ ear.bad = FALSE /\ ear.fresh \in BOOLEAN
    /\ ear.fresh = TRUE <=> (h <= Ring \/ m = 0)

\* It is, unless the engine has overtaken the writer.
EarOK(p, dma, ear, base, m, z) ==
    /\ z = 0 \/ m = 0 \/ base + m = ear.end
    /\ dma.late <= p.queued => HeardAt(ear, base, m, (p.played + dma.late) * PCM_SAMPLES)

Flow(p, dma, ring, ear, base, m, z) ==
    /\ EngineOK(p, dma) /\ WriterOK(p, Ring + m + z) /\ HoldsStream(ring, base, m, Ring + m + z)
    /\ EarOK(p, dma, ear, base, m, z)

\* What the loop has written of the file, and what it still has to.
WrittenOK(job, ear, base, m, z) ==
    /\ job.pc \in {"queue", "sound"} =>
         /\ z = 0 /\ base + m + Len(job.buf) = job.next - 1
         /\ \A i \in 1 .. Len(job.buf) : job.buf[i] = base + m + i
    /\ job.pc \in {"song", "picture", "draw"} => z = 0
    /\ job.pc \in {"song", "picture"} => (job.stop = FALSE => base + m = job.next - 1)
    /\ job.pc = "draw" => base + m = job.next - 1
    /\ job.pc = "tail" => /\ base + m = job.next - 1 /\ ear.end = base + m
                          /\ z + job.left + Len(job.buf) = Ring /\ (job.buf = <<>> \/ job.buf = << 0 >>)
    /\ job.pc \in {"drain", "silence"} =>
         \/ job.stop = TRUE /\ job.pc = "drain" /\ z = 0
         \/ base + m = job.next - 1 /\ m = a_of(VideoFrames) /\ (m = 0 \/ base + m = ear.end)
    /\ job.kind = "video" => base = 0 /\ a_of(job.chunks) - SPF <= m

\* How far the sound is when a picture's turn has come, and at the end.
PlayedOK(p, job, base, m) ==
    /\ job.kind = "video" /\ job.frame > 0 => p.played * PCM_SAMPLES >= Ring + a_of(job.frame - 1)
    /\ job.pc = "draw" => /\ p.played * PCM_SAMPLES >= Ring + a_of(job.frame)
                          /\ p.played * PCM_SAMPLES < Ring + a_of(job.frame + 1)
    /\ job.pc = "out" /\ job.stop = FALSE /\ job.err = FALSE =>
         base + m = job.next - 1 /\ p.played * PCM_SAMPLES >= Ring + m

StreamOK(p, dma, ring, job, ear) ==
    \E base, m, z \in Nat :
        /\ Flow(p, dma, ring, ear, base, m, z)
        /\ WrittenOK(job, ear, base, m, z) /\ PlayedOK(p, job, base, m)

Clean(p, ear) == p.run = TRUE /\ p.under = FALSE /\ p.blind = FALSE /\ ear.cut = FALSE

PlayPcs  == {"song", "queue", "paused", "tail"}
VideoPcs == {"open", "picture", "sound", "draw", "drain", "silence"}
SoundJobs == [pc : PlayPcs \cup VideoPcs \cup {"idle", "out", "done"}, kind : {"play", "video"},
         stop : BOOLEAN, pause : BOOLEAN, audio : BOOLEAN, next : Nat \ {0}, buf : Seq(Nat),
         left : Nat, frame : 0 .. VideoFrames, chunks : 0 .. VideoFrames, err : BOOLEAN]
JobOK(job, ear) ==
    /\ job.pc \in PlayPcs => job.kind = "play" /\ job.audio = TRUE
    /\ job.pc \in VideoPcs => job.kind = "video"
    /\ job.pc \in {"queue", "tail", "paused"} => job.next > 1
    /\ job.pc = "open" => job.next = 1 /\ job.frame = 0 /\ job.chunks = 0
    /\ job.pc = "draw" => job.frame < VideoFrames
    /\ job.pc = "tail" => job.left <= Ring
    /\ job.kind = "video" /\ job.audio = TRUE =>
         /\ job.next = a_of(job.chunks) + 1 /\ job.frame <= job.chunks
         /\ job.pc = "draw" => job.frame < job.chunks
         /\ job.chunks = VideoFrames /\ VideoFrames > 0 => ear.end = a_of(VideoFrames)

\* When the ring runs.
RunOK(p, job, ear) ==
    /\ job.pc \in {"idle", "open", "paused", "done"} \/ job.audio = FALSE \/ (job.pc = "song" /\ job.next = 1) => p.run = FALSE
    /\ ear.cut = FALSE /\ job.audio = TRUE =>
         /\ job.pc \in {"queue", "tail"} \cup (VideoPcs \ {"open"}) => p.run = TRUE
         /\ job.pc = "song" /\ job.next > 1 => p.run = TRUE
         /\ job.pc = "out" /\ job.stop = FALSE /\ job.next > 1 => p.run = TRUE

DoneOK(p, job, ear) ==
    job.pc = "done" /\ job.stop = FALSE /\ job.err = FALSE /\ job.audio = TRUE /\ job.next > 1
        /\ p.under = FALSE /\ p.blind = FALSE /\ ear.cut = FALSE
      => ear.last = job.next - 1 /\ ear.bad = FALSE

RingFields == {"run", "last", "queued", "fill", "played", "under", "blind"}
EarFields == {"last", "fresh", "end", "bad", "cut", "skipped"}
RingShape(p) == p = [f \in RingFields |-> p[f]]
EarShape(ear) == ear = [f \in EarFields |-> ear[f]]
RingTyped(p) ==
    /\ RingShape(p) /\ p.run \in BOOLEAN /\ p.under \in BOOLEAN /\ p.blind \in BOOLEAN
    /\ p.last \in Int /\ p.queued \in Nat /\ p.fill \in 0 .. PCM_SAMPLES - 1 /\ p.played \in Nat
Engines == [eof : Int, late : Nat]
Shapes(p, dma, job, ear) ==
    RingTyped(p) /\ dma \in Engines /\ job \in SoundJobs /\ EarShape(ear) /\ ear.cut \in BOOLEAN

PcmOK(p, dma, ring, job, ear) ==
    /\ Shapes(p, dma, job, ear) /\ JobOK(job, ear) /\ RunOK(p, job, ear) /\ DoneOK(p, job, ear)
    /\ Clean(p, ear) => StreamOK(p, dma, ring, job, ear)

PcmInv == PcmOK(a_pcm, a_dma, a_ring, a_job, a_ear)

-----------------------------------------------------------------------------
(* Positions in the ring.                                                   *)

LEMMA PcmNumbers ==
    /\ PCM_BUFS \in Nat /\ PCM_BUFS > 0 /\ PCM_SAMPLES \in Nat /\ PCM_SAMPLES > 0
    /\ Ring = PCM_BUFS * PCM_SAMPLES /\ Ring \in Nat /\ Ring > 0 /\ MaxLate \in Nat
  <1>1. PCM_BUFS \in Nat /\ PCM_BUFS > 0 /\ PCM_SAMPLES \in Nat /\ PCM_SAMPLES > 0 /\ MaxLate \in Nat
    BY PcmAssumption
  <1>2. ASSUME NEW x \in Nat, NEW y \in Nat, x > 0, y > 0 PROVE x * y \in Nat /\ x * y > 0
    BY <1>2
  <1> QED
    BY <1>1, <1>2 DEF Ring

\* Numbers with the same remainder are whole turns apart.
LEMMA SameRemainder ==
    ASSUME NEW m \in Int, m > 0, NEW x \in Int, NEW y \in Int, x % m = y % m
    PROVE  \E k \in Int : x - y = m * k
  <1> DEFINE p == x \div m
             q == y \div m
  <1>1. p \in Int /\ q \in Int /\ x = m * p + (x % m) /\ y = m * q + (y % m) /\ x % m \in Int
    BY DivMod, DivModType
  <1> HIDE DEF p, q
  <1>2. x - y = m * p - m * q
    BY <1>1
  <1>3. m * p - m * q = m * (p - q) /\ p - q \in Int
    BY <1>1
  <1> QED
    BY <1>2, <1>3

\* The place of sample k of buffer n.
LEMMA PlaceInRing ==
    ASSUME NEW b \in Nat, b > 0, NEW s \in Nat, s > 0, NEW n \in Int, NEW k \in 0 .. s - 1
    PROVE  (n * s + k) % (b * s) = (n % b) * s + k
  <1> DEFINE q == n \div b
             r == n % b
  <1>1. q \in Int /\ r \in Int /\ 0 <= r /\ r < b /\ n = b * q + r
    BY DivMod, DivModType
  <1> HIDE DEF q, r
  <1>2. n * s = (b * q + r) * s
    BY <1>1
  <1>3. (b * q + r) * s = (b * s) * q + r * s
    BY <1>1
  <1>4. r * s >= 0 /\ r * s <= (b - 1) * s /\ (b - 1) * s = b * s - s /\ b * s \in Int /\ b * s > 0
    BY <1>1
  <1>5. n * s + k = (b * s) * q + (r * s + k) /\ r * s + k \in 0 .. b * s - 1
    BY <1>1, <1>2, <1>3, <1>4
  <1> HIDE <1>2, <1>3
  <1>6. ((b * s) * q + (r * s + k)) % (b * s) = r * s + k
    BY <1>1, <1>4, <1>5, ModOf
  <1> QED
    BY <1>5, <1>6 DEF r

\* How far position x is behind the writer's index, on the ring.
Behind(r, y, from) == (y - from) % r
WholeTurns(r, x, y) == \E k \in Int : x - y = r * k
Near(r, w, from, x) == w - r <= x /\ x < w + r /\ WholeTurns(r, from, w)

LEMMA PlaceAfter ==
    ASSUME NEW r \in Int, r > 0, NEW w \in Int, NEW from \in Int,
           NEW x \in Int, Near(r, w, from, x)
    PROVE  Behind(r, x % r, from) = IF x >= w THEN x - w ELSE x - w + r
  <1> USE DEF Behind, Near
  <1>0. PICK k \in Int : from - w = r * k
    BY DEF WholeTurns
  <1> DEFINE q == x \div r
  <1>1. q \in Int /\ x = r * q + (x % r) /\ x % r \in Int
    BY DivMod, DivModType
  <1> HIDE DEF q
  <1>2. (x % r) - from = x - w - r * q - r * k
    BY <1>0, <1>1
  <1>3. CASE x >= w
    <2> DEFINE t == 0 - q - k
    <2>1. 0 - r * q - r * k = r * t /\ t \in Int
      BY <1>1
    <2> HIDE DEF t
    <2>2. (x % r) - from = r * t + (x - w) /\ x - w \in 0 .. r - 1
      BY <1>2, <1>3, <2>1, <1>1
    <2>3. (r * t + (x - w)) % r = x - w
      BY <2>1, <2>2, ModOf
    <2> QED
      BY <1>3, <2>2, <2>3
  <1>4. CASE x < w
    <2> DEFINE t == 0 - q - k - 1
    <2>1. 0 - r * q - r * k - r = r * t /\ t \in Int
      BY <1>1
    <2> HIDE DEF t
    <2>2. (x % r) - from = r * t + (x - w + r) /\ x - w + r \in 0 .. r - 1
      BY <1>2, <1>4, <2>1, <1>1
    <2>3. (r * t + (x - w + r)) % r = x - w + r
      BY <2>1, <2>2, ModOf
    <2> QED
      BY <1>4, <2>2, <2>3
  <1> QED
    BY <1>3, <1>4

-----------------------------------------------------------------------------
(* The ring under poll, pcm_write and the engine.                           *)

\* What a poll does to the ring's counters, as long as nothing has gone wrong.
Advance(p, dma) == (dma.eof + PCM_BUFS - p.last) % PCM_BUFS
Polled(p, dma, blind, q) ==
    /\ RingTyped(q) /\ q.run = p.run
    /\ q.under = FALSE => p.under = FALSE
    /\ q.blind = FALSE => p.blind = FALSE /\ blind = FALSE
    /\ dma.eof = -1 => q.last = p.last /\ q.played = p.played /\ q.queued = p.queued /\ q.fill = p.fill
    /\ dma.eof # -1 /\ q.under = FALSE =>
         /\ ~(Advance(p, dma) >= p.queued) /\ q.last = dma.eof /\ q.played = p.played + Advance(p, dma)
         /\ q.queued = p.queued - Advance(p, dma) /\ q.fill = p.fill

LEMMA PollIs ==
    ASSUME RingTyped(a_pcm), a_dma \in Engines, NEW b \in BOOLEAN
    PROVE  Polled(a_pcm, a_dma, b, poll(b))
  <1> DEFINE p == [a_pcm EXCEPT !.blind = @ \/ b]
             adv == Advance(a_pcm, a_dma)
             dry == adv >= p.queued
             u == p.under \/ dry
             n == IF dry THEN 1 ELSE p.queued - adv
             f == IF dry THEN 0 ELSE p.fill
             q == [p EXCEPT !.last = a_dma.eof, !.played = p.played + adv, !.under = u, !.queued = n, !.fill = f]
  <1>1. /\ RingShape(p) /\ p.run = a_pcm.run /\ p.under = a_pcm.under /\ p.last = a_pcm.last
        /\ p.played = a_pcm.played /\ p.queued = a_pcm.queued /\ p.fill = a_pcm.fill
        /\ p.blind = (a_pcm.blind \/ b)
    BY DEF RingTyped, RingShape, RingFields
  <1>0. RingTyped(p) /\ (p.blind = FALSE => a_pcm.blind = FALSE /\ b = FALSE)
    <2> HIDE DEF p
    <2> QED
      BY <1>1 DEF RingTyped
  <1>2. CASE a_dma.eof = -1
    <2>1. poll(b) = p
      BY <1>2 DEF poll
    <2> HIDE DEF p
    <2> QED
      BY <1>0, <1>1, <1>2, <2>1 DEF Polled
  <1>3. CASE a_dma.eof # -1
    <2>1. poll(b) = q
      BY <1>1, <1>3 DEF poll, Advance
    <2> HIDE DEF p
    <2>3. a_dma.eof \in Int /\ adv \in Nat
      <3>1. a_dma.eof + PCM_BUFS - a_pcm.last \in Int /\ PCM_BUFS \in Int /\ PCM_BUFS > 0
        BY PcmNumbers DEF Engines, RingTyped
      <3> QED
        BY <3>1, DivModType DEF Advance, Engines
    <2> HIDE DEF adv
    <2>4. u \in BOOLEAN /\ (u = FALSE => p.under = FALSE /\ ~(adv >= p.queued) /\ n = p.queued - adv /\ f = p.fill)
      BY <1>0 DEF RingTyped
    <2>7. n \in Nat /\ f \in 0 .. PCM_SAMPLES - 1 /\ p.played + adv \in Nat
      BY <1>0, <2>3, PcmNumbers DEF RingTyped
    <2> HIDE DEF u, n, f
    <2>2. /\ q.run = p.run /\ q.last = a_dma.eof /\ q.played = p.played + adv
          /\ q.queued = n /\ q.fill = f /\ q.under = u /\ q.blind = p.blind
      BY <1>1 DEF RingShape, RingFields
    <2>5. RingShape(q)
      BY <1>1 DEF RingShape, RingFields
    <2> HIDE DEF q
    <2>6. RingTyped(q)
      BY <1>0, <2>2, <2>3, <2>4, <2>5, <2>7 DEF RingTyped
    <2> QED
      BY <1>0, <1>1, <1>3, <2>1, <2>2, <2>4, <2>6 DEF Polled, adv
  <1> QED
    BY <1>2, <1>3

\* A poll that trusts the index and does not find the ring dry counts exactly the
\* buffers the engine has finished.
Trusted(p, q, dma, dma2, blind) ==
    /\ dma.late \in Nat /\ blind \in Lapped(dma.late) /\ Polled(p, dma, blind, q)
    /\ q.under = FALSE /\ q.blind = FALSE /\ dma2.eof = dma.eof /\ dma2.late = 0

LEMMA PollFollows ==
    ASSUME NEW p, NEW dma, NEW dma2, NEW ring, NEW ear, NEW q, NEW blind, NEW base \in Nat, NEW m \in Nat, NEW z \in Nat,
           Trusted(p, q, dma, dma2, blind), Flow(p, dma, ring, ear, base, m, z)
    PROVE  /\ Flow(q, dma2, ring, ear, base, m, z)
           /\ q.played = p.played + dma.late /\ q.played \in Nat /\ dma.late <= p.queued
  <1>0. /\ dma.late \in Nat /\ blind \in Lapped(dma.late) /\ Polled(p, dma, blind, q)
        /\ q.under = FALSE /\ q.blind = FALSE /\ dma2.eof = dma.eof /\ dma2.late = 0
    BY DEF Trusted
  <1> USE <1>0
  <1>1. /\ EngineOK(p, dma) /\ WriterOK(p, Ring + m + z) /\ HoldsStream(ring, base, m, Ring + m + z)
        /\ EarOK(p, dma, ear, base, m, z)
    BY DEF Flow
  <1>2. dma.late \in 0 .. PCM_BUFS - 1
    <2>1. blind = FALSE
      BY DEF Polled
    <2>2. CASE dma.late # PCM_BUFS - 1
      <3>1. blind = (dma.late >= PCM_BUFS)
        BY <2>2 DEF Lapped
      <3>2. ~(dma.late >= PCM_BUFS)
        BY <2>1, <3>1
      <3> QED
        BY <2>2, <3>2, PcmNumbers
    <2> QED
      BY <2>2, PcmNumbers
  <1>3. /\ p.played \in Nat /\ p.queued \in 0 .. PCM_BUFS /\ p.fill \in 0 .. PCM_SAMPLES - 1
        /\ p.queued = PCM_BUFS => p.fill = 0
        /\ (p.played + p.queued) * PCM_SAMPLES + p.fill = Ring + m + z
        /\ p.last \in 0 .. PCM_BUFS - 1 /\ (p.last + 1) % PCM_BUFS = p.played % PCM_BUFS
    BY <1>1 DEF WriterOK
  <1>4. CASE dma.eof = -1
    <2>1. dma.late = 0 /\ p.played = 0
      BY <1>1, <1>4 DEF EngineOK
    <2>2. q.last = p.last /\ q.played = p.played /\ q.queued = p.queued /\ q.fill = p.fill
      BY <1>4 DEF Polled
    <2>3. WriterOK(q, Ring + m + z) /\ EngineOK(q, dma2) /\ EarOK(q, dma2, ear, base, m, z)
      BY <2>1, <2>2, <1>1, <1>4 DEF WriterOK, EngineOK, EarOK
    <2> QED
      BY <1>1, <1>3, <2>1, <2>2, <2>3 DEF Flow
  <1>5. CASE dma.eof # -1
    <2>1. dma.eof \in 0 .. PCM_BUFS - 1 /\ (dma.eof + 1) % PCM_BUFS = (p.played + dma.late) % PCM_BUFS
      BY <1>1, <1>5 DEF EngineOK
    <2>2. Advance(p, dma) = dma.late
      <3> DEFINE e == dma.eof
                 l == p.last
                 n == p.played
                 t == dma.late
      <3>1. /\ e \in Int /\ l \in Int /\ n \in Int /\ t \in 0 .. PCM_BUFS - 1 /\ PCM_BUFS \in Int /\ PCM_BUFS > 0
            /\ (e + 1) % PCM_BUFS = (n + t) % PCM_BUFS /\ (l + 1) % PCM_BUFS = n % PCM_BUFS
        BY <1>2, <1>3, <2>1, PcmNumbers
      <3> HIDE DEF e, l, n, t
      <3> DEFINE e1 == e + 1
                 nt == n + t
                 l1 == l + 1
      <3>7. e1 \in Int /\ nt \in Int /\ l1 \in Int /\ e1 % PCM_BUFS = nt % PCM_BUFS /\ l1 % PCM_BUFS = n % PCM_BUFS
        BY <3>1
      <3> HIDE DEF e1, nt, l1
      <3>8. PCM_BUFS \in Int /\ PCM_BUFS > 0 /\ n \in Int
        BY <3>1
      <3>2. PICK i \in Int : e1 - nt = PCM_BUFS * i
        BY <3>7, <3>8, SameRemainder, ZenonT(60)
      <3>3. PICK j \in Int : l1 - n = PCM_BUFS * j
        BY <3>7, <3>8, SameRemainder, ZenonT(60)
      <3> DEFINE k == i - j + 1
      <3>4. PCM_BUFS * i - PCM_BUFS * j + PCM_BUFS = PCM_BUFS * k /\ k \in Int
        BY <3>1
      <3> HIDE DEF k
      <3>5. e + PCM_BUFS - l = PCM_BUFS * k + t
        BY <3>1, <3>2, <3>3, <3>4 DEF e1, nt, l1
      <3>6. (PCM_BUFS * k + t) % PCM_BUFS = t
        BY <3>1, <3>4, ModOf
      <3> QED
        BY <3>5, <3>6 DEF Advance, e, l, n, t
    <2>3. /\ dma.late < p.queued /\ q.last = dma.eof /\ q.played = p.played + dma.late
          /\ q.queued = p.queued - dma.late /\ q.fill = p.fill
      BY <1>2, <1>3, <1>5, <2>2 DEF Polled
    <2>4. /\ q.played + q.queued = p.played + p.queued /\ q.played \in Nat /\ q.queued \in 0 .. PCM_BUFS
          /\ q.queued = PCM_BUFS => q.fill = 0
      BY <2>3, <1>2, <1>3, PcmNumbers
    <2>5. WriterOK(q, Ring + m + z)
      BY <2>1, <2>3, <2>4, <1>3 DEF WriterOK
    <2>6. q.played + dma2.late = p.played + dma.late
      BY <2>3, <2>4
    <2>7. EngineOK(q, dma2)
      BY <2>1, <2>6 DEF EngineOK
    <2>8. EarOK(q, dma2, ear, base, m, z)
      BY <1>1, <1>2, <1>3, <2>3, <2>6 DEF EarOK
    <2> QED
      BY <1>1, <1>2, <1>3, <2>3, <2>4, <2>5, <2>7, <2>8 DEF Flow
  <1> QED
    BY <1>4, <1>5

\* A write of took samples of s behind the last one.
From(p) == (p.last + 1 + p.queued) * PCM_SAMPLES + p.fill
Put(ring, s, from, took, x) ==
    LET i == (x - from) % Ring
    IN  IF i < took THEN s[i + 1] ELSE ring[x]
Stored(ring, ring2, s, from, took) == \A x \in 0 .. Ring - 1 : ring2[x] = Put(ring, s, from, took, x)
Counted(p, q, took) ==
    /\ q.last = p.last /\ q.played = p.played
    /\ q.queued = p.queued + (p.fill + took) \div PCM_SAMPLES /\ q.fill = (p.fill + took) % PCM_SAMPLES

LEMMA RoomIs ==
    ASSUME NEW p, NEW w \in Int, WriterOK(p, w)
    PROVE  /\ Room(p) \in Nat /\ Room(p) = (p.played + PCM_BUFS) * PCM_SAMPLES - w /\ Room(p) <= Ring
  <1>1. /\ p.played \in Nat /\ p.queued \in 0 .. PCM_BUFS /\ p.fill \in 0 .. PCM_SAMPLES - 1
        /\ p.queued = PCM_BUFS => p.fill = 0
        /\ (p.played + p.queued) * PCM_SAMPLES + p.fill = w
    BY DEF WriterOK
  <1>2. (p.played + p.queued) * PCM_SAMPLES + (PCM_BUFS - p.queued) * PCM_SAMPLES = (p.played + PCM_BUFS) * PCM_SAMPLES
    BY <1>1, PcmNumbers
  <1>3. p.queued < PCM_BUFS => (PCM_BUFS - p.queued) * PCM_SAMPLES >= PCM_SAMPLES
    BY <1>1, PcmNumbers
  <1>4. (PCM_BUFS - p.queued) * PCM_SAMPLES = Ring - p.queued * PCM_SAMPLES /\ p.queued * PCM_SAMPLES >= 0
    BY <1>1, PcmNumbers
  <1>5. p.queued = PCM_BUFS => (PCM_BUFS - p.queued) * PCM_SAMPLES = 0
    BY <1>1, PcmNumbers
  <1>6. (p.played + PCM_BUFS) * PCM_SAMPLES \in Int /\ (PCM_BUFS - p.queued) * PCM_SAMPLES \in Int /\ (p.played + p.queued) * PCM_SAMPLES \in Int
         /\ p.queued * PCM_SAMPLES \in Int
    BY <1>1, PcmNumbers
  <1>7. Room(p) = (PCM_BUFS - p.queued) * PCM_SAMPLES - p.fill
    BY <1>1, <1>5, PcmNumbers DEF Room
  <1> DEFINE A == (p.played + PCM_BUFS) * PCM_SAMPLES
             C == (PCM_BUFS - p.queued) * PCM_SAMPLES
             D == (p.played + p.queued) * PCM_SAMPLES
             E == p.queued * PCM_SAMPLES
  <1>8. /\ D + C = A /\ (p.queued < PCM_BUFS => C >= PCM_SAMPLES) /\ C = Ring - E /\ E >= 0
        /\ (p.queued = PCM_BUFS => C = 0) /\ A \in Int /\ C \in Int /\ D \in Int /\ E \in Int
        /\ Room(p) = C - p.fill /\ D + p.fill = w
    BY <1>1, <1>2, <1>3, <1>4, <1>5, <1>6, <1>7
  <1> HIDE DEF A, C, D, E
  <1>9. Room(p) \in Nat /\ Room(p) = A - w /\ Room(p) <= Ring
    BY <1>1, <1>8, PcmNumbers
  <1> QED
    BY <1>9 DEF A

LEMMA CountsWrite ==
    ASSUME NEW p, NEW q, NEW w \in Int, WriterOK(p, w), NEW took \in 0 .. Room(p), Counted(p, q, took)
    PROVE  WriterOK(q, w + took)
  <1> DEFINE f == p.fill + took
             d == f \div PCM_SAMPLES
             r == f % PCM_SAMPLES
  <1>1. /\ p.played \in Nat /\ p.queued \in 0 .. PCM_BUFS /\ p.fill \in 0 .. PCM_SAMPLES - 1
        /\ p.queued = PCM_BUFS => p.fill = 0
        /\ (p.played + p.queued) * PCM_SAMPLES + p.fill = w
        /\ p.last \in 0 .. PCM_BUFS - 1 /\ (p.last + 1) % PCM_BUFS = p.played % PCM_BUFS
    BY DEF WriterOK
  <1>2. /\ Room(p) \in Nat /\ Room(p) = (p.played + PCM_BUFS) * PCM_SAMPLES - w
        /\ (p.played + PCM_BUFS) * PCM_SAMPLES \in Int
    BY <1>1, RoomIs, PcmNumbers
  <1>3. took \in Nat /\ f \in Nat
    BY <1>1, <1>2
  <1>4. d \in Int /\ r \in Int /\ 0 <= r /\ r < PCM_SAMPLES /\ f = PCM_SAMPLES * d + r
    BY <1>3, DivMod, DivModType, PcmNumbers
  <1>5. q.last = p.last /\ q.played = p.played /\ q.queued = p.queued + d /\ q.fill = r
    BY DEF Counted
  <1> HIDE DEF d, r
  <1>6. d >= 0
    BY <1>3, <1>4, PcmNumbers
  <1> DEFINE u == p.played + p.queued
  <1>7. u \in Nat /\ (u + d) * PCM_SAMPLES = u * PCM_SAMPLES + PCM_SAMPLES * d /\ u * PCM_SAMPLES \in Int
        /\ PCM_SAMPLES * d \in Int
    BY <1>1, <1>4, PcmNumbers
  <1>8. (u + d) * PCM_SAMPLES + r = w + took
    BY <1>1, <1>3, <1>4, <1>7, PcmNumbers
  <1>9. (u + d) * PCM_SAMPLES + r <= (p.played + PCM_BUFS) * PCM_SAMPLES
    BY <1>8, <1>2, <1>3
  <1>10. u + d <= p.played + PCM_BUFS /\ (u + d = p.played + PCM_BUFS => r = 0)
    <2>1. ASSUME NEW x \in Nat, NEW y \in Nat, NEW s \in Nat, s > 0, x * s + r <= y * s
          PROVE  x <= y /\ (x = y => r = 0)
      <3>1. x > y => x * s >= (y + 1) * s /\ (y + 1) * s = y * s + s
        BY <2>1
      <3>2. x * s \in Int /\ y * s \in Int
        BY <2>1
      <3> QED
        BY <2>1, <3>1, <3>2, <1>4
    <2>2. u + d \in Nat /\ p.played + PCM_BUFS \in Nat
      BY <1>1, <1>4, <1>6, <1>7, PcmNumbers
    <2> HIDE DEF u
    <2> QED
      BY <2>1, <2>2, <1>9, PcmNumbers
  <1>11. q.queued \in 0 .. PCM_BUFS /\ (q.queued = PCM_BUFS => r = 0) /\ q.played + q.queued = u + d
    BY <1>1, <1>4, <1>5, <1>6, <1>10, PcmNumbers
  <1>12. (q.played + q.queued) * PCM_SAMPLES + q.fill = w + took
    BY <1>5, <1>8, <1>11
  <1>13. q.fill \in 0 .. PCM_SAMPLES - 1
    BY <1>4, <1>5, PcmNumbers
  <1> HIDE DEF u, f
  <1> QED
    BY <1>1, <1>5, <1>11, <1>12, <1>13 DEF WriterOK

LEMMA FromIsWriter ==
    ASSUME NEW p, NEW w \in Int, WriterOK(p, w)
    PROVE  From(p) \in Int /\ WholeTurns(Ring, From(p), w)
  <1> DEFINE a == p.last + 1
             n == p.played
             u == p.queued
  <1>1. /\ a \in Int /\ n \in Int /\ u \in Int /\ p.fill \in Int /\ a % PCM_BUFS = n % PCM_BUFS
        /\ (n + u) * PCM_SAMPLES + p.fill = w
    BY DEF WriterOK
  <1>2. From(p) = (a + u) * PCM_SAMPLES + p.fill
    BY DEF From
  <1> HIDE DEF a, n, u
  <1>0. PCM_BUFS \in Int /\ PCM_BUFS > 0
    BY PcmNumbers
  <1>3. PICK k \in Int : a - n = PCM_BUFS * k
    BY <1>0, <1>1, SameRemainder
  <1>4. (a + u) * PCM_SAMPLES = (n + u) * PCM_SAMPLES + (a - n) * PCM_SAMPLES /\ (n + u) * PCM_SAMPLES \in Int
    BY <1>1, PcmNumbers
  <1>5. (PCM_BUFS * k) * PCM_SAMPLES = (PCM_BUFS * PCM_SAMPLES) * k
    BY PcmNumbers
  <1>6. (a - n) * PCM_SAMPLES = Ring * k /\ Ring * k \in Int
    BY <1>3, <1>5, PcmNumbers
  <1> QED
    BY <1>1, <1>2, <1>4, <1>6 DEF WholeTurns

LEMMA RingAfterWrite ==
    ASSUME NEW p, NEW w \in Int, WriterOK(p, w), NEW took \in 0 .. Room(p), NEW ring, NEW ring2, NEW s,
           Stored(ring, ring2, s, From(p), took), NEW x \in Int, w + took - Ring <= x, x < w + took
    PROVE  ring2[x % Ring] = IF x >= w THEN s[x - w + 1] ELSE ring[x % Ring]
  <1> DEFINE from == From(p)
             y == x % Ring
             i == Behind(Ring, y, from)
  <1>1. took \in Nat /\ took <= Ring
    BY RoomIs, PcmNumbers
  <1>2. from \in Int /\ WholeTurns(Ring, from, w)
    BY FromIsWriter
  <1>3. y \in 0 .. Ring - 1
    BY DivModType, PcmNumbers
  <1>4. ring2[y] = IF i < took THEN s[i + 1] ELSE ring[y]
    BY <1>3 DEF Stored, Put, Behind
  <1> HIDE DEF from
  <1>5. w - Ring <= x /\ x < w + Ring
    BY <1>1, PcmNumbers
  <1>0. Ring \in Int /\ Ring > 0
    BY PcmNumbers
  <1>6. i = IF x >= w THEN x - w ELSE x - w + Ring
    <2> DEFINE r == Ring
    <2>1. r \in Int /\ r > 0 /\ from \in Int /\ Near(r, w, from, x)
      BY <1>0, <1>2, <1>5 DEF Near
    <2> HIDE DEF r
    <2>2. Behind(r, x % r, from) = IF x >= w THEN x - w ELSE x - w + r
      BY <2>1, PlaceAfter, ZenonT(60)
    <2> QED
      BY <2>2 DEF r
  <1> HIDE DEF y, i
  <1>7. (x >= w => i = x - w /\ i < took) /\ (~(x >= w) => ~(i < took))
    BY <1>1, <1>6, PcmNumbers
  <1> QED
    BY <1>4, <1>7 DEF y

\* What a write adds to the stream: the file's next samples, or silence after them.
LEMMA WriteSamples ==
    ASSUME NEW p, NEW q, NEW dma, NEW ring, NEW ring2, NEW ear, NEW s, NEW base \in Nat, NEW m \in Nat,
           NEW took \in 0 .. Room(p), Flow(p, dma, ring, ear, base, m, 0), dma.late = 0, Counted(p, q, took),
           Stored(ring, ring2, s, From(p), took), \A i \in 1 .. took : s[i] = base + m + i
    PROVE  m + took \in Nat /\ Flow(q, dma, ring2, ear, base, m + took, 0)
  <1> DEFINE w == Ring + m + 0
  <1>1. /\ EngineOK(p, dma) /\ WriterOK(p, w) /\ HoldsStream(ring, base, m, w) /\ EarOK(p, dma, ear, base, m, 0)
    BY DEF Flow
  <1>2. w \in Int /\ w = Ring + m
    BY PcmNumbers
  <1> HIDE DEF w
  <1>3. took \in Nat
    BY <1>1, <1>2, RoomIs
  <1>4. WriterOK(q, w + took)
    BY <1>1, <1>2, CountsWrite
  <1>5. HoldsStream(ring2, base, m + took, w + took)
    <2> SUFFICES ASSUME NEW x \in (w + took) - Ring .. (w + took) - 1
                 PROVE  HoldsAt(ring2, base, m + took, x)
      BY DEF HoldsStream
    <2>1. x \in Int /\ w + took - Ring <= x /\ x < w + took
      BY <1>2, <1>3, PcmNumbers
    <2>2. ring2[x % Ring] = IF x >= w THEN s[x - w + 1] ELSE ring[x % Ring]
      BY <1>1, <1>2, <2>1, RingAfterWrite
    <2>3. CASE x >= w
      <3>1. x - w + 1 \in 1 .. took
        BY <1>2, <1>3, <2>1, <2>3
      <3>2. s[x - w + 1] = base + m + (x - w + 1)
        BY <3>1
      <3>3. Content(base, m + took, x) = base + (x - Ring) + 1
        BY <1>2, <1>3, <2>1, <2>3, PcmNumbers DEF Content
      <3> QED
        BY <1>2, <2>2, <2>3, <3>2, <3>3, PcmNumbers DEF HoldsAt
    <2>4. CASE x < w
      <3>1. x \in w - Ring .. w - 1
        BY <1>2, <1>3, <2>1, <2>4, PcmNumbers
      <3>2. ring[x % Ring] = Content(base, m, x)
        BY <1>1, <3>1 DEF HoldsStream, HoldsAt
      <3>3. Content(base, m + took, x) = Content(base, m, x)
        BY <1>2, <1>3, <2>1, <2>4, PcmNumbers DEF Content
      <3>4. ~(x >= w)
        BY <1>2, <2>1, <2>4
      <3> QED
        BY <2>2, <3>2, <3>3, <3>4 DEF HoldsAt
    <2> QED
      BY <1>2, <2>1, <2>3, <2>4
  <1>6. q.played = p.played /\ p.played \in Nat /\ p.queued \in Nat /\ q.queued \in Nat
    BY <1>1, <1>4, PcmNumbers DEF Counted, WriterOK
  <1>7. EngineOK(q, dma)
    BY <1>1, <1>6 DEF EngineOK
  <1>8. EarOK(q, dma, ear, base, m + took, 0)
    <2> DEFINE h == (p.played + dma.late) * PCM_SAMPLES
    <2>1. HeardAt(ear, base, m, h)
      BY <1>1, <1>6 DEF EarOK
    <2>2. h \in Int /\ h <= w
      <3>1. (p.played + p.queued) * PCM_SAMPLES + p.fill = w /\ p.fill \in Nat
        BY <1>1, PcmNumbers DEF WriterOK
      <3>2. (p.played + p.queued) * PCM_SAMPLES >= (p.played + 0) * PCM_SAMPLES /\ (p.played + p.queued) * PCM_SAMPLES \in Int
        BY <1>6, PcmNumbers
      <3>3. h = (p.played + 0) * PCM_SAMPLES /\ h \in Int
        BY <1>6, PcmNumbers
      <3> HIDE DEF h
      <3> QED
        BY <3>1, <3>2, <3>3, <1>2
    <2> HIDE DEF h
    <2>3. HeardAt(ear, base, m + took, h)
      BY <2>1, <2>2, <1>2, <1>3, PcmNumbers DEF HeardAt, LastAt
    <2> QED
      BY <2>3, <1>6 DEF EarOK, h
  <1>9. w + took = Ring + (m + took) + 0 /\ m + took \in Nat
    BY <1>2, <1>3, PcmNumbers
  <1> QED
    BY <1>4, <1>5, <1>7, <1>8, <1>9 DEF Flow

LEMMA WriteSilence ==
    ASSUME NEW p, NEW q, NEW dma, NEW ring, NEW ring2, NEW ear, NEW s, NEW base \in Nat, NEW m \in Nat, NEW z \in Nat,
           NEW took \in 0 .. Room(p), Flow(p, dma, ring, ear, base, m, z), dma.late = 0, Counted(p, q, took),
           Stored(ring, ring2, s, From(p), took), \A i \in 1 .. took : s[i] = 0, m = 0 \/ base + m = ear.end
    PROVE  z + took \in Nat /\ Flow(q, dma, ring2, ear, base, m, z + took)
  <1> DEFINE w == Ring + m + z
  <1>1. /\ EngineOK(p, dma) /\ WriterOK(p, w) /\ HoldsStream(ring, base, m, w) /\ EarOK(p, dma, ear, base, m, z)
    BY DEF Flow
  <1>2. w \in Int /\ w >= Ring + m
    BY PcmNumbers
  <1>9. took \in Nat => w + took = Ring + m + (z + took) /\ z + took \in Nat
    BY PcmNumbers
  <1> HIDE DEF w
  <1>3. took \in Nat
    BY <1>1, <1>2, RoomIs
  <1>4. WriterOK(q, w + took)
    BY <1>1, <1>2, CountsWrite
  <1>5. HoldsStream(ring2, base, m, w + took)
    <2> SUFFICES ASSUME NEW x \in (w + took) - Ring .. (w + took) - 1
                 PROVE  HoldsAt(ring2, base, m, x)
      BY DEF HoldsStream
    <2>1. x \in Int /\ w + took - Ring <= x /\ x < w + took
      BY <1>2, <1>3, PcmNumbers
    <2>2. ring2[x % Ring] = IF x >= w THEN s[x - w + 1] ELSE ring[x % Ring]
      BY <1>1, <1>2, <2>1, RingAfterWrite
    <2>3. CASE x >= w
      <3>1. x - w + 1 \in 1 .. took
        BY <1>2, <1>3, <2>1, <2>3
      <3>2. s[x - w + 1] = 0
        BY <3>1
      <3>3. Content(base, m, x) = 0
        BY <1>2, <2>1, <2>3, PcmNumbers DEF Content
      <3> QED
        BY <2>2, <2>3, <3>2, <3>3 DEF HoldsAt
    <2>4. CASE x < w
      <3>1. x \in w - Ring .. w - 1
        BY <1>2, <1>3, <2>1, <2>4, PcmNumbers
      <3>2. ring[x % Ring] = Content(base, m, x)
        BY <1>1, <3>1 DEF HoldsStream, HoldsAt
      <3>4. ~(x >= w)
        BY <1>2, <2>1, <2>4
      <3> QED
        BY <2>2, <3>2, <3>4 DEF HoldsAt
    <2> QED
      BY <1>2, <2>1, <2>3, <2>4
  <1>6. q.played = p.played /\ p.played \in Nat /\ p.queued \in Nat /\ q.queued \in Nat
    BY <1>1, <1>4, PcmNumbers DEF Counted, WriterOK
  <1>7. EngineOK(q, dma)
    BY <1>1, <1>6 DEF EngineOK
  <1>8. EarOK(q, dma, ear, base, m, z + took)
    BY <1>1, <1>6 DEF EarOK
  <1> QED
    BY <1>3, <1>4, <1>5, <1>7, <1>8, <1>9 DEF Flow

\* The engine plays a buffer of the stream, from position h.
PlaysFrom(vs, base, m, h) == \A k \in 1 .. PCM_SAMPLES : vs[k] = Content(base, m, h + k - 1)

LEMMA SoundedIs ==
    ASSUME NEW vs, NEW base \in Nat, NEW m \in Nat, NEW h \in Nat, PlaysFrom(vs, base, m, h),
           NEW k \in 0 .. PCM_SAMPLES
    PROVE  Sounded(vs, k) = {j \in 1 .. k : Ring <= h + j - 1 /\ h + j - 1 < Ring + m}
  <1>1. ASSUME NEW j \in 1 .. k
        PROVE  vs[j] # 0 <=> Ring <= h + j - 1 /\ h + j - 1 < Ring + m
    <2>1. vs[j] = Content(base, m, h + j - 1)
      BY <1>1, PcmNumbers DEF PlaysFrom
    <2> QED
      BY <2>1, PcmNumbers DEF Content
  <1> QED
    BY <1>1 DEF Sounded

LEMMA HeardUpToIs ==
    ASSUME NEW vs, NEW ear, NEW base \in Nat, NEW m \in Nat, NEW h \in Nat, PlaysFrom(vs, base, m, h),
           ear.last = LastAt(base, m, h), NEW k \in 0 .. PCM_SAMPLES
    PROVE  HeardUpTo(ear, vs, k) = LastAt(base, m, h + k)
  <1> DEFINE T == Sounded(vs, k)
             Last(j) == j \in T /\ \A i \in T : i <= j
  <1>1. T = {j \in 1 .. k : Ring <= h + j - 1 /\ h + j - 1 < Ring + m}
    BY SoundedIs
  <1>2. k \in Nat /\ Ring \in Nat
    BY PcmNumbers
  <1> HIDE DEF T
  <1>3. CASE T = {}
    <2>1. HeardUpTo(ear, vs, k) = ear.last
      BY <1>3 DEF HeardUpTo, T
    <2>2. CASE h + k <= Ring \/ h >= Ring + m
      BY <1>2, <2>1, <2>2 DEF LastAt
    <2>3. CASE h + k > Ring /\ h < Ring + m
      <3> DEFINE j == IF h >= Ring THEN 1 ELSE Ring - h + 1
      <3>1. CASE m = 0
        BY <1>2, <2>1, <2>3, <3>1 DEF LastAt
      <3>2. CASE k = 0
        BY <1>2, <2>1, <3>2 DEF LastAt
      <3>3. CASE m > 0 /\ k > 0
        <4>1. j \in 1 .. k /\ Ring <= h + j - 1 /\ h + j - 1 < Ring + m
          BY <1>2, <2>3, <3>3
        <4> QED
          BY <1>1, <1>3, <4>1
      <3> QED
        BY <1>2, <3>1, <3>2, <3>3
    <2> QED
      BY <1>2, <2>2, <2>3
  <1>4. CASE T # {}
    <2> DEFINE j == IF h + k <= Ring + m THEN k ELSE Ring + m - h
    <2>1. PICK i \in 1 .. k : Ring <= h + i - 1 /\ h + i - 1 < Ring + m
      BY <1>1, <1>4
    <2>2. j \in 1 .. k /\ Ring <= h + j - 1 /\ h + j - 1 < Ring + m
      BY <1>2, <2>1
    <2>3. \A n \in 1 .. k : h + n - 1 < Ring + m => n <= j
      BY <1>2
    <2>4. j \in T /\ \A n \in T : n <= j
      BY <1>1, <2>2, <2>3
    <2> DEFINE l == CHOOSE n \in T : \A n2 \in T : n2 <= n
    <2>5. l \in T /\ \A n2 \in T : n2 <= l
      BY <2>4
    <2>6. HeardUpTo(ear, vs, k) = vs[l]
      BY <1>4 DEF HeardUpTo, T
    <2> HIDE DEF l
    <2>7. l = j
      <3>1. l <= j /\ j <= l /\ l \in 1 .. k
        BY <2>4, <2>5, <1>1
      <3> QED
        BY <3>1, <2>2, <1>2
    <2>8. vs[j] = Content(base, m, h + j - 1)
      BY <2>2, <1>2, PcmNumbers DEF PlaysFrom
    <2>9. Content(base, m, h + j - 1) = base + (h + j - 1 - Ring) + 1
      BY <2>2, <1>2 DEF Content
    <2>10. LastAt(base, m, h + k) = base + (h + j - Ring)
      BY <2>2, <1>2 DEF LastAt
    <2> HIDE DEF j
    <2> QED
      BY <2>2, <2>6, <2>7, <2>8, <2>9, <2>10, <1>2
  <1> QED
    BY <1>3, <1>4

LEMMA InOrder ==
    ASSUME NEW vs, NEW ear, NEW base \in Nat, NEW m \in Nat, NEW z \in Nat, NEW h \in Nat, PlaysFrom(vs, base, m, h),
           HeardAt(ear, base, m, h), h + PCM_SAMPLES <= Ring + m + z, z = 0 \/ m = 0 \/ base + m = ear.end,
           NEW k \in 1 .. PCM_SAMPLES
    PROVE  ~OutOfOrder(ear, vs, k)
  <1> DEFINE before == HeardUpTo(ear, vs, k - 1)
             x == h + k - 1
  <1>1. k - 1 \in 0 .. PCM_SAMPLES /\ k \in Nat /\ Ring \in Nat /\ h + (k - 1) = x /\ x \in Nat
    BY PcmNumbers
  <1>2. before = LastAt(base, m, x)
    BY <1>1, HeardUpToIs DEF HeardAt
  <1>3. Sounded(vs, k - 1) = {j \in 1 .. k - 1 : Ring <= h + j - 1 /\ h + j - 1 < Ring + m}
    BY <1>1, SoundedIs
  <1>4. vs[k] = Content(base, m, x)
    BY DEF PlaysFrom
  <1> HIDE DEF before
  <1>5. CASE Ring <= x /\ x < Ring + m
    <2>1. vs[k] = base + (x - Ring) + 1 /\ before = base + (x - Ring)
      BY <1>1, <1>2, <1>4, <1>5 DEF Content, LastAt
    <2> HIDE DEF x
    <2>2. vs[k] # 0 /\ vs[k] = before + 1
      BY <2>1, <1>1, <1>5
    <2> QED
      BY <2>2 DEF OutOfOrder, before
  <1>6. CASE x < Ring
    <2>1. vs[k] = 0
      BY <1>1, <1>4, <1>6 DEF Content
    <2>2. Sounded(vs, k - 1) = {}
      BY <1>1, <1>3, <1>6
    <2>3. ear.fresh = TRUE
      BY <1>1, <1>6 DEF HeardAt
    <2> QED
      BY <2>1, <2>2, <2>3 DEF OutOfOrder
  <1>7. CASE x >= Ring + m
    <2>1. vs[k] = 0
      BY <1>1, <1>4, <1>7 DEF Content
    <2>2. CASE m = 0
      <3>1. Sounded(vs, k - 1) = {}
        BY <1>1, <1>3, <2>2
      <3>2. ear.fresh = TRUE
        BY <2>2 DEF HeardAt
      <3> QED
        BY <2>1, <3>1, <3>2 DEF OutOfOrder
    <2>3. CASE m > 0
      <3>1. z # 0
        BY <1>1, <1>7, PcmNumbers
      <3>2. before = base + m
        BY <1>1, <1>2, <1>7, <2>3 DEF LastAt
      <3>3. before = ear.end
        BY <2>3, <3>1, <3>2
      <3> QED
        BY <2>1, <3>3 DEF OutOfOrder, before
    <2> QED
      BY <2>2, <2>3
  <1> QED
    BY <1>1, <1>5, <1>6, <1>7

LEMMA HearsOn ==
    ASSUME NEW vs, NEW ear, NEW base \in Nat, NEW m \in Nat, NEW z \in Nat, NEW h \in Nat, PlaysFrom(vs, base, m, h),
           HeardAt(ear, base, m, h), h + PCM_SAMPLES <= Ring + m + z, z = 0 \/ m = 0 \/ base + m = ear.end,
           EarShape(ear)
    PROVE  HeardAt(Hear(ear, vs), base, m, h + PCM_SAMPLES)
  <1> DEFINE ear2 == Hear(ear, vs)
             T == Sounded(vs, PCM_SAMPLES)
  <1>1. PCM_SAMPLES \in 0 .. PCM_SAMPLES /\ PCM_SAMPLES \in Nat /\ PCM_SAMPLES > 0 /\ Ring \in Nat
    BY PcmNumbers
  <1>2. /\ ear2.last = HeardUpTo(ear, vs, PCM_SAMPLES)
        /\ ear2.fresh = (ear.fresh /\ T = {})
        /\ ear2.bad = (ear.bad \/ \E k \in 1 .. PCM_SAMPLES : OutOfOrder(ear, vs, k))
    BY DEF EarShape, EarFields, Hear
  <1> HIDE DEF ear2
  <1>3. ear2.last = LastAt(base, m, h + PCM_SAMPLES)
    BY <1>1, <1>2, HeardUpToIs DEF HeardAt
  <1>4. ear.bad = FALSE /\ ear.fresh \in BOOLEAN /\ (ear.fresh = TRUE <=> (h <= Ring \/ m = 0))
    BY DEF HeardAt
  <1>5. ~ \E k \in 1 .. PCM_SAMPLES : OutOfOrder(ear, vs, k)
    BY InOrder
  <1>6. ear2.bad = FALSE
    BY <1>2, <1>4, <1>5
  <1>7. T = {j \in 1 .. PCM_SAMPLES : Ring <= h + j - 1 /\ h + j - 1 < Ring + m}
    BY <1>1, SoundedIs
  <1> HIDE DEF T
  <1>8. T = {} /\ (h <= Ring \/ m = 0) <=> (h + PCM_SAMPLES <= Ring \/ m = 0)
    <2>1. CASE m = 0
      BY <1>1, <1>7, <2>1
    <2>2. CASE m > 0 /\ h + PCM_SAMPLES <= Ring
      BY <1>1, <1>7, <2>2
    <2>3. CASE m > 0 /\ h + PCM_SAMPLES > Ring /\ h <= Ring
      <3> DEFINE j == Ring - h + 1
      <3>1. j \in 1 .. PCM_SAMPLES /\ Ring <= h + j - 1 /\ h + j - 1 < Ring + m
        BY <1>1, <2>3
      <3>2. T # {}
        BY <1>7, <3>1
      <3> QED
        BY <1>1, <2>3, <3>2
    <2>4. CASE m > 0 /\ h > Ring
      BY <1>1, <2>4
    <2> QED
      BY <1>1, <2>1, <2>2, <2>3, <2>4
  <1>9. ear2.fresh \in BOOLEAN /\ (ear2.fresh = TRUE <=> (h + PCM_SAMPLES <= Ring \/ m = 0))
    BY <1>2, <1>4, <1>8
  <1> QED
    BY <1>3, <1>6, <1>9 DEF HeardAt, ear2

\* The buffer the engine plays next is the stream's, as long as the writer is ahead.
BufferAt(ring, b) == [k \in 1 .. PCM_SAMPLES |-> ring[b * PCM_SAMPLES + k - 1]]

LEMMA EnginePlays ==
    ASSUME NEW p, NEW dma, NEW dma2, NEW ring, NEW ear, NEW base \in Nat, NEW m \in Nat, NEW z \in Nat,
           Flow(p, dma, ring, ear, base, m, z), dma.late \in Nat, EarShape(ear),
           NEW b, b = (dma.eof + 1) % PCM_BUFS, dma2.eof = b, dma2.late = dma.late + 1
    PROVE  Flow(p, dma2, ring, Hear(ear, BufferAt(ring, b)), base, m, z)
  <1> DEFINE ear2 == Hear(ear, BufferAt(ring, b))
             n == p.played + dma.late
             w == Ring + m + z
  <1>1. EngineOK(p, dma) /\ WriterOK(p, w) /\ HoldsStream(ring, base, m, w) /\ EarOK(p, dma, ear, base, m, z)
    BY DEF Flow
  <1>2. /\ p.played \in Nat /\ p.queued \in 0 .. PCM_BUFS /\ p.fill \in 0 .. PCM_SAMPLES - 1
        /\ p.queued = PCM_BUFS => p.fill = 0
        /\ (p.played + p.queued) * PCM_SAMPLES + p.fill = w
    BY <1>1 DEF WriterOK
  <1>3. n \in Nat /\ w \in Nat /\ p.played + dma2.late = n + 1
    BY <1>2, PcmNumbers
  <1>4. b = n % PCM_BUFS
    <2>1. CASE dma.eof = -1
      <3>1. dma.late = 0 /\ p.played = 0
        BY <1>1, <2>1 DEF EngineOK
      <3> QED
        BY <2>1, <3>1
    <2>2. CASE dma.eof # -1
      BY <1>1, <2>2 DEF EngineOK
    <2> QED
      BY <2>1, <2>2
  <1> HIDE DEF n, w
  <1>5. b \in 0 .. PCM_BUFS - 1
    BY <1>3, <1>4, PcmNumbers, DivModType
  <1>6. (b + 1) % PCM_BUFS = (n + 1) % PCM_BUFS
    <2>1. PICK k \in Int : b = n - PCM_BUFS * k
      <3>1. PCM_BUFS \in Int /\ PCM_BUFS > 0 /\ n \in Int
        BY <1>3, PcmNumbers
      <3>2. n = PCM_BUFS * (n \div PCM_BUFS) + b /\ n \div PCM_BUFS \in Int
        BY <3>1, <1>4, DivMod, DivModType
      <3> DEFINE k == n \div PCM_BUFS
      <3> HIDE DEF k
      <3>3. b = n - PCM_BUFS * k /\ k \in Int
        BY <3>1, <3>2, <1>5 DEF k
      <3> QED
        BY <3>3
    <2> DEFINE c == b + 1
    <2>2. n + 1 = PCM_BUFS * k + c /\ c \in 1 .. PCM_BUFS
      BY <1>3, <1>5, <2>1, PcmNumbers
    <2>3. CASE c < PCM_BUFS
      <3>1. c % PCM_BUFS = c
        BY <1>5, <2>3, ModTurn, PcmNumbers
      <3>2. (PCM_BUFS * k + c) % PCM_BUFS = c
        <4>1. c \in 0 .. PCM_BUFS - 1
          BY <2>2, <2>3, PcmNumbers
        <4> HIDE DEF c
        <4> QED
          BY <4>1, ModOf, PcmNumbers
      <3> QED
        BY <2>2, <3>1, <3>2
    <2>4. CASE c = PCM_BUFS
      <3> DEFINE k1 == k + 1
      <3>1. PCM_BUFS * k + PCM_BUFS = PCM_BUFS * k1 /\ k1 \in Int
        BY PcmNumbers
      <3> HIDE DEF k1
      <3>2. (PCM_BUFS * k1) % PCM_BUFS = 0
        BY <3>1, ModOfMultiple, PcmNumbers
      <3>3. PCM_BUFS % PCM_BUFS = 0
        BY PcmNumbers
      <3> QED
        BY <2>2, <2>4, <3>1, <3>2, <3>3
    <2> QED
      BY <2>2, <2>3, <2>4, PcmNumbers
  <1>7. EngineOK(p, dma2)
    BY <1>3, <1>5, <1>6 DEF EngineOK
  <1>8. ear2.end = ear.end
    BY DEF EarShape, EarFields, Hear
  <1>9. ASSUME dma2.late <= p.queued PROVE HeardAt(ear2, base, m, (n + 1) * PCM_SAMPLES)
    <2> DEFINE h == n * PCM_SAMPLES
    <2>1. h \in Nat /\ (n + 1) * PCM_SAMPLES = h + PCM_SAMPLES
      BY <1>3, PcmNumbers
    <2>2. (n + 1) * PCM_SAMPLES <= w
      <3>1. n + 1 <= p.played + p.queued
        BY <1>2, <1>3, <1>9 DEF n
      <3>2. ASSUME NEW x \in Nat, NEW y \in Nat, x <= y PROVE x * PCM_SAMPLES <= y * PCM_SAMPLES /\ y * PCM_SAMPLES \in Nat
        BY <3>2, PcmNumbers
      <3>3. p.played + p.queued \in Nat /\ n + 1 \in Nat
        BY <1>2, <1>3, PcmNumbers
      <3>4. (n + 1) * PCM_SAMPLES <= (p.played + p.queued) * PCM_SAMPLES /\ (p.played + p.queued) * PCM_SAMPLES \in Nat
        BY <3>1, <3>2, <3>3
      <3> QED
        BY <3>4, <1>2, <2>1, PcmNumbers
    <2>3. h >= w - Ring
      <3>1. Room(p) \in Nat /\ Room(p) = (p.played + PCM_BUFS) * PCM_SAMPLES - w
        BY <1>1, <1>3, RoomIs
      <3>2. (p.played + PCM_BUFS) * PCM_SAMPLES = p.played * PCM_SAMPLES + Ring
        BY <1>2, PcmNumbers
      <3>3. n * PCM_SAMPLES >= p.played * PCM_SAMPLES /\ p.played * PCM_SAMPLES \in Nat
        BY <1>2, PcmNumbers DEF n
      <3> QED
        BY <3>1, <3>2, <3>3, <1>3, <2>1, PcmNumbers
    <2>4. PlaysFrom(BufferAt(ring, b), base, m, h)
      <3> SUFFICES ASSUME NEW k \in 1 .. PCM_SAMPLES
                   PROVE  BufferAt(ring, b)[k] = Content(base, m, h + k - 1)
        BY DEF PlaysFrom
      <3> DEFINE i == k - 1
      <3>1. i \in 0 .. PCM_SAMPLES - 1 /\ h + k - 1 = n * PCM_SAMPLES + i /\ b * PCM_SAMPLES + k - 1 = b * PCM_SAMPLES + i
        BY <1>5, <2>1, PcmNumbers
      <3> HIDE DEF i
      <3>2. (n * PCM_SAMPLES + i) % (PCM_BUFS * PCM_SAMPLES) = (n % PCM_BUFS) * PCM_SAMPLES + i
        <4>1. PCM_BUFS \in Nat /\ PCM_BUFS > 0 /\ PCM_SAMPLES \in Nat /\ PCM_SAMPLES > 0 /\ n \in Int
          BY <1>3, PcmNumbers
        <4> QED
          BY <3>1, <4>1, PlaceInRing
      <3> DEFINE x == n * PCM_SAMPLES + i
      <3>3. x \in w - Ring .. w - 1
        BY <3>1, <2>1, <2>2, <2>3, <1>3, PcmNumbers
      <3>4. x % Ring = b * PCM_SAMPLES + i
        BY <3>2, <1>4, PcmNumbers
      <3>5. BufferAt(ring, b)[k] = ring[b * PCM_SAMPLES + i]
        BY <3>1 DEF BufferAt
      <3> HIDE DEF x
      <3>6. ring[x % Ring] = Content(base, m, x)
        BY <3>3, <1>1 DEF HoldsStream, HoldsAt
      <3> QED
        BY <3>1, <3>4, <3>5, <3>6 DEF x
    <2>5. HeardAt(ear, base, m, h)
      <3>1. dma.late <= p.queued
        BY <1>2, <1>9
      <3> QED
        BY <3>1, <1>1 DEF EarOK, n
    <2>6. z = 0 \/ m = 0 \/ base + m = ear.end
      BY <1>1 DEF EarOK
    <2> HIDE DEF h
    <2>7. h + PCM_SAMPLES <= Ring + m + z
      BY <2>1, <2>2 DEF w
    <2>8. HeardAt(ear2, base, m, h + PCM_SAMPLES)
      BY <2>1, <2>4, <2>5, <2>6, <2>7, HearsOn
    <2> QED
      BY <2>1, <2>8
  <1>10. EarOK(p, dma2, ear2, base, m, z)
    BY <1>1, <1>3, <1>8, <1>9 DEF EarOK
  <1> QED
    BY <1>1, <1>7, <1>10 DEF Flow, w

-----------------------------------------------------------------------------
(* The steps.                                                               *)

LEMMA DivNat ==
    ASSUME NEW x \in Nat, NEW m \in Nat, m > 0
    PROVE  x \div m \in Nat /\ x % m \in 0 .. m - 1
  <1>1. x \div m \in Int /\ x % m \in Int /\ 0 <= x % m /\ x % m < m /\ x = m * (x \div m) + (x % m)
    BY DivMod, DivModType
  <1> DEFINE d == x \div m
             r == x % m
  <1> HIDE DEF d, r
  <1>2. d \in Int /\ r \in Int /\ 0 <= r /\ r < m /\ x = m * d + r
    BY <1>1 DEF d, r
  <1>3. d >= 0
    BY <1>2
  <1> QED
    BY <1>2, <1>3 DEF d, r

LEMMA LappedIsBoolean ==
    ASSUME NEW late \in Nat, NEW b \in Lapped(late)
    PROVE  b \in BOOLEAN
  <1>1. CASE late = PCM_BUFS - 1
    BY <1>1 DEF Lapped
  <1>2. CASE late # PCM_BUFS - 1
    <2>1. b = (late >= PCM_BUFS)
      BY <1>2 DEF Lapped
    <2> QED
      BY <2>1
  <1> QED
    BY <1>1, <1>2

LEMMA RoomIsNat ==
    ASSUME NEW p, RingTyped(p)
    PROVE  Room(p) \in Nat
  <1>1. p.queued \in Nat /\ p.fill \in 0 .. PCM_SAMPLES - 1
    BY DEF RingTyped
  <1>2. CASE p.queued >= PCM_BUFS
    BY <1>2 DEF Room
  <1>3. CASE p.queued < PCM_BUFS
    <2>1. (PCM_BUFS - p.queued) * PCM_SAMPLES >= PCM_SAMPLES /\ (PCM_BUFS - p.queued) * PCM_SAMPLES \in Int
      BY <1>1, <1>3, PcmNumbers
    <2>2. Room(p) = (PCM_BUFS - p.queued) * PCM_SAMPLES - p.fill
      BY <1>1, <1>3, PcmNumbers DEF Room
    <2> QED
      BY <1>1, <2>1, <2>2, PcmNumbers
  <1> QED
    BY <1>1, <1>2, <1>3, PcmNumbers

\* A call of pcm_write, on a ring that runs: what it took of s and what is left.
Wrote(p, q, dma, dma2, ring, ring2, s, b, took, rest) ==
    \E p1 : /\ Polled(p, dma, b, p1) /\ took \in 0 .. Room(p1) /\ Counted(p1, q, took)
             /\ Stored(ring, ring2, s, From(p1), took) /\ dma2.eof = dma.eof /\ dma2.late = 0
             /\ q.run = TRUE /\ q.under = p1.under /\ q.blind = p1.blind
Rest(s, took, rest) ==
    /\ took \in 0 .. Len(s) /\ rest \in Seq(Nat) /\ Len(rest) = Len(s) - took
    /\ \A i \in 1 .. Len(rest) : rest[i] = s[took + i]

LEMMA WriteIs ==
    ASSUME RingTyped(a_pcm), a_dma \in Engines, a_job \in SoundJobs, NEW s \in Seq(Nat), NEW b \in BOOLEAN, NEW pc,
           pcm_write(s, b, pc)
    PROVE  /\ RingTyped(a_pcm') /\ a_dma' \in Engines /\ a_pcm'.run = a_pcm.run /\ a_ear' = a_ear
           /\ \E took \in Nat, rest \in Seq(Nat) :
                /\ Rest(s, took, rest) /\ a_job' = [a_job EXCEPT !.buf = rest, !.pc = pc]
                /\ a_pcm.run = TRUE => Wrote(a_pcm, a_pcm', a_dma, a_dma', a_ring, a_ring', s, b, took, rest)
  <1> DEFINE p == poll(b)
             took == IF a_pcm.run THEN Least(Len(s), Room(p)) ELSE 0
             d == p.queued + (p.fill + took) \div PCM_SAMPLES
             f == (p.fill + took) % PCM_SAMPLES
             q == [p EXCEPT !.queued = d, !.fill = f]
             rest == SubSeq(s, took + 1, Len(s))
  <1>1. /\ a_pcm' = IF ~a_pcm.run THEN a_pcm ELSE q
        /\ a_ring' = [x \in 0 .. Ring - 1 |-> Put(a_ring, s, From(p), took, x)]
        /\ a_dma' = IF a_pcm.run THEN [a_dma EXCEPT !.late = 0] ELSE a_dma
        /\ a_job' = [a_job EXCEPT !.buf = rest, !.pc = pc] /\ a_ear' = a_ear
    BY DEF pcm_write, Put, From
  <1>2. Polled(a_pcm, a_dma, b, p)
    BY PollIs
  <1>3. RingTyped(p) /\ p.run = a_pcm.run
    BY <1>2 DEF Polled
  <1> HIDE DEF p
  <1>4. Len(s) \in Nat /\ Room(p) \in Nat
    BY <1>3, RoomIsNat
  <1>5. took \in 0 .. Len(s) /\ took \in Nat /\ (a_pcm.run = TRUE => took \in 0 .. Room(p))
    BY <1>4 DEF Least
  <1> HIDE DEF took
  <1>6. Rest(s, took, rest)
    <2> DEFINE c == took + 1
    <2>1. c \in Int /\ Len(s) \in Int /\ (c <= Len(s) \/ Len(s) - c + 1 = 0) /\ \A i \in c .. Len(s) : s[i] \in Nat
      BY <1>4, <1>5, ElementOfSeq
    <2> HIDE DEF c
    <2>5. /\ SubSeq(s, c, Len(s)) \in Seq(Nat)
          /\ Len(SubSeq(s, c, Len(s))) = IF c <= Len(s) THEN Len(s) - c + 1 ELSE 0
          /\ \A i \in 1 .. Len(s) - c + 1 : SubSeq(s, c, Len(s))[i] = s[c + i - 1]
      BY <2>1, SubSeqProperties
    <2> USE DEF c
    <2>2. /\ rest \in Seq(Nat) /\ Len(rest) = Len(s) - (took + 1) + 1
          /\ \A i \in 1 .. Len(s) - (took + 1) + 1 : rest[i] = s[took + 1 + i - 1]
      BY <2>1, <2>5
    <2> HIDE DEF rest
    <2>3. Len(s) - (took + 1) + 1 = Len(s) - took
      BY <1>4, <1>5
    <2>4. ASSUME NEW i \in 1 .. Len(rest) PROVE rest[i] = s[took + i]
      <3>1. rest[i] = s[took + 1 + i - 1] /\ i \in Int
        BY <2>2, <2>3, <2>4
      <3>2. took + 1 + i - 1 = took + i
        BY <3>1, <1>5
      <3> QED
        BY <3>1, <3>2
    <2> QED
      BY <1>5, <2>2, <2>3, <2>4 DEF Rest
  <1>7. d \in Nat /\ f \in 0 .. PCM_SAMPLES - 1
    <2>1. p.fill + took \in Nat /\ p.queued \in Nat /\ PCM_SAMPLES \in Nat /\ PCM_SAMPLES > 0
      BY <1>3, <1>5, PcmNumbers DEF RingTyped
    <2> HIDE DEF p
    <2>2. (p.fill + took) \div PCM_SAMPLES \in Nat /\ (p.fill + took) % PCM_SAMPLES \in 0 .. PCM_SAMPLES - 1
      BY <2>1, DivNat
    <2> QED
      BY <2>1, <2>2
  <1>8. q.queued = d /\ q.fill = f /\ q.last = p.last /\ q.played = p.played /\ q.run = p.run
        /\ q.under = p.under /\ q.blind = p.blind /\ RingShape(q)
    BY <1>3 DEF RingTyped, RingShape, RingFields
  <1>9. Counted(p, q, took)
    BY <1>8 DEF Counted
  <1> HIDE DEF d, f, q, rest
  <1>10. RingTyped(q)
    BY <1>3, <1>7, <1>8 DEF RingTyped
  <1>11. a_pcm.run \in BOOLEAN
    BY DEF RingTyped
  <1>12. a_dma' \in Engines /\ (a_pcm.run = TRUE => a_dma'.eof = a_dma.eof /\ a_dma'.late = 0)
    BY <1>1, <1>11 DEF Engines
  <1>13. Stored(a_ring, a_ring', s, From(p), took)
    BY <1>1 DEF Stored
  <1>14. RingTyped(a_pcm') /\ a_pcm'.run = a_pcm.run /\ (a_pcm.run = TRUE => a_pcm' = q)
    BY <1>1, <1>3, <1>8, <1>10, <1>11
  <1>15. a_pcm.run = TRUE => Wrote(a_pcm, a_pcm', a_dma, a_dma', a_ring, a_ring', s, b, took, rest)
    BY <1>2, <1>3, <1>5, <1>8, <1>9, <1>12, <1>13, <1>14 DEF Wrote
  <1>16. rest \in Seq(Nat)
    BY <1>6 DEF Rest
  <1> QED
    BY <1>1, <1>5, <1>6, <1>12, <1>14, <1>15, <1>16

\* A poll, alone or in a write, of a ring that has kept its promise and still does.
SamplesAt(s, base, m, took) == \A i \in 1 .. took : s[i] = base + m + i
SilenceAt(s, took) == \A i \in 1 .. took : s[i] = 0
Closed(ear, base, m) == m = 0 \/ base + m = ear.end
FlowOn(p, q, dma, ring, ear, base, m, z) ==
    /\ Flow(q, dma, ring, ear, base, m, z)
    /\ p.played \in Nat /\ q.played \in Nat /\ p.played <= q.played

LEMMA WroteSamples ==
    ASSUME NEW p, NEW q, NEW dma, NEW dma2, NEW ring, NEW ring2, NEW ear, NEW s, NEW b, NEW took \in Nat, NEW rest,
           Wrote(p, q, dma, dma2, ring, ring2, s, b, took, rest), dma.late \in Nat, b \in Lapped(dma.late),
           q.under = FALSE, q.blind = FALSE, NEW base \in Nat, NEW m \in Nat, Flow(p, dma, ring, ear, base, m, 0),
           SamplesAt(s, base, m, took), NEW m2 \in Nat, m2 = m + took
    PROVE  FlowOn(p, q, dma2, ring2, ear, base, m2, 0)
  <1>1. PICK p1 : /\ Polled(p, dma, b, p1) /\ took \in 0 .. Room(p1) /\ Counted(p1, q, took)
                  /\ Stored(ring, ring2, s, From(p1), took) /\ dma2.eof = dma.eof /\ dma2.late = 0
                  /\ q.run = TRUE /\ q.under = p1.under /\ q.blind = p1.blind
    BY DEF Wrote
  <1>2. Flow(p1, dma2, ring, ear, base, m, 0) /\ p1.played = p.played + dma.late
    <2>1. Trusted(p, p1, dma, dma2, b)
      BY <1>1 DEF Trusted
    <2> QED
      BY <2>1, PollFollows
  <1>3. m + took \in Nat /\ Flow(q, dma2, ring2, ear, base, m + took, 0)
    <2>1. \A i \in 1 .. took : s[i] = base + m + i
      BY DEF SamplesAt
    <2>2. /\ Flow(p1, dma2, ring, ear, base, m, 0) /\ dma2.late = 0 /\ took \in 0 .. Room(p1)
          /\ Counted(p1, q, took) /\ Stored(ring, ring2, s, From(p1), took)
      BY <1>1, <1>2
    <2> QED
      BY <2>1, <2>2, WriteSamples
  <1>4. q.played = p1.played /\ p.played \in Nat
    BY <1>1 DEF Counted, Flow, WriterOK
  <1>5. q.played \in Nat /\ p.played <= q.played
    <2>1. dma.late \in Nat
      OBVIOUS
    <2> QED
      BY <1>2, <1>4, <2>1
  <1> QED
    BY <1>3, <1>4, <1>5 DEF FlowOn

LEMMA WroteSilence ==
    ASSUME NEW p, NEW q, NEW dma, NEW dma2, NEW ring, NEW ring2, NEW ear, NEW s, NEW b, NEW took \in Nat, NEW rest,
           Wrote(p, q, dma, dma2, ring, ring2, s, b, took, rest), dma.late \in Nat, b \in Lapped(dma.late),
           q.under = FALSE, q.blind = FALSE, NEW base \in Nat, NEW m \in Nat, NEW z \in Nat,
           Flow(p, dma, ring, ear, base, m, z), SilenceAt(s, took), Closed(ear, base, m), NEW z2 \in Nat, z2 = z + took
    PROVE  FlowOn(p, q, dma2, ring2, ear, base, m, z2)
  <1>1. PICK p1 : /\ Polled(p, dma, b, p1) /\ took \in 0 .. Room(p1) /\ Counted(p1, q, took)
                  /\ Stored(ring, ring2, s, From(p1), took) /\ dma2.eof = dma.eof /\ dma2.late = 0
                  /\ q.run = TRUE /\ q.under = p1.under /\ q.blind = p1.blind
    BY DEF Wrote
  <1>2. Flow(p1, dma2, ring, ear, base, m, z) /\ p1.played = p.played + dma.late
    <2>1. Trusted(p, p1, dma, dma2, b)
      BY <1>1 DEF Trusted
    <2> QED
      BY <2>1, PollFollows
  <1>3. z + took \in Nat /\ Flow(q, dma2, ring2, ear, base, m, z + took)
    BY <1>1, <1>2, WriteSilence DEF SilenceAt, Closed
  <1>4. q.played = p1.played /\ p.played \in Nat
    BY <1>1 DEF Counted, Flow, WriterOK
  <1>5. q.played \in Nat /\ p.played <= q.played
    <2>1. dma.late \in Nat
      OBVIOUS
    <2> QED
      BY <1>2, <1>4, <2>1
  <1> QED
    BY <1>3, <1>4, <1>5 DEF FlowOn

LEMMA WroteWasLive ==
    ASSUME NEW p, NEW q, NEW dma, NEW dma2, NEW ring, NEW ring2, NEW s, NEW b, NEW took, NEW rest,
           Wrote(p, q, dma, dma2, ring, ring2, s, b, took, rest), q.under = FALSE, q.blind = FALSE
    PROVE  p.under = FALSE /\ p.blind = FALSE
  BY DEF Wrote, Polled

\* Later is as good, for a loop that is not about to draw.
LEMMA PlayedLater ==
    ASSUME NEW p, NEW q, NEW job, NEW base, NEW m \in Nat, PlayedOK(p, job, base, m), job.pc # "draw", job.frame \in Nat,
           p.played \in Nat, q.played \in Nat, p.played <= q.played
    PROVE  PlayedOK(q, job, base, m)
  <1>1. p.played * PCM_SAMPLES <= q.played * PCM_SAMPLES /\ p.played * PCM_SAMPLES \in Nat /\ q.played * PCM_SAMPLES \in Nat
    BY PcmNumbers
  <1>2. \A x \in Int : p.played * PCM_SAMPLES >= x => q.played * PCM_SAMPLES >= x
    BY <1>1
  <1>3. Ring + m \in Int /\ (job.frame > 0 => Ring + a_of(job.frame - 1) \in Int)
    BY PcmNumbers, PcmAssumption DEF a_of
  <1> QED
    BY <1>2, <1>3 DEF PlayedOK

\* A step of the loop that leaves the ring alone.
LEMMA JobMoves ==
    ASSUME NEW p, NEW dma, NEW ring, NEW job, NEW job2, NEW ear, PcmOK(p, dma, ring, job, ear),
           job2 \in SoundJobs, JobOK(job2, ear), RunOK(p, job2, ear), DoneOK(p, job2, ear),
           \A base, m, z \in Nat :
               Clean(p, ear) /\ WriterOK(p, Ring + m + z) /\ WrittenOK(job, ear, base, m, z) /\ PlayedOK(p, job, base, m)
                   => WrittenOK(job2, ear, base, m, z) /\ PlayedOK(p, job2, base, m)
    PROVE  PcmOK(p, dma, ring, job2, ear)
  <1>1. Clean(p, ear) => StreamOK(p, dma, ring, job2, ear)
    BY DEF PcmOK, StreamOK, Flow
  <1> QED
    BY <1>1 DEF PcmOK, Shapes

LEMMA SamePcm ==
    ASSUME a_pcm' = a_pcm, a_dma' = a_dma, a_ring' = a_ring, a_ear' = a_ear,
           PcmOK(a_pcm, a_dma, a_ring, a_job', a_ear)
    PROVE  PcmInv'
  BY DEF PcmInv

LEMMA PcmTypes ==
    ASSUME PcmInv
    PROVE  /\ RingTyped(a_pcm) /\ a_dma \in Engines /\ a_job \in SoundJobs /\ EarShape(a_ear) /\ a_ear.cut \in BOOLEAN
           /\ JobOK(a_job, a_ear) /\ RunOK(a_pcm, a_job, a_ear) /\ DoneOK(a_pcm, a_job, a_ear)
           /\ PcmOK(a_pcm, a_dma, a_ring, a_job, a_ear) /\ a_pcm.run \in BOOLEAN
           /\ Clean(a_pcm, a_ear) => StreamOK(a_pcm, a_dma, a_ring, a_job, a_ear)
  BY DEF PcmInv, PcmOK, Shapes, RingTyped

LEMMA StopKept ==
    ASSUME PcmInv, request_stop
    PROVE  PcmInv'
  <1>1. a_job' = [a_job EXCEPT !.stop = TRUE] /\ a_pcm' = a_pcm /\ a_dma' = a_dma /\ a_ring' = a_ring /\ a_ear' = a_ear
    BY DEF request_stop
  <1>2. /\ a_job' \in SoundJobs /\ a_job'.stop = TRUE /\ a_job'.pc = a_job.pc /\ a_job'.kind = a_job.kind
        /\ a_job'.audio = a_job.audio /\ a_job'.next = a_job.next /\ a_job'.buf = a_job.buf /\ a_job'.left = a_job.left
        /\ a_job'.frame = a_job.frame /\ a_job'.chunks = a_job.chunks /\ a_job'.err = a_job.err
    BY <1>1, PcmTypes DEF SoundJobs
  <1>3. JobOK(a_job', a_ear)
    BY <1>2, PcmTypes DEF JobOK
  <1>4. RunOK(a_pcm, a_job', a_ear) /\ DoneOK(a_pcm, a_job', a_ear)
    BY <1>2, PcmTypes DEF RunOK, DoneOK
  <1>5. ASSUME NEW base \in Nat, NEW m \in Nat, NEW z \in Nat,
               WrittenOK(a_job, a_ear, base, m, z), PlayedOK(a_pcm, a_job, base, m)
        PROVE  WrittenOK(a_job', a_ear, base, m, z) /\ PlayedOK(a_pcm, a_job', base, m)
    <2>1. WrittenOK(a_job', a_ear, base, m, z)
      BY <1>2, <1>5 DEF WrittenOK
    <2>2. PlayedOK(a_pcm, a_job', base, m)
      BY <1>2, <1>5 DEF PlayedOK
    <2> QED
      BY <2>1, <2>2
  <1>6. PcmOK(a_pcm, a_dma, a_ring, a_job', a_ear)
    BY <1>2, <1>3, <1>4, <1>5, PcmTypes, JobMoves
  <1> QED
    BY <1>1, <1>6, SamePcm

LEMMA PauseKept ==
    ASSUME PcmInv, set_pause
    PROVE  PcmInv'
  <1>1. a_job' = [a_job EXCEPT !.pause = ~@] /\ a_pcm' = a_pcm /\ a_dma' = a_dma /\ a_ring' = a_ring /\ a_ear' = a_ear
    BY DEF set_pause
  <1>2. /\ a_job' \in SoundJobs /\ a_job'.stop = a_job.stop /\ a_job'.pc = a_job.pc /\ a_job'.kind = a_job.kind
        /\ a_job'.audio = a_job.audio /\ a_job'.next = a_job.next /\ a_job'.buf = a_job.buf /\ a_job'.left = a_job.left
        /\ a_job'.frame = a_job.frame /\ a_job'.chunks = a_job.chunks /\ a_job'.err = a_job.err
    BY <1>1, PcmTypes DEF SoundJobs
  <1>3. JobOK(a_job', a_ear)
    BY <1>2, PcmTypes DEF JobOK
  <1>4. RunOK(a_pcm, a_job', a_ear) /\ DoneOK(a_pcm, a_job', a_ear)
    BY <1>2, PcmTypes DEF RunOK, DoneOK
  <1>5. ASSUME NEW base \in Nat, NEW m \in Nat, NEW z \in Nat,
               WrittenOK(a_job, a_ear, base, m, z), PlayedOK(a_pcm, a_job, base, m)
        PROVE  WrittenOK(a_job', a_ear, base, m, z) /\ PlayedOK(a_pcm, a_job', base, m)
    <2>1. WrittenOK(a_job', a_ear, base, m, z)
      BY <1>2, <1>5 DEF WrittenOK
    <2>2. PlayedOK(a_pcm, a_job', base, m)
      BY <1>2, <1>5 DEF PlayedOK
    <2> QED
      BY <2>1, <2>2
  <1>6. PcmOK(a_pcm, a_dma, a_ring, a_job', a_ear)
    BY <1>2, <1>3, <1>4, <1>5, PcmTypes, JobMoves
  <1> QED
    BY <1>1, <1>6, SamePcm

\* The loop goes on to pc, and nothing else of it changes.
Stepped(job, job2, pc) ==
    /\ job2 \in SoundJobs /\ job2.pc = pc /\ job2.stop = job.stop /\ job2.kind = job.kind
    /\ job2.audio = job.audio /\ job2.next = job.next /\ job2.buf = job.buf /\ job2.left = job.left
    /\ job2.frame = job.frame /\ job2.chunks = job.chunks /\ job2.err = job.err

Pcs == PlayPcs \cup VideoPcs \cup {"idle", "out", "done"}

LEMMA GoesIs ==
    ASSUME a_job \in SoundJobs, NEW pc \in Pcs, JobGoes(pc)
    PROVE  Stepped(a_job, a_job', pc)
  BY DEF JobGoes, SoundJobs, Stepped, Pcs

\* The places a loop goes to without touching the ring.
SilentMove(pc, pc2) ==
    \/ pc = "song" /\ pc2 = "out" /\ a_job.stop = TRUE
    \/ pc = "queue" /\ pc2 = "song" /\ (a_job.stop = TRUE \/ a_job.buf = <<>>)
    \/ pc = "paused" /\ pc2 = "out" /\ a_job.stop = TRUE
    \/ pc = "tail" /\ pc2 = "out" /\ (a_job.stop = TRUE \/ (a_job.left = 0 /\ a_job.buf = <<>>))
    \/ pc = "open" /\ pc2 = "picture" /\ a_job.audio = FALSE
    \/ pc = "open" /\ pc2 = "done"
    \/ pc = "sound" /\ pc2 = "picture" /\ (a_job.stop = TRUE \/ a_job.buf = <<>>)
    \/ pc = "picture" /\ pc2 = "drain" /\ (a_job.stop = TRUE \/ a_job.frame = VideoFrames)
    \/ pc = "picture" /\ pc2 = "draw" /\ a_job.audio = FALSE /\ a_job.frame # VideoFrames
    \/ pc = "drain" /\ pc2 = "out" /\ (a_job.stop = TRUE \/ a_job.audio = FALSE)

LEMMA SilentMoveKept ==
    ASSUME PcmInv, NEW pc2, SilentMove(a_job.pc, pc2), JobGoes(pc2),
           a_pcm' = a_pcm, a_dma' = a_dma, a_ring' = a_ring, a_ear' = a_ear
    PROVE  PcmInv'
  <1>1. pc2 \in Pcs
    BY DEF SilentMove, Pcs, PlayPcs, VideoPcs
  <1>2. Stepped(a_job, a_job', pc2)
    BY <1>1, GoesIs, PcmTypes
  <1>0. a_job.frame \in 0 .. VideoFrames /\ a_job.chunks \in 0 .. VideoFrames /\ VideoFrames \in Nat
    BY PcmTypes, PcmAssumption DEF SoundJobs
  <1>9. /\ pc2 \in PlayPcs => pc2 = "song"
        /\ pc2 = "song" => a_job.pc = "queue"
        /\ pc2 \in VideoPcs => pc2 \in {"picture", "draw", "drain"} /\ a_job.pc \in VideoPcs
        /\ pc2 = "draw" => a_job.audio = FALSE /\ a_job.frame # VideoFrames
        /\ pc2 = "done" => a_job.pc = "open"
        /\ pc2 \in {"song", "out", "done", "picture", "draw", "drain"} /\ a_job.pc # "idle"
        /\ a_job.pc = "open" /\ pc2 \in VideoPcs => a_job.audio = FALSE
        /\ pc2 = "out" => a_job.stop = TRUE \/ a_job.pc \in {"tail", "drain"}
    BY DEF SilentMove, PlayPcs, VideoPcs
  <1>3. JobOK(a_job', a_ear)
    <2>1. a_job.audio = FALSE => a_job.audio # TRUE
      OBVIOUS
    <2>2. pc2 \notin {"queue", "tail", "paused", "open"}
      BY <1>9
    <2>3. pc2 = "draw" => a_job.frame < VideoFrames
      BY <1>0, <1>9
    <2> QED
      BY <1>2, <1>9, <2>1, <2>2, <2>3, PcmTypes DEF JobOK, Stepped, PlayPcs
  <1>4. RunOK(a_pcm, a_job', a_ear)
    <2>1. (pc2 \in {"idle", "open", "paused", "done"} \/ a_job.audio = FALSE \/ (pc2 = "song" /\ a_job.next = 1)) => a_pcm.run = FALSE
      <3>1. a_job.pc = "open" \/ a_job.audio = FALSE => a_pcm.run = FALSE
        BY PcmTypes DEF RunOK
      <3>2. a_job.pc = "queue" => a_job.next # 1
        BY PcmTypes DEF JobOK
      <3> QED
        BY <1>9, <3>1, <3>2
    <2>2. a_ear.cut = FALSE /\ a_job.audio = TRUE =>
            /\ pc2 \in {"queue", "tail"} \cup (VideoPcs \ {"open"}) => a_pcm.run = TRUE
            /\ pc2 = "song" /\ a_job.next > 1 => a_pcm.run = TRUE
            /\ pc2 = "out" /\ a_job.stop = FALSE /\ a_job.next > 1 => a_pcm.run = TRUE
      <3>1. SUFFICES ASSUME a_ear.cut = FALSE, a_job.audio = TRUE
                     PROVE  /\ pc2 \in VideoPcs \/ pc2 = "song" => a_pcm.run = TRUE
                            /\ pc2 = "out" /\ a_job.stop = FALSE => a_pcm.run = TRUE
        BY <1>9
      <3>2. a_job.pc \in {"queue", "tail"} \/ (a_job.pc \in VideoPcs /\ a_job.pc # "open") => a_pcm.run = TRUE
        BY <3>1, PcmTypes DEF RunOK
      <3>3. a_job.pc = "drain" => a_job.pc \in VideoPcs
        BY DEF VideoPcs
      <3>4. pc2 \in VideoPcs => a_job.pc # "open"
        BY <1>9, <3>1
      <3> QED
        BY <1>9, <3>2, <3>3, <3>4
    <2> QED
      BY <1>2, <2>1, <2>2 DEF RunOK, Stepped
  <1>5. DoneOK(a_pcm, a_job', a_ear)
    BY <1>2, PcmTypes DEF DoneOK, JobOK, SilentMove, Stepped, PlayPcs, VideoPcs
  <1>6. ASSUME NEW base \in Nat, NEW m \in Nat, NEW z \in Nat, Clean(a_pcm, a_ear), WriterOK(a_pcm, Ring + m + z),
               WrittenOK(a_job, a_ear, base, m, z), PlayedOK(a_pcm, a_job, base, m)
        PROVE  WrittenOK(a_job', a_ear, base, m, z) /\ PlayedOK(a_pcm, a_job', base, m)
    <2>1. a_pcm.run = TRUE /\ a_job.audio = TRUE /\ a_job.pc \notin {"paused", "open"}
      BY <1>6, PcmTypes DEF Clean, RunOK, SoundJobs
    <2>2. a_job.buf = <<>> => Len(a_job.buf) = 0
      OBVIOUS
    <2>8. a_job.pc \in {"queue", "sound"} => z = 0 /\ (a_job.stop = FALSE => base + m = a_job.next - 1)
      <3>1. SUFFICES ASSUME a_job.pc \in {"queue", "sound"}
                     PROVE  z = 0 /\ (a_job.stop = FALSE => base + m = a_job.next - 1)
        OBVIOUS
      <3>2. z = 0 /\ base + m + Len(a_job.buf) = a_job.next - 1
        BY <1>6, <3>1 DEF WrittenOK
      <3>3. a_job.stop = FALSE => a_job.buf = <<>>
        BY <3>1 DEF SilentMove
      <3>4. a_job.buf = <<>> => base + m = a_job.next - 1
        BY <2>2, <3>2
      <3> QED
        BY <3>2, <3>3, <3>4
    <2>9. a_job.kind = "video" => base = 0 /\ a_of(a_job.chunks) - SPF <= m
      BY <1>6 DEF WrittenOK
    <2>3. CASE a_job.pc = "song" \/ a_job.pc = "queue"
      <3>0. pc2 = "out" \/ (pc2 = "song" /\ a_job.pc = "queue")
        BY <2>3 DEF SilentMove
      <3>1. WrittenOK(a_job', a_ear, base, m, z)
        BY <1>2, <2>8, <2>9, <3>0 DEF WrittenOK, Stepped
      <3>2. PlayedOK(a_pcm, a_job', base, m)
        BY <1>2, <1>6, <2>3 DEF PlayedOK, SilentMove, Stepped
      <3> QED
        BY <3>1, <3>2
    <2>4. CASE a_job.pc = "tail"
      <3>1. pc2 = "out"
        BY <2>4 DEF SilentMove
      <3>2. WrittenOK(a_job', a_ear, base, m, z)
        BY <1>2, <1>6, <3>1 DEF WrittenOK, Stepped
      <3>3. a_job.stop = FALSE => z = Ring /\ base + m = a_job.next - 1
        BY <1>6, <2>2, <2>4, PcmNumbers DEF WrittenOK, SilentMove
      <3>4. z = Ring => a_pcm.played * PCM_SAMPLES >= Ring + m
        <4>1. SUFFICES ASSUME z = Ring PROVE a_pcm.played * PCM_SAMPLES >= Ring + m
          OBVIOUS
        <4>2. Ring + m + z \in Int
          BY PcmNumbers
        <4>3. Room(a_pcm) \in Nat /\ Room(a_pcm) = (a_pcm.played + PCM_BUFS) * PCM_SAMPLES - (Ring + m + z)
          BY <1>6, <4>2, RoomIs
        <4>4. (a_pcm.played + PCM_BUFS) * PCM_SAMPLES = a_pcm.played * PCM_SAMPLES + Ring /\ a_pcm.played * PCM_SAMPLES \in Int
          BY PcmTypes, PcmNumbers DEF RingTyped
        <4> QED
          BY <4>1, <4>2, <4>3, <4>4, PcmNumbers
      <3>5. a_job.stop \in BOOLEAN /\ a_job.kind = "play"
        BY <2>4, PcmTypes DEF SoundJobs, JobOK, PlayPcs
      <3>6. PlayedOK(a_pcm, a_job', base, m)
        BY <1>2, <3>1, <3>3, <3>4, <3>5 DEF PlayedOK, Stepped
      <3> QED
        BY <3>2, <3>6
    <2>5. CASE a_job.pc = "sound"
      <3>0. pc2 = "picture"
        BY <2>5 DEF SilentMove
      <3>1. WrittenOK(a_job', a_ear, base, m, z)
        BY <1>2, <2>5, <2>8, <2>9, <3>0 DEF WrittenOK, Stepped
      <3>2. PlayedOK(a_pcm, a_job', base, m)
        BY <1>2, <1>6, <2>5 DEF PlayedOK, SilentMove, Stepped
      <3> QED
        BY <3>1, <3>2
    <2>6. CASE a_job.pc = "picture"
      <3>1. pc2 = "drain"
        BY <2>1, <2>6 DEF SilentMove
      <3>2. z = 0 /\ base = 0 /\ a_job.kind = "video"
        BY <1>6, <2>6, PcmTypes DEF WrittenOK, JobOK, VideoPcs
      <3>3. a_job.stop = FALSE => m = a_of(VideoFrames) /\ base + m = a_job.next - 1 /\ (m = 0 \/ base + m = a_ear.end)
        <4>1. SUFFICES ASSUME a_job.stop = FALSE
                       PROVE  m = a_of(VideoFrames) /\ base + m = a_job.next - 1 /\ (m = 0 \/ base + m = a_ear.end)
          OBVIOUS
        <4>2. a_job.frame = VideoFrames
          BY <2>6, <3>1, <4>1 DEF SilentMove
        <4>3. a_job.next = a_of(a_job.chunks) + 1 /\ a_job.frame <= a_job.chunks
          BY <2>1, <3>2, PcmTypes DEF JobOK
        <4>4. a_job.chunks = VideoFrames
          BY <1>0, <4>2, <4>3
        <4>5. a_of(VideoFrames) \in Nat /\ (VideoFrames = 0 => a_of(VideoFrames) = 0)
          BY PcmAssumption DEF a_of
        <4>6. base + m = a_job.next - 1
          BY <1>6, <2>6, <4>1 DEF WrittenOK
        <4>7. m = a_of(VideoFrames)
          BY <3>2, <4>3, <4>4, <4>5, <4>6
        <4>8. VideoFrames > 0 => a_ear.end = a_of(VideoFrames)
          BY <2>1, <3>2, <4>4, PcmTypes DEF JobOK
        <4> QED
          BY <1>0, <3>2, <4>5, <4>6, <4>7, <4>8
      <3>4. a_job.stop \in BOOLEAN
        BY PcmTypes DEF SoundJobs
      <3>5. WrittenOK(a_job', a_ear, base, m, z)
        BY <1>2, <1>6, <3>1, <3>2, <3>3, <3>4 DEF WrittenOK, Stepped
      <3>6. PlayedOK(a_pcm, a_job', base, m)
        BY <1>2, <1>6, <3>1 DEF PlayedOK, Stepped
      <3> QED
        BY <3>5, <3>6
    <2>7. CASE a_job.pc = "drain"
      <3>1. pc2 = "out" /\ a_job.stop = TRUE
        BY <2>1, <2>7 DEF SilentMove
      <3>2. WrittenOK(a_job', a_ear, base, m, z)
        BY <1>2, <1>6, <3>1 DEF WrittenOK, Stepped
      <3>3. PlayedOK(a_pcm, a_job', base, m)
        BY <1>2, <1>6, <3>1 DEF PlayedOK, Stepped
      <3> QED
        BY <3>2, <3>3
    <2> QED
      BY <2>1, <2>3, <2>4, <2>5, <2>6, <2>7 DEF SilentMove
  <1>7. a_job' \in SoundJobs
    BY <1>2 DEF Stepped
  <1>8. PcmOK(a_pcm, a_dma, a_ring, a_job', a_ear)
    BY <1>3, <1>4, <1>5, <1>6, <1>7, PcmTypes, JobMoves
  <1> QED
    BY <1>8, SamePcm

LEMMA RestartIs ==
    ASSUME PcmInv, pcm_start
    PROVE  /\ RingTyped(a_pcm') /\ a_pcm'.run = TRUE /\ a_pcm'.played = 0 /\ a_dma' \in Engines
           /\ EarShape(a_ear') /\ a_ear'.cut = a_ear.cut /\ a_ear'.end = a_ear.end
           /\ a_job.next - 1 \in Nat /\ Flow(a_pcm', a_dma', a_ring', a_ear', a_job.next - 1, 0, 0)
  <1> DEFINE base == a_job.next - 1
             p == Started(0)
             dma == [eof |-> -1, late |-> 0]
             ring == [x \in 0 .. Ring - 1 |-> 0]
             ear == [a_ear EXCEPT !.fresh = TRUE, !.bad = FALSE, !.last = base]
  <1>1. a_pcm' = p /\ a_dma' = dma /\ a_ring' = ring /\ a_ear' = ear
    BY DEF pcm_start
  <1>2. base \in Nat
    BY PcmTypes DEF SoundJobs
  <1> HIDE DEF base
  <1>3. /\ RingShape(p) /\ p.run = TRUE /\ p.under = FALSE /\ p.blind = FALSE /\ p.last = PCM_BUFS - 1
        /\ p.queued = PCM_BUFS /\ p.fill = 0 /\ p.played = 0
    BY DEF Started, RingShape, RingFields
  <1>4. RingTyped(p)
    <2> HIDE DEF p
    <2>1. TRUE \in BOOLEAN /\ FALSE \in BOOLEAN
      OBVIOUS
    <2>2. PCM_BUFS - 1 \in Int /\ PCM_BUFS \in Nat /\ 0 \in 0 .. PCM_SAMPLES - 1 /\ 0 \in Nat
      BY PcmNumbers
    <2> QED
      BY <1>3, <2>1, <2>2 DEF RingTyped
  <1>5. /\ EarShape(ear) /\ ear.fresh = TRUE /\ ear.bad = FALSE /\ ear.last = base /\ ear.cut = a_ear.cut
        /\ ear.end = a_ear.end
    BY PcmTypes DEF EarShape, EarFields
  <1>6. dma \in Engines /\ dma.eof = -1 /\ dma.late = 0
    BY DEF Engines
  <1> HIDE DEF p, dma, ear
  <1>7. WriterOK(p, Ring + 0 + 0)
    <2>1. PCM_BUFS % PCM_BUFS = 0 /\ 0 % PCM_BUFS = 0
      BY PcmNumbers
    <2>2. (0 + PCM_BUFS) * PCM_SAMPLES + 0 = Ring + 0 + 0
      BY PcmNumbers
    <2>3. PCM_BUFS - 1 + 1 = PCM_BUFS /\ PCM_BUFS - 1 \in 0 .. PCM_BUFS - 1
      BY PcmNumbers
    <2> QED
      BY <1>3, <2>1, <2>2, <2>3, PcmNumbers DEF WriterOK
  <1>8. HoldsStream(ring, base, 0, Ring + 0 + 0)
    <2>1. SUFFICES ASSUME NEW x \in 0 .. Ring - 1 PROVE ring[x % Ring] = Content(base, 0, x)
      BY PcmNumbers DEF HoldsStream, HoldsAt
    <2>2. x % Ring \in 0 .. Ring - 1
      BY PcmNumbers, DivModType
    <2>3. Content(base, 0, x) = 0
      BY PcmNumbers DEF Content
    <2> QED
      BY <2>2, <2>3
  <1>9. EarOK(p, dma, ear, base, 0, 0)
    <2>1. LastAt(base, 0, 0) = base
      BY PcmNumbers DEF LastAt
    <2>2. (p.played + dma.late) * PCM_SAMPLES = 0
      BY <1>3, <1>6, PcmNumbers
    <2>3. HeardAt(ear, base, 0, 0)
      BY <1>5, <2>1 DEF HeardAt
    <2> QED
      BY <2>2, <2>3 DEF EarOK
  <1>10. EngineOK(p, dma)
    BY <1>3, <1>6 DEF EngineOK
  <1>11. Flow(p, dma, ring, ear, base, 0, 0)
    BY <1>7, <1>8, <1>9, <1>10 DEF Flow
  <1> QED
    BY <1>1, <1>2, <1>3, <1>4, <1>5, <1>6, <1>11 DEF base

\* The end of the pause, and of the opening of a video.
LEMMA StartKept ==
    ASSUME PcmInv, pcm_start, NEW pc2, JobGoes(pc2),
           (a_job.pc = "paused" /\ pc2 = "song") \/ (a_job.pc = "open" /\ pc2 = "picture" /\ a_job.audio = TRUE)
    PROVE  PcmInv'
  <1>1. pc2 \in Pcs /\ pc2 \in {"song", "picture"}
    BY DEF Pcs, PlayPcs, VideoPcs
  <1>2. Stepped(a_job, a_job', pc2)
    BY <1>1, GoesIs, PcmTypes
  <1>3. Shapes(a_pcm', a_dma', a_job', a_ear')
    BY <1>2, RestartIs, PcmTypes DEF Shapes, Stepped
  <1>4. JobOK(a_job', a_ear')
    BY <1>1, <1>2, RestartIs, PcmTypes DEF JobOK, Stepped, PlayPcs, VideoPcs
  <1>5. a_job.audio = TRUE /\ a_pcm'.run = TRUE /\ (pc2 = "song" => a_job.next > 1)
    BY RestartIs, PcmTypes DEF JobOK, PlayPcs
  <1>6. RunOK(a_pcm', a_job', a_ear') /\ DoneOK(a_pcm', a_job', a_ear')
    BY <1>1, <1>2, <1>5 DEF RunOK, DoneOK, Stepped
  <1>7. StreamOK(a_pcm', a_dma', a_ring', a_job', a_ear')
    <2> DEFINE base == a_job.next - 1
    <2>1. base \in Nat /\ Flow(a_pcm', a_dma', a_ring', a_ear', base, 0, 0)
      BY RestartIs
    <2>2. a_job.next \in Nat /\ base + 0 = a_job.next - 1
      BY <2>1, PcmTypes DEF SoundJobs
    <2>3. a_job.kind = "video" => a_job.next = 1 /\ a_job.frame = 0 /\ a_job.chunks = 0
      BY PcmTypes DEF JobOK, PlayPcs
    <2>4. a_of(0) - SPF <= 0
      BY PcmAssumption DEF a_of
    <2> HIDE DEF base
    <2>5. a_job.kind = "video" => base = 0
      BY <2>1, <2>2, <2>3
    <2>6. WrittenOK(a_job', a_ear', base, 0, 0)
      BY <1>1, <1>2, <2>2, <2>3, <2>4, <2>5 DEF WrittenOK, Stepped
    <2>7. PlayedOK(a_pcm', a_job', base, 0)
      BY <1>1, <1>2, <2>3 DEF PlayedOK, Stepped
    <2>8. 0 \in Nat
      OBVIOUS
    <2> QED
      BY <2>1, <2>6, <2>7, <2>8 DEF StreamOK
  <1> QED
    BY <1>3, <1>4, <1>6, <1>7 DEF PcmInv, PcmOK

LEMMA EngineKept ==
    ASSUME PcmInv, DmaFinishesBuffer
    PROVE  PcmInv'
  <1> DEFINE b == (a_dma.eof + 1) % PCM_BUFS
  <1>1. /\ a_ear' = Hear(a_ear, BufferAt(a_ring, b)) /\ a_dma' = [eof |-> b, late |-> a_dma.late + 1]
        /\ a_pcm' = a_pcm /\ a_ring' = a_ring /\ a_job' = a_job
    BY DEF DmaFinishesBuffer, BufferAt
  <1>2. a_dma.eof \in Int /\ a_dma.late \in Nat
    BY PcmTypes DEF Engines
  <1>3. b \in Int
    BY <1>2, PcmNumbers
  <1> HIDE DEF b
  <1>4. a_dma' \in Engines /\ a_dma'.eof = b /\ a_dma'.late = a_dma.late + 1
    BY <1>1, <1>2, <1>3 DEF Engines
  <1>5. EarShape(a_ear') /\ a_ear'.cut = a_ear.cut /\ a_ear'.end = a_ear.end
    BY <1>1, PcmTypes DEF Hear, EarShape, EarFields
  <1>0. a_pcm.run = TRUE
    BY PcmTypes DEF DmaFinishesBuffer
  <1>6. Shapes(a_pcm', a_dma', a_job', a_ear')
    BY <1>1, <1>4, <1>5, PcmTypes DEF Shapes
  <1>7. JobOK(a_job', a_ear')
    BY <1>1, <1>5, PcmTypes DEF JobOK
  <1>8. RunOK(a_pcm', a_job', a_ear') /\ DoneOK(a_pcm', a_job', a_ear')
    <2>1. RunOK(a_pcm', a_job', a_ear')
      BY <1>1, <1>5, PcmTypes DEF RunOK
    <2>2. a_job.pc # "done"
      BY <1>0, PcmTypes DEF RunOK
    <2> QED
      BY <1>1, <2>1, <2>2 DEF DoneOK
  <1>9. ASSUME Clean(a_pcm', a_ear') PROVE StreamOK(a_pcm', a_dma', a_ring', a_job', a_ear')
    <2>1. Clean(a_pcm, a_ear)
      BY <1>1, <1>5, <1>9 DEF Clean
    <2>2. PICK base \in Nat, m \in Nat, z \in Nat :
            /\ Flow(a_pcm, a_dma, a_ring, a_ear, base, m, z)
            /\ WrittenOK(a_job, a_ear, base, m, z) /\ PlayedOK(a_pcm, a_job, base, m)
      BY <2>1, PcmTypes DEF StreamOK
    <2>3. Flow(a_pcm, a_dma', a_ring, Hear(a_ear, BufferAt(a_ring, b)), base, m, z)
      <3>1. b = (a_dma.eof + 1) % PCM_BUFS /\ EarShape(a_ear)
        BY PcmTypes DEF b
      <3> QED
        BY <1>2, <1>4, <2>2, <3>1, EnginePlays
    <2>4. WrittenOK(a_job, a_ear', base, m, z)
      BY <1>5, <2>2 DEF WrittenOK
    <2> QED
      BY <1>1, <2>2, <2>3, <2>4 DEF StreamOK
  <1> QED
    BY <1>6, <1>7, <1>8, <1>9 DEF PcmInv, PcmOK

\* What is left of one sample of silence.
LEMMA LenOfOne ==
    ASSUME NEW s, s = <<>> \/ s = << 0 >>
    PROVE  Len(s) \in 0 .. 1 /\ \A i \in 1 .. Len(s) : s[i] = 0
  <1>1. CASE s = <<>>
    BY <1>1
  <1>2. CASE s = << 0 >>
    BY <1>2
  <1> QED
    BY <1>1, <1>2

LEMMA OneSilence ==
    ASSUME NEW s, s = <<>> \/ s = << 0 >>, NEW took \in Nat, NEW rest \in Seq(Nat), Rest(s, took, rest)
    PROVE  rest = <<>> \/ rest = << 0 >>
  <1> DEFINE n == Len(s)
             k == Len(rest)
  <1>1. n \in 0 .. 1 /\ \A i \in 1 .. n : s[i] = 0
    BY LenOfOne
  <1>2. took \in 0 .. n /\ k = n - took /\ \A i \in 1 .. k : rest[i] = s[took + i]
    BY DEF Rest
  <1> HIDE DEF n, k
  <1>3. k = 0 \/ (k = 1 /\ took = 0 /\ n = 1)
    BY <1>1, <1>2
  <1>4. CASE k = 0
    BY <1>4, EmptySeq DEF k
  <1>5. CASE k = 1 /\ took = 0 /\ n = 1
    <2>1. rest[1] = s[0 + 1] /\ 0 + 1 = 1
      BY <1>2, <1>5
    <2>2. rest[1] = 0
      BY <1>1, <1>5, <2>1
    <2>3. Len(rest) = 1
      BY <1>5 DEF k
    <2> QED
      BY <2>2, <2>3
  <1> QED
    BY <1>3, <1>4, <1>5

\* The writes of the two loops, and the silence behind them.
LEMMA WriteKept ==
    ASSUME PcmInv, NEW s, NEW pc, NEW b \in Lapped(a_dma.late), pcm_write(s, b, pc),
           \/ a_job.pc \in {"queue", "sound", "tail"} /\ pc = a_job.pc /\ s = a_job.buf
           \/ a_job.pc = "silence" /\ pc = "drain" /\ s = << 0 >>
    PROVE  PcmInv'
  <1>0. a_dma.late \in Nat /\ b \in BOOLEAN /\ pc \in Pcs /\ s \in Seq(Nat) /\ a_job.buf \in Seq(Nat)
    <2>1. a_dma.late \in Nat /\ a_job.buf \in Seq(Nat)
      BY PcmTypes DEF Engines, SoundJobs
    <2>2. << 0 >> \in Seq(Nat)
      OBVIOUS
    <2>3. pc \in Pcs
      BY DEF Pcs, PlayPcs, VideoPcs
    <2> QED
      BY <2>1, <2>2, <2>3, LappedIsBoolean
  <1>1. /\ RingTyped(a_pcm') /\ a_dma' \in Engines /\ a_pcm'.run = a_pcm.run /\ a_ear' = a_ear
        /\ \E took \in Nat, rest \in Seq(Nat) :
             /\ Rest(s, took, rest) /\ a_job' = [a_job EXCEPT !.buf = rest, !.pc = pc]
             /\ a_pcm.run = TRUE => Wrote(a_pcm, a_pcm', a_dma, a_dma', a_ring, a_ring', s, b, took, rest)
    <2>1. RingTyped(a_pcm) /\ a_dma \in Engines /\ a_job \in SoundJobs
      BY PcmTypes
    <2> QED
      BY <1>0, <2>1, WriteIs
  <1>2. PICK took \in Nat, rest \in Seq(Nat) :
             /\ Rest(s, took, rest) /\ a_job' = [a_job EXCEPT !.buf = rest, !.pc = pc]
             /\ a_pcm.run = TRUE => Wrote(a_pcm, a_pcm', a_dma, a_dma', a_ring, a_ring', s, b, took, rest)
    BY <1>1
  <1>3. /\ a_job' \in SoundJobs /\ a_job'.stop = a_job.stop /\ a_job'.pc = pc /\ a_job'.kind = a_job.kind
        /\ a_job'.audio = a_job.audio /\ a_job'.next = a_job.next /\ a_job'.buf = rest /\ a_job'.left = a_job.left
        /\ a_job'.frame = a_job.frame /\ a_job'.chunks = a_job.chunks /\ a_job'.err = a_job.err
    BY <1>0, <1>2, PcmTypes DEF SoundJobs, Pcs
  <1>4. Shapes(a_pcm', a_dma', a_job', a_ear')
    BY <1>1, <1>3, PcmTypes DEF Shapes
  <1>5. JobOK(a_job', a_ear')
    BY <1>1, <1>3, PcmTypes DEF JobOK, PlayPcs, VideoPcs
  <1>6. RunOK(a_pcm', a_job', a_ear') /\ DoneOK(a_pcm', a_job', a_ear')
    <2>1. pc \in {"queue", "sound", "tail", "drain"} /\ pc # "done" /\ pc # "song" /\ pc # "out"
      OBVIOUS
    <2>2. a_job.audio = FALSE => a_pcm.run = FALSE
      BY PcmTypes DEF RunOK
    <2>3. a_ear.cut = FALSE /\ a_job.audio = TRUE => a_pcm.run = TRUE
      BY PcmTypes DEF RunOK, VideoPcs
    <2> QED
      BY <1>1, <1>3, <2>1, <2>2, <2>3 DEF RunOK, DoneOK
  <1>7. ASSUME Clean(a_pcm', a_ear') PROVE StreamOK(a_pcm', a_dma', a_ring', a_job', a_ear')
    <2>1. /\ Wrote(a_pcm, a_pcm', a_dma, a_dma', a_ring, a_ring', s, b, took, rest)
          /\ a_pcm'.under = FALSE /\ a_pcm'.blind = FALSE /\ a_pcm.run = TRUE
      BY <1>1, <1>2, <1>7 DEF Clean
    <2>2. Clean(a_pcm, a_ear)
      <3>1. a_pcm.under = FALSE /\ a_pcm.blind = FALSE
        BY <2>1, WroteWasLive
      <3> QED
        BY <1>1, <1>7, <2>1, <3>1 DEF Clean
    <2>3. PICK base \in Nat, m \in Nat, z \in Nat :
            /\ Flow(a_pcm, a_dma, a_ring, a_ear, base, m, z)
            /\ WrittenOK(a_job, a_ear, base, m, z) /\ PlayedOK(a_pcm, a_job, base, m)
      BY <2>2, PcmTypes DEF StreamOK
    <2>4. took \in 0 .. Len(s) /\ Len(rest) = Len(s) - took /\ (\A i \in 1 .. Len(rest) : rest[i] = s[took + i]) /\ Len(s) \in Nat
      BY <1>0, <1>2 DEF Rest
    <2>5. a_job.frame \in Nat /\ a_job.pc # "draw" /\ a_job.pc # "out"
      BY PcmTypes DEF SoundJobs
    <2>6. a_job.kind = "video" => base = 0 /\ a_of(a_job.chunks) - SPF <= m
      BY <2>3 DEF WrittenOK
    <2>7. a_job.kind = "video" => a_of(a_job.chunks) - SPF \in Int
      BY PcmTypes, PcmAssumption DEF SoundJobs, a_of
    <2>8. CASE a_job.pc \in {"queue", "sound"}
      <3>1. /\ z = 0 /\ base + m + Len(s) = a_job.next - 1 /\ pc \in {"queue", "sound"}
            /\ \A i \in 1 .. Len(s) : s[i] = base + m + i
        BY <2>3, <2>8 DEF WrittenOK
      <3>2. SamplesAt(s, base, m, took)
        <4>1. \A i \in 1 .. took : i \in 1 .. Len(s)
          BY <2>4
        <4> QED
          BY <3>1, <4>1 DEF SamplesAt
      <3>3. /\ m + took \in Nat /\ Flow(a_pcm', a_dma', a_ring', a_ear, base, m + took, 0)
            /\ a_pcm.played \in Nat /\ a_pcm'.played \in Nat /\ a_pcm.played <= a_pcm'.played
        <4>1. Flow(a_pcm, a_dma, a_ring, a_ear, base, m, 0)
          BY <2>3, <3>1
        <4>2. m + took \in Nat
          OBVIOUS
        <4> DEFINE m2 == m + took
        <4> HIDE DEF m2
        <4>3. m2 \in Nat /\ m2 = m + took
          BY <4>2 DEF m2
        <4>4. FlowOn(a_pcm, a_pcm', a_dma', a_ring', a_ear, base, m2, 0)
          BY <1>0, <2>1, <3>2, <4>1, <4>3, WroteSamples
        <4> QED
          BY <4>3, <4>4 DEF FlowOn
      <3>4. \A i \in 1 .. Len(rest) : rest[i] = base + (m + took) + i
        <4>1. SUFFICES ASSUME NEW i \in 1 .. Len(rest) PROVE rest[i] = base + (m + took) + i
          OBVIOUS
        <4>2. took + i \in 1 .. Len(s) /\ i \in Int
          BY <2>4
        <4>3. rest[i] = base + m + (took + i)
          BY <2>4, <3>1, <4>2
        <4> QED
          BY <4>2, <4>3
      <3>5. base + (m + took) + Len(rest) = a_job.next - 1
        BY <2>4, <3>1
      <3>6. a_job.kind = "video" => a_of(a_job.chunks) - SPF <= m + took
        BY <2>6, <2>7, <3>3
      <3>7. WrittenOK(a_job', a_ear, base, m + took, 0)
        BY <1>3, <2>6, <3>1, <3>4, <3>5, <3>6 DEF WrittenOK
      <3>8. PlayedOK(a_pcm', a_job, base, m)
        BY <2>3, <2>5, <3>3, PlayedLater
      <3>9. PlayedOK(a_pcm', a_job', base, m + took)
        BY <1>3, <3>1, <3>8 DEF PlayedOK
      <3>10. 0 \in Nat
        OBVIOUS
      <3> QED
        BY <1>1, <3>3, <3>7, <3>9, <3>10 DEF StreamOK
    <2>9. CASE a_job.pc \in {"tail", "silence"}
      <3>1. (m = 0 \/ base + m = a_ear.end) /\ base + m = a_job.next - 1 /\ pc \in {"tail", "drain"}
        BY <2>3, <2>9 DEF WrittenOK
      <3>2. s = <<>> \/ s = << 0 >>
        BY <2>3, <2>9 DEF WrittenOK
      <3>3. \A i \in 1 .. Len(s) : s[i] = 0
        BY <3>2
      <3>4. SilenceAt(s, took)
        <4>1. \A i \in 1 .. took : i \in 1 .. Len(s)
          BY <2>4
        <4> QED
          BY <3>3, <4>1 DEF SilenceAt
      <3>5. /\ z + took \in Nat /\ Flow(a_pcm', a_dma', a_ring', a_ear, base, m, z + took)
            /\ a_pcm.played \in Nat /\ a_pcm'.played \in Nat /\ a_pcm.played <= a_pcm'.played
        <4> DEFINE z2 == z + took
        <4>1. z2 \in Nat /\ z2 = z + took
          OBVIOUS
        <4> HIDE DEF z2
        <4>2. Closed(a_ear, base, m)
          BY <3>1 DEF Closed
        <4>3. FlowOn(a_pcm, a_pcm', a_dma', a_ring', a_ear, base, m, z2)
          BY <1>0, <2>1, <2>3, <3>4, <4>1, <4>2, WroteSilence
        <4> QED
          BY <4>1, <4>3 DEF FlowOn
      <3>6. PlayedOK(a_pcm', a_job, base, m)
        BY <2>3, <2>5, <3>5, PlayedLater
      <3>7. PlayedOK(a_pcm', a_job', base, m)
        BY <1>3, <3>1, <3>6 DEF PlayedOK
      <3>8. CASE a_job.pc = "tail"
        <4>1. z + a_job.left + Len(s) = Ring /\ a_ear.end = base + m /\ a_job.left \in Nat /\ pc = "tail"
          BY <2>3, <3>8, PcmTypes DEF WrittenOK, SoundJobs
        <4>2. z + took + a_job.left + Len(rest) = Ring
          BY <2>4, <4>1
        <4>3. rest = <<>> \/ rest = << 0 >>
          BY <1>2, <3>2, OneSilence
        <4>4. WrittenOK(a_job', a_ear, base, m, z + took)
          BY <1>3, <2>6, <3>1, <4>1, <4>2, <4>3 DEF WrittenOK
        <4> QED
          BY <1>1, <3>5, <3>7, <4>4 DEF StreamOK
      <3>9. CASE a_job.pc = "silence"
        <4>1. m = a_of(VideoFrames) /\ pc = "drain"
          BY <2>3, <3>9 DEF WrittenOK
        <4>2. WrittenOK(a_job', a_ear, base, m, z + took)
          BY <1>3, <2>6, <3>1, <4>1 DEF WrittenOK
        <4> QED
          BY <1>1, <3>5, <3>7, <4>2 DEF StreamOK
      <3> QED
        BY <2>9, <3>8, <3>9
    <2> QED
      BY <2>8, <2>9
  <1> QED
    BY <1>4, <1>5, <1>6, <1>7 DEF PcmInv, PcmOK

\* The clock is read by a poll; pcm_stop makes a last one.
LEMMA ClockIs ==
    ASSUME PcmInv, NEW b \in Lapped(a_dma.late), ClockIsRead(b)
    PROVE  /\ RingTyped(a_pcm') /\ a_dma' \in Engines /\ a_pcm'.run = a_pcm.run
           /\ a_pcm.run = TRUE => SamplesPlayed(b) = a_pcm'.played * PCM_SAMPLES
           /\ a_pcm.run = TRUE /\ a_pcm'.under = FALSE /\ a_pcm'.blind = FALSE =>
                a_pcm.under = FALSE /\ a_pcm.blind = FALSE /\ Trusted(a_pcm, a_pcm', a_dma, a_dma', b)
  <1>1. a_dma.late \in Nat /\ b \in BOOLEAN /\ a_pcm.run \in BOOLEAN /\ RingTyped(a_pcm) /\ a_dma \in Engines
    BY PcmTypes, LappedIsBoolean DEF Engines
  <1>2. Polled(a_pcm, a_dma, b, poll(b))
    BY <1>1, PollIs
  <1>3. CASE a_pcm.run = TRUE
    <2>1. a_pcm' = poll(b) /\ a_dma' = [a_dma EXCEPT !.late = 0]
      BY <1>3 DEF ClockIsRead
    <2>2. a_dma' \in Engines /\ a_dma'.eof = a_dma.eof /\ a_dma'.late = 0
      BY <1>1, <2>1 DEF Engines
    <2>3. Polled(a_pcm, a_dma, b, a_pcm')
      BY <1>2, <2>1
    <2>4. RingTyped(a_pcm') /\ a_pcm'.run = a_pcm.run
      BY <2>3 DEF Polled
    <2>5. SamplesPlayed(b) = a_pcm'.played * PCM_SAMPLES
      BY <1>3, <2>1 DEF SamplesPlayed
    <2>6. ASSUME a_pcm'.under = FALSE, a_pcm'.blind = FALSE
          PROVE  a_pcm.under = FALSE /\ a_pcm.blind = FALSE /\ Trusted(a_pcm, a_pcm', a_dma, a_dma', b)
      <3>1. a_pcm.under = FALSE /\ a_pcm.blind = FALSE
        BY <2>3, <2>6 DEF Polled
      <3>2. Trusted(a_pcm, a_pcm', a_dma, a_dma', b)
        BY <1>1, <2>2, <2>3, <2>6 DEF Trusted
      <3> QED
        BY <3>1, <3>2
    <2> QED
      BY <2>2, <2>4, <2>5, <2>6
  <1>4. CASE a_pcm.run = FALSE
    <2>1. a_pcm' = a_pcm /\ a_dma' = a_dma
      BY <1>4 DEF ClockIsRead
    <2> QED
      BY <1>1, <1>4, <2>1
  <1> QED
    BY <1>1, <1>3, <1>4

LEMMA ClockFlow ==
    ASSUME PcmInv, NEW b \in Lapped(a_dma.late), ClockIsRead(b), a_ring' = a_ring, a_ear' = a_ear, Clean(a_pcm', a_ear')
    PROVE  /\ a_pcm.run = TRUE /\ a_pcm'.played \in Nat
           /\ \E base, m, z \in Nat :
                /\ Flow(a_pcm', a_dma', a_ring', a_ear', base, m, z)
                /\ WrittenOK(a_job, a_ear, base, m, z) /\ PlayedOK(a_pcm, a_job, base, m)
                /\ a_pcm.played \in Nat /\ a_pcm.played <= a_pcm'.played
  <1>1. a_pcm.run = TRUE /\ a_pcm'.under = FALSE /\ a_pcm'.blind = FALSE /\ a_ear.cut = FALSE
    BY ClockIs DEF Clean
  <1>2. a_pcm.under = FALSE /\ a_pcm.blind = FALSE /\ Trusted(a_pcm, a_pcm', a_dma, a_dma', b)
    BY <1>1, ClockIs
  <1>3. Clean(a_pcm, a_ear)
    BY <1>1, <1>2 DEF Clean
  <1>4. PICK base \in Nat, m \in Nat, z \in Nat :
            /\ Flow(a_pcm, a_dma, a_ring, a_ear, base, m, z)
            /\ WrittenOK(a_job, a_ear, base, m, z) /\ PlayedOK(a_pcm, a_job, base, m)
    BY <1>3, PcmTypes DEF StreamOK
  <1>5. /\ Flow(a_pcm', a_dma', a_ring, a_ear, base, m, z)
        /\ a_pcm'.played = a_pcm.played + a_dma.late /\ a_pcm'.played \in Nat
    BY <1>2, <1>4, PollFollows
  <1>6. a_pcm.played \in Nat /\ a_dma.late \in Nat
    BY PcmTypes DEF RingTyped, Engines
  <1>7. a_pcm.played <= a_pcm'.played
    <2> DEFINE x == a_pcm.played
               y == a_pcm'.played
               t == a_dma.late
    <2>1. x \in Nat /\ t \in Nat /\ y = x + t
      BY <1>5, <1>6
    <2> HIDE DEF x, y, t
    <2>2. x <= y
      BY <2>1
    <2> QED
      BY <2>2 DEF x, y
  <1> QED
    BY <1>1, <1>4, <1>5, <1>6, <1>7

LEMMA RingStops ==
    ASSUME PcmInv, NEW b \in Lapped(a_dma.late), pcm_stop(b)
    PROVE  /\ RingTyped(a_pcm') /\ a_dma' \in Engines /\ a_pcm'.run = FALSE /\ a_ring' = a_ring
           /\ a_pcm'.under = FALSE => a_pcm.under = FALSE
           /\ a_pcm'.blind = FALSE => a_pcm.blind = FALSE
           /\ a_pcm.run = TRUE /\ a_pcm'.under = FALSE /\ a_pcm'.blind = FALSE =>
                Trusted(a_pcm, poll(b), a_dma, a_dma', b)
  <1>1. a_dma.late \in Nat /\ b \in BOOLEAN /\ a_pcm.run \in BOOLEAN /\ RingTyped(a_pcm) /\ a_dma \in Engines
    BY PcmTypes, LappedIsBoolean DEF Engines
  <1>2. Polled(a_pcm, a_dma, b, poll(b))
    BY <1>1, PollIs
  <1>3. a_dma' = [a_dma EXCEPT !.late = 0] /\ a_ring' = a_ring
    BY DEF pcm_stop
  <1>4. a_dma' \in Engines /\ a_dma'.eof = a_dma.eof /\ a_dma'.late = 0
    BY <1>1, <1>3 DEF Engines
  <1>5. CASE a_pcm.run = TRUE
    <2> DEFINE p == poll(b)
    <2>1. a_pcm' = [p EXCEPT !.run = FALSE]
      BY <1>5 DEF pcm_stop
    <2>2. RingTyped(p) /\ (p.under = FALSE => a_pcm.under = FALSE) /\ (p.blind = FALSE => a_pcm.blind = FALSE)
      BY <1>2 DEF Polled
    <2> HIDE DEF p
    <2>3. /\ a_pcm'.run = FALSE /\ a_pcm'.under = p.under /\ a_pcm'.blind = p.blind /\ a_pcm'.last = p.last
          /\ a_pcm'.queued = p.queued /\ a_pcm'.fill = p.fill /\ a_pcm'.played = p.played /\ RingShape(a_pcm')
      BY <2>1, <2>2 DEF RingTyped, RingShape, RingFields
    <2>4. RingTyped(a_pcm')
      BY <2>2, <2>3 DEF RingTyped
    <2>5. a_pcm'.under = FALSE /\ a_pcm'.blind = FALSE => Trusted(a_pcm, p, a_dma, a_dma', b)
      BY <1>1, <1>2, <1>4, <2>3 DEF Trusted, p
    <2> QED
      BY <1>3, <1>4, <2>2, <2>3, <2>4, <2>5 DEF p
  <1>6. CASE a_pcm.run = FALSE
    <2>1. a_pcm' = a_pcm
      BY <1>6 DEF pcm_stop
    <2> QED
      BY <1>1, <1>3, <1>4, <1>6, <2>1
  <1> QED
    BY <1>1, <1>5, <1>6

\* A stopped ring: the pause, the shell's stop and the end of the job.
LEMMA PausesKept ==
    ASSUME PcmInv, NEW b \in Lapped(a_dma.late), pcm_stop(b), JobAt("song"), a_job.next > 1, JobGoes("paused"),
           a_ear' = [a_ear EXCEPT !.skipped = TRUE]
    PROVE  PcmInv'
  <1>1. "paused" \in Pcs
    BY DEF Pcs, PlayPcs
  <1>2. Stepped(a_job, a_job', "paused")
    BY <1>1, GoesIs, PcmTypes
  <1>3. EarShape(a_ear') /\ a_ear'.cut = a_ear.cut /\ a_ear'.end = a_ear.end
    BY PcmTypes DEF EarShape, EarFields
  <1>4. Shapes(a_pcm', a_dma', a_job', a_ear')
    BY <1>2, <1>3, RingStops, PcmTypes DEF Shapes, Stepped
  <1>5. JobOK(a_job', a_ear')
    BY <1>2, PcmTypes DEF JobOK, Stepped, PlayPcs, VideoPcs, JobAt
  <1>6. RunOK(a_pcm', a_job', a_ear') /\ DoneOK(a_pcm', a_job', a_ear')
    BY <1>2, RingStops DEF RunOK, DoneOK, Stepped, VideoPcs
  <1>7. ~Clean(a_pcm', a_ear')
    BY RingStops DEF Clean
  <1> QED
    BY <1>4, <1>5, <1>6, <1>7 DEF PcmInv, PcmOK

LEMMA ShellStopKept ==
    ASSUME PcmInv, shell_pcm_stop
    PROVE  PcmInv'
  <1>1. PICK b \in Lapped(a_dma.late) : pcm_stop(b)
    BY DEF shell_pcm_stop
  <1>2. a_ear' = [a_ear EXCEPT !.cut = TRUE] /\ a_job' = a_job
    BY DEF shell_pcm_stop
  <1>3. EarShape(a_ear') /\ a_ear'.cut = TRUE /\ a_ear'.end = a_ear.end
    BY <1>2, PcmTypes DEF EarShape, EarFields
  <1>4. Shapes(a_pcm', a_dma', a_job', a_ear')
    BY <1>1, <1>2, <1>3, RingStops, PcmTypes DEF Shapes
  <1>5. JobOK(a_job', a_ear')
    BY <1>2, <1>3, PcmTypes DEF JobOK
  <1>6. RunOK(a_pcm', a_job', a_ear') /\ DoneOK(a_pcm', a_job', a_ear')
    BY <1>1, <1>3, RingStops DEF RunOK, DoneOK
  <1>7. ~Clean(a_pcm', a_ear')
    BY <1>3 DEF Clean
  <1> QED
    BY <1>4, <1>5, <1>6, <1>7 DEF PcmInv, PcmOK

LEMMA OutKept ==
    ASSUME PcmInv, Out
    PROVE  PcmInv'
  <1>1. "done" \in Pcs /\ JobGoes("done") /\ a_ear' = a_ear /\ a_job.pc = "out"
    BY DEF Pcs, Out, JobAt
  <1>2. Stepped(a_job, a_job', "done")
    BY <1>1, GoesIs, PcmTypes
  <1>3. JobOK(a_job', a_ear')
    BY <1>1, <1>2, PcmTypes DEF JobOK, Stepped, PlayPcs, VideoPcs
  <1>4. a_job.audio \in BOOLEAN /\ a_job.stop \in BOOLEAN
    BY PcmTypes DEF SoundJobs
  <1>5. CASE a_job.audio = FALSE
    <2>1. a_pcm' = a_pcm /\ a_ring' = a_ring /\ a_dma' = a_dma
      BY <1>5 DEF Out
    <2>2. a_pcm.run = FALSE
      BY <1>5, PcmTypes DEF RunOK
    <2>3. Shapes(a_pcm', a_dma', a_job', a_ear')
      BY <1>1, <1>2, <2>1, PcmTypes DEF Shapes, Stepped
    <2>4. RunOK(a_pcm', a_job', a_ear') /\ DoneOK(a_pcm', a_job', a_ear')
      BY <1>2, <1>5, <2>1, <2>2 DEF RunOK, DoneOK, Stepped
    <2>5. ~Clean(a_pcm', a_ear')
      BY <2>1, <2>2 DEF Clean
    <2> QED
      BY <1>3, <2>3, <2>4, <2>5 DEF PcmInv, PcmOK
  <1>6. CASE a_job.audio = TRUE
    <2>1. PICK b \in Lapped(a_dma.late) : pcm_stop(b)
      BY <1>6 DEF Out
    <2>2. Shapes(a_pcm', a_dma', a_job', a_ear')
      BY <1>1, <1>2, <2>1, RingStops, PcmTypes DEF Shapes, Stepped
    <2>3. RunOK(a_pcm', a_job', a_ear')
      BY <1>2, <2>1, RingStops DEF RunOK, Stepped, VideoPcs
    <2>4. ~Clean(a_pcm', a_ear')
      BY <2>1, RingStops DEF Clean
    <2>5. ASSUME a_job.stop = FALSE, a_job.err = FALSE, a_job.next > 1, a_pcm'.under = FALSE, a_pcm'.blind = FALSE,
                 a_ear.cut = FALSE
          PROVE  a_ear.last = a_job.next - 1 /\ a_ear.bad = FALSE
      <3>1. a_pcm.run = TRUE
        BY <1>1, <1>6, <2>5, PcmTypes DEF RunOK
      <3>2. a_pcm.under = FALSE /\ a_pcm.blind = FALSE /\ Trusted(a_pcm, poll(b), a_dma, a_dma', b)
        BY <2>1, <2>5, <3>1, RingStops
      <3>3. Clean(a_pcm, a_ear)
        BY <2>5, <3>1, <3>2 DEF Clean
      <3>4. PICK base \in Nat, m \in Nat, z \in Nat :
            /\ Flow(a_pcm, a_dma, a_ring, a_ear, base, m, z)
            /\ WrittenOK(a_job, a_ear, base, m, z) /\ PlayedOK(a_pcm, a_job, base, m)
        BY <3>3, PcmTypes DEF StreamOK
      <3>5. a_dma.late <= a_pcm.queued
        BY <3>2, <3>4, PollFollows
      <3>6. HeardAt(a_ear, base, m, (a_pcm.played + a_dma.late) * PCM_SAMPLES)
        BY <3>4, <3>5 DEF Flow, EarOK
      <3>7. base + m = a_job.next - 1 /\ a_pcm.played * PCM_SAMPLES >= Ring + m
        BY <1>1, <2>5, <3>4 DEF PlayedOK
      <3> DEFINE h == (a_pcm.played + a_dma.late) * PCM_SAMPLES
      <3>8. h \in Int /\ h >= Ring + m
        <4>1. a_pcm.played \in Nat /\ a_dma.late \in Nat
          BY PcmTypes DEF RingTyped, Engines
        <4>2. h >= a_pcm.played * PCM_SAMPLES /\ h \in Int /\ a_pcm.played * PCM_SAMPLES \in Int
          BY <4>1, PcmNumbers
        <4> HIDE DEF h
        <4> QED
          BY <3>7, <4>2, PcmNumbers
      <3> HIDE DEF h
      <3>9. LastAt(base, m, h) = base + m
        BY <3>8, PcmNumbers DEF LastAt
      <3> QED
        BY <3>6, <3>7, <3>9 DEF HeardAt, h
    <2>6. DoneOK(a_pcm', a_job', a_ear')
      BY <1>1, <1>2, <2>5 DEF DoneOK, Stepped
    <2> QED
      BY <1>3, <2>2, <2>3, <2>4, <2>6 DEF PcmInv, PcmOK
  <1> QED
    BY <1>4, <1>5, <1>6

LEMMA QuietIs ==
    /\ Quiet \in SoundJobs /\ Quiet.pc = "idle" /\ Quiet.kind = "play" /\ Quiet.next = 1 /\ Quiet.frame = 0 /\ Quiet.chunks = 0
  <1>1. <<>> \in Seq(Nat) /\ 0 \in 0 .. VideoFrames
    BY PcmAssumption
  <1> QED
    BY <1>1 DEF Quiet, SoundJobs

LEMMA DoneKept ==
    ASSUME PcmInv, Done
    PROVE  PcmInv'
  <1>1. /\ a_job' = Quiet /\ a_job.pc = "done" /\ a_pcm' = a_pcm /\ a_dma' = a_dma /\ a_ring' = a_ring /\ a_ear' = a_ear
    BY DEF Done, JobAt
  <1>2. /\ Quiet \in SoundJobs /\ Quiet.pc = "idle" /\ Quiet.kind = "play"
    BY QuietIs
  <1>3. a_pcm.run = FALSE
    BY <1>1, PcmTypes DEF RunOK
  <1>4. JobOK(Quiet, a_ear) /\ RunOK(a_pcm, Quiet, a_ear) /\ DoneOK(a_pcm, Quiet, a_ear)
    BY <1>2, <1>3 DEF JobOK, RunOK, DoneOK, PlayPcs, VideoPcs
  <1>5. ~Clean(a_pcm, a_ear)
    BY <1>3 DEF Clean
  <1>6. PcmOK(a_pcm, a_dma, a_ring, a_job', a_ear)
    BY <1>1, <1>2, <1>4, <1>5, PcmTypes DEF PcmOK, Shapes
  <1> QED
    BY <1>1, <1>6, SamePcm

LEMMA TakeKept ==
    ASSUME PcmInv, NEW kind \in {"play", "video"}, NEW audible \in BOOLEAN, kind = "play" => audible = TRUE,
           Take(kind, audible)
    PROVE  PcmInv'
  <1> DEFINE entry == IF kind = "play" THEN "song" ELSE "open"
             job == [Quiet EXCEPT !.kind = kind, !.pc = entry, !.audio = audible]
             ear == [last |-> 0, fresh |-> TRUE, end |-> -1, bad |-> FALSE, cut |-> FALSE, skipped |-> FALSE]
  <1>1. /\ a_job' = job /\ a_job.pc = "idle" /\ a_pcm' = a_pcm /\ a_dma' = a_dma /\ a_ring' = a_ring /\ a_ear' = ear
    BY DEF Take, JobAt
  <1>2. entry \in {"song", "open"} /\ (entry = "song" <=> kind = "play")
    OBVIOUS
  <1> HIDE DEF entry
  <1>3. /\ job \in SoundJobs /\ job.pc = entry /\ job.kind = kind /\ job.audio = audible /\ job.next = 1 /\ job.frame = 0
        /\ job.chunks = 0
    <2>1. entry \in Pcs
      BY <1>2 DEF Pcs, PlayPcs, VideoPcs
    <2> QED
      BY <2>1, QuietIs DEF SoundJobs, Pcs
  <1>4. EarShape(ear) /\ ear.cut = FALSE
    BY DEF EarShape, EarFields
  <1> HIDE DEF job, ear
  <1>5. a_pcm.run = FALSE
    BY <1>1, PcmTypes DEF RunOK
  <1>6. a_of(0) = 0 /\ VideoFrames \in Nat
    BY PcmAssumption DEF a_of
  <1>7. JobOK(job, ear)
    <2>1. 1 = a_of(0) + 1 /\ 0 <= 0 /\ ~(0 = VideoFrames /\ VideoFrames > 0)
      BY <1>6
    <2> QED
      BY <1>2, <1>3, <2>1 DEF JobOK, PlayPcs, VideoPcs
  <1>8. RunOK(a_pcm, job, ear) /\ DoneOK(a_pcm, job, ear)
    <2>1. job.pc \in {"song", "open"} /\ ~(job.next > 1)
      BY <1>2, <1>3
    <2> QED
      BY <1>5, <2>1 DEF RunOK, DoneOK, VideoPcs
  <1>9. ~Clean(a_pcm, ear)
    BY <1>5 DEF Clean
  <1>10. Shapes(a_pcm, a_dma, job, ear)
    BY <1>3, <1>4, PcmTypes DEF Shapes
  <1> QED
    BY <1>1, <1>7, <1>8, <1>9, <1>10 DEF PcmInv, PcmOK

\* One more sample of silence behind the song.
LEMMA TailStepKept ==
    ASSUME PcmInv, JobAt("tail"), a_job.buf = <<>>, a_job.left # 0, a_job' = [a_job EXCEPT !.left = @ - 1, !.buf = << 0 >>],
           a_pcm' = a_pcm, a_dma' = a_dma, a_ring' = a_ring, a_ear' = a_ear
    PROVE  PcmInv'
  <1>1. a_job.left \in Nat /\ a_job.left - 1 \in Nat /\ << 0 >> \in Seq(Nat) /\ a_job.pc = "tail" /\ a_job.left <= Ring
    BY PcmTypes DEF SoundJobs, JobAt, JobOK
  <1>2. /\ a_job' \in SoundJobs /\ a_job'.stop = a_job.stop /\ a_job'.pc = "tail" /\ a_job'.kind = a_job.kind
        /\ a_job'.audio = a_job.audio /\ a_job'.next = a_job.next /\ a_job'.buf = << 0 >> /\ a_job'.left = a_job.left - 1
        /\ a_job'.frame = a_job.frame /\ a_job'.chunks = a_job.chunks /\ a_job'.err = a_job.err
    BY <1>1, PcmTypes DEF SoundJobs
  <1>0. a_job.left - 1 <= Ring
    BY <1>1, PcmNumbers
  <1>3. JobOK(a_job', a_ear)
    BY <1>0, <1>1, <1>2, PcmTypes DEF JobOK
  <1>4. RunOK(a_pcm, a_job', a_ear) /\ DoneOK(a_pcm, a_job', a_ear)
    BY <1>1, <1>2, PcmTypes DEF RunOK, DoneOK
  <1>5. ASSUME NEW base \in Nat, NEW m \in Nat, NEW z \in Nat,
               WrittenOK(a_job, a_ear, base, m, z), PlayedOK(a_pcm, a_job, base, m)
        PROVE  WrittenOK(a_job', a_ear, base, m, z) /\ PlayedOK(a_pcm, a_job', base, m)
    <2>1. /\ base + m = a_job.next - 1 /\ a_ear.end = base + m
          /\ z + a_job.left + Len(a_job.buf) = Ring
          /\ a_job.kind = "video" => base = 0 /\ a_of(a_job.chunks) - SPF <= m
      BY <1>1, <1>5 DEF WrittenOK
    <2>2. Len(<<>>) = 0 /\ Len(<< 0 >>) = 1
      OBVIOUS
    <2>3. z + (a_job.left - 1) + 1 = Ring
      <3> DEFINE l == a_job.left
      <3>1. z + l + 0 = Ring
        BY <2>1, <2>2
      <3>2. l \in Nat
        BY <1>1
      <3> HIDE DEF l
      <3>3. z + (l - 1) + 1 = Ring
        BY <3>1, <3>2
      <3> QED
        BY <3>3 DEF l
    <2>4. WrittenOK(a_job', a_ear, base, m, z)
      BY <1>2, <2>1, <2>2, <2>3 DEF WrittenOK
    <2>5. PlayedOK(a_pcm, a_job', base, m)
      BY <1>1, <1>2, <1>5 DEF PlayedOK
    <2> QED
      BY <2>4, <2>5
  <1>6. PcmOK(a_pcm, a_dma, a_ring, a_job', a_ear)
    BY <1>2, <1>3, <1>4, <1>5, PcmTypes, JobMoves
  <1> QED
    BY <1>6, SamePcm

LEMMA VideoIs ==
    ASSUME PcmInv
    PROVE  /\ a_job.frame \in Nat /\ a_job.chunks \in Nat /\ a_job.frame <= VideoFrames /\ a_job.chunks <= VideoFrames
           /\ a_job.next \in Nat /\ VideoFrames \in Nat /\ SPF \in Nat /\ SPF > 0 /\ Ring \in Nat
           /\ \A i \in Nat : a_of(i) \in Nat /\ a_of(i + 1) = a_of(i) + SPF
  <1>1. \A i \in Nat : a_of(i) \in Nat /\ a_of(i + 1) = a_of(i) + SPF
    BY PcmAssumption DEF a_of
  <1> QED
    BY <1>1, PcmTypes, PcmAssumption, PcmNumbers DEF SoundJobs

\* The loop ends with an error.
LEMMA FailsKept ==
    ASSUME PcmInv, a_job.pc \in {"draw", "picture", "drain"}, a_job' = [a_job EXCEPT !.pc = "out", !.err = TRUE],
           a_pcm' = a_pcm, a_dma' = a_dma, a_ring' = a_ring, a_ear' = a_ear
    PROVE  PcmInv'
  <1>1. "out" \in Pcs
    BY DEF Pcs
  <1>2. /\ a_job' \in SoundJobs /\ a_job'.stop = a_job.stop /\ a_job'.pc = "out" /\ a_job'.kind = a_job.kind
        /\ a_job'.audio = a_job.audio /\ a_job'.next = a_job.next /\ a_job'.err = TRUE
        /\ a_job'.frame = a_job.frame /\ a_job'.chunks = a_job.chunks
    BY <1>1, PcmTypes DEF SoundJobs, Pcs
  <1>3. JobOK(a_job', a_ear)
    BY <1>2, PcmTypes DEF JobOK, PlayPcs, VideoPcs
  <1>4. RunOK(a_pcm, a_job', a_ear) /\ DoneOK(a_pcm, a_job', a_ear)
    BY <1>2, PcmTypes DEF RunOK, DoneOK, VideoPcs
  <1>5. ASSUME NEW base \in Nat, NEW m \in Nat, NEW z \in Nat,
               WrittenOK(a_job, a_ear, base, m, z), PlayedOK(a_pcm, a_job, base, m)
        PROVE  WrittenOK(a_job', a_ear, base, m, z) /\ PlayedOK(a_pcm, a_job', base, m)
    <2>1. WrittenOK(a_job', a_ear, base, m, z)
      BY <1>2, <1>5 DEF WrittenOK
    <2>2. PlayedOK(a_pcm, a_job', base, m)
      BY <1>2, <1>5 DEF PlayedOK
    <2> QED
      BY <2>1, <2>2
  <1>6. PcmOK(a_pcm, a_dma, a_ring, a_job', a_ear)
    BY <1>2, <1>3, <1>4, <1>5, PcmTypes, JobMoves
  <1> QED
    BY <1>6, SamePcm

LEMMA PlayedDrawn ==
    ASSUME NEW p, NEW job, NEW job2, NEW base, NEW m, PlayedOK(p, job, base, m), job.pc = "draw", job.frame \in Nat,
           job2.pc = "picture", job2.frame = job.frame + 1
    PROVE  PlayedOK(p, job2, base, m)
  <1>1. job2.frame - 1 = job.frame
    OBVIOUS
  <1> QED
    BY <1>1 DEF PlayedOK

LEMMA DrawKept ==
    ASSUME PcmInv, draw_frame
    PROVE  PcmInv'
  <1>1. a_job.pc = "draw" /\ a_pcm' = a_pcm /\ a_dma' = a_dma /\ a_ring' = a_ring /\ a_ear' = a_ear
    BY DEF draw_frame, JobAt
  <1>2. CASE a_job' = [a_job EXCEPT !.pc = "out", !.err = TRUE]
    BY <1>1, <1>2, FailsKept
  <1>3. CASE a_job' = [a_job EXCEPT !.frame = @ + 1, !.pc = "picture"]
    <2>0. a_job.frame < VideoFrames /\ a_job.frame \in Nat /\ a_job.kind = "video"
          /\ (a_job.audio = TRUE => a_job.frame < a_job.chunks) /\ a_job.chunks \in Nat
      BY <1>1, VideoIs, PcmTypes DEF JobOK, VideoPcs
    <2>1. a_job.frame + 1 \in 0 .. VideoFrames /\ "picture" \in Pcs
      BY <2>0, VideoIs DEF Pcs, VideoPcs
    <2>2. /\ a_job' \in SoundJobs /\ a_job'.stop = a_job.stop /\ a_job'.pc = "picture" /\ a_job'.kind = a_job.kind
          /\ a_job'.audio = a_job.audio /\ a_job'.next = a_job.next /\ a_job'.err = a_job.err
          /\ a_job'.frame = a_job.frame + 1 /\ a_job'.chunks = a_job.chunks
      BY <1>3, <2>1, PcmTypes DEF SoundJobs, Pcs
    <2>3. JobOK(a_job', a_ear)
      <3>1. a_job.audio = TRUE => a_job.frame + 1 <= a_job.chunks
        BY <2>0
      <3> QED
        BY <2>0, <2>2, <3>1, PcmTypes DEF JobOK, PlayPcs
    <2>4. RunOK(a_pcm, a_job', a_ear) /\ DoneOK(a_pcm, a_job', a_ear)
      BY <1>1, <2>2, PcmTypes DEF RunOK, DoneOK, VideoPcs
    <2>5. ASSUME NEW base \in Nat, NEW m \in Nat, NEW z \in Nat,
                 WrittenOK(a_job, a_ear, base, m, z), PlayedOK(a_pcm, a_job, base, m)
          PROVE  WrittenOK(a_job', a_ear, base, m, z) /\ PlayedOK(a_pcm, a_job', base, m)
      <3>1. WrittenOK(a_job', a_ear, base, m, z)
        BY <1>1, <2>2, <2>5 DEF WrittenOK
      <3>3. PlayedOK(a_pcm, a_job', base, m)
        BY <1>1, <2>0, <2>2, <2>5, PlayedDrawn
      <3> QED
        BY <3>1, <3>3
    <2>6. PcmOK(a_pcm, a_dma, a_ring, a_job', a_ear)
      BY <2>2, <2>3, <2>4, <2>5, PcmTypes, JobMoves
    <2> QED
      BY <1>1, <2>6, SamePcm
  <1> QED
    BY <1>2, <1>3 DEF draw_frame

LEMMA SamplesIs ==
    ASSUME NEW a \in Nat, NEW n \in Nat
    PROVE  /\ Samples(a, n) \in Seq(Nat) /\ Len(Samples(a, n)) = n
           /\ \A i \in 1 .. n : Samples(a, n)[i] = a + i - 1
  <1>1. \A i \in 1 .. n : a + i - 1 \in Nat
    OBVIOUS
  <1> QED
    BY <1>1 DEF Samples

\* The stream holds the song up to here, and the loop has the next of it to write.
LEMMA NextWritten ==
    ASSUME NEW job2, NEW ear, NEW base \in Nat, NEW m \in Nat, NEW next \in Nat, NEW n \in Nat, base + m = next - 1,
           job2.pc \in {"queue", "sound"}, job2.buf = Samples(next, n), job2.next = next + n,
           job2.kind = "video" => base = 0 /\ a_of(job2.chunks) - SPF <= m
    PROVE  WrittenOK(job2, ear, base, m, 0)
  <1>1. /\ Len(job2.buf) = n /\ \A i \in 1 .. n : job2.buf[i] = next + i - 1
    <2>1. Len(Samples(next, n)) = n /\ \A i \in 1 .. n : Samples(next, n)[i] = next + i - 1
      BY SamplesIs
    <2> QED
      BY <2>1
  <1>2. base + m + n = next + n - 1
    OBVIOUS
  <1>3. \A i \in 1 .. n : next + i - 1 = base + m + i
    OBVIOUS
  <1> QED
    BY <1>1, <1>2, <1>3 DEF WrittenOK

\* The end of the song is marked where the stream stands.
LEMMA MarksEnd ==
    ASSUME NEW p, NEW dma, NEW ring, NEW ear, NEW ear2, NEW base, NEW m, Flow(p, dma, ring, ear, base, m, 0),
           ear2.last = ear.last, ear2.bad = ear.bad, ear2.fresh = ear.fresh
    PROVE  Flow(p, dma, ring, ear2, base, m, 0)
  BY DEF Flow, EarOK, HeardAt

LEMMA EndingKept ==
    ASSUME PcmInv, NEW err \in BOOLEAN, JobAt("song"), a_job.stop = FALSE, a_job.next > 1, Ending(err),
           a_pcm' = a_pcm, a_dma' = a_dma, a_ring' = a_ring
    PROVE  PcmInv'
  <1>1. /\ a_job' = [a_job EXCEPT !.pc = "tail", !.left = Ring, !.buf = <<>>, !.err = err]
        /\ a_ear' = [a_ear EXCEPT !.end = a_job.next - 1] /\ a_job.pc = "song"
    BY DEF Ending, JobAt
  <1>2. /\ a_job' \in SoundJobs /\ a_job'.stop = a_job.stop /\ a_job'.pc = "tail" /\ a_job'.kind = a_job.kind
        /\ a_job'.audio = a_job.audio /\ a_job'.next = a_job.next /\ a_job'.err = err /\ a_job'.buf = <<>> /\ a_job'.left = Ring
        /\ a_job'.frame = a_job.frame /\ a_job'.chunks = a_job.chunks
    <2>1. "tail" \in Pcs /\ <<>> \in Seq(Nat) /\ Ring \in Nat
      BY PcmNumbers DEF Pcs, PlayPcs
    <2> QED
      BY <1>1, <2>1, PcmTypes DEF SoundJobs, Pcs
  <1>3. /\ EarShape(a_ear') /\ a_ear'.cut = a_ear.cut /\ a_ear'.end = a_job.next - 1 /\ a_ear'.last = a_ear.last
        /\ a_ear'.bad = a_ear.bad /\ a_ear'.fresh = a_ear.fresh
    BY <1>1, PcmTypes DEF EarShape, EarFields
  <1>0. a_job.kind = "play" /\ a_job.audio = TRUE /\ Ring <= Ring /\ a_job.next \in Nat
    <2>1. a_job.kind = "play" /\ a_job.audio = TRUE
      BY <1>1, PcmTypes DEF JobOK, PlayPcs
    <2>2. a_job.next \in Nat
      BY PcmTypes DEF SoundJobs
    <2> QED
      BY <2>1, <2>2, PcmNumbers
  <1>4. Shapes(a_pcm', a_dma', a_job', a_ear')
    BY <1>2, <1>3, PcmTypes DEF Shapes
  <1>5. JobOK(a_job', a_ear')
    BY <1>0, <1>2 DEF JobOK, VideoPcs
  <1>6. RunOK(a_pcm', a_job', a_ear') /\ DoneOK(a_pcm', a_job', a_ear')
    BY <1>0, <1>1, <1>2, <1>3, PcmTypes DEF RunOK, DoneOK, VideoPcs
  <1>7. ASSUME Clean(a_pcm', a_ear') PROVE StreamOK(a_pcm', a_dma', a_ring', a_job', a_ear')
    <2>1. Clean(a_pcm, a_ear)
      BY <1>3, <1>7 DEF Clean
    <2>2. PICK base \in Nat, m \in Nat, z \in Nat :
            /\ Flow(a_pcm, a_dma, a_ring, a_ear, base, m, z)
            /\ WrittenOK(a_job, a_ear, base, m, z) /\ PlayedOK(a_pcm, a_job, base, m)
      BY <2>1, PcmTypes DEF StreamOK
    <2>3. z = 0 /\ base + m = a_job.next - 1
      BY <1>1, <2>2 DEF WrittenOK
    <2>4. Flow(a_pcm', a_dma', a_ring', a_ear', base, m, 0)
      BY <1>3, <2>2, <2>3, MarksEnd
    <2>5. 0 + Ring + Len(<<>>) = Ring
      BY PcmNumbers
    <2>6. WrittenOK(a_job', a_ear', base, m, 0)
      BY <1>0, <1>2, <1>3, <2>3, <2>5 DEF WrittenOK
    <2>7. PlayedOK(a_pcm', a_job', base, m)
      BY <1>0, <1>2 DEF PlayedOK
    <2>8. 0 \in Nat
      OBVIOUS
    <2> QED
      BY <2>4, <2>6, <2>7, <2>8 DEF StreamOK
  <1> QED
    BY <1>4, <1>5, <1>6, <1>7 DEF PcmInv, PcmOK

\* The next frame of the song, the first of which starts the ring.
LEMMA FrameKept ==
    ASSUME PcmInv, JobAt("song"), a_job.stop = FALSE, NEW n \in Nat, n > 0,
           a_job' = [a_job EXCEPT !.pc = "queue", !.next = @ + n, !.buf = Samples(a_job.next, n)],
           IF a_job.next = 1 THEN pcm_start ELSE UNCHANGED <<a_pcm, a_ring, a_dma, a_pad, a_ear>>
    PROVE  PcmInv'
  <1>1. a_job.pc = "song" /\ a_job.next \in Nat /\ a_job.next > 0 /\ a_job.kind = "play" /\ a_job.audio = TRUE
    <2>1. a_job.pc = "song" /\ a_job.kind = "play" /\ a_job.audio = TRUE
      BY PcmTypes DEF JobAt, JobOK, PlayPcs
    <2>2. a_job.next \in Nat \ {0}
      BY PcmTypes DEF SoundJobs
    <2> QED
      BY <2>1, <2>2
  <1>2. /\ a_job' \in SoundJobs /\ a_job'.stop = a_job.stop /\ a_job'.pc = "queue" /\ a_job'.kind = a_job.kind
        /\ a_job'.audio = a_job.audio /\ a_job'.next = a_job.next + n /\ a_job'.err = a_job.err
        /\ a_job'.buf = Samples(a_job.next, n) /\ a_job'.frame = a_job.frame /\ a_job'.chunks = a_job.chunks
    <2>1. "queue" \in Pcs /\ Samples(a_job.next, n) \in Seq(Nat) /\ a_job.next + n \in Nat \ {0}
      <3>1. "queue" \in Pcs
        BY DEF Pcs, PlayPcs
      <3>2. Samples(a_job.next, n) \in Seq(Nat)
        BY <1>1, SamplesIs
      <3>3. a_job.next + n \in Nat \ {0}
        BY <1>1
      <3> QED
        BY <3>1, <3>2, <3>3
    <2> QED
      BY <2>1, PcmTypes DEF SoundJobs, Pcs
  <1>3. a_job.next + n > 1
    BY <1>1
  <1>4. \A ear : JobOK(a_job', ear)
    BY <1>1, <1>2, <1>3 DEF JobOK, VideoPcs
  <1>5. ASSUME NEW base \in Nat, NEW m \in Nat, base + m = a_job.next - 1
        PROVE  WrittenOK(a_job', a_ear', base, m, 0) /\ PlayedOK(a_pcm', a_job', base, m)
    <2>1. WrittenOK(a_job', a_ear', base, m, 0)
      BY <1>1, <1>2, <1>5, NextWritten
    <2>2. PlayedOK(a_pcm', a_job', base, m)
      BY <1>1, <1>2 DEF PlayedOK
    <2> QED
      BY <2>1, <2>2
  <1>6. CASE a_job.next = 1
    <2>1. pcm_start
      BY <1>6
    <2>2. Shapes(a_pcm', a_dma', a_job', a_ear')
      BY <1>2, <2>1, RestartIs, PcmTypes DEF Shapes
    <2>3. RunOK(a_pcm', a_job', a_ear') /\ DoneOK(a_pcm', a_job', a_ear')
      BY <1>1, <1>2, <2>1, RestartIs DEF RunOK, DoneOK
    <2>4. a_job.next - 1 \in Nat /\ Flow(a_pcm', a_dma', a_ring', a_ear', a_job.next - 1, 0, 0)
      BY <2>1, RestartIs
    <2>5. 0 \in Nat /\ a_job.next - 1 + 0 = a_job.next - 1
      BY <1>1
    <2>6. StreamOK(a_pcm', a_dma', a_ring', a_job', a_ear')
      BY <1>5, <2>4, <2>5 DEF StreamOK
    <2> QED
      BY <1>4, <2>2, <2>3, <2>6 DEF PcmInv, PcmOK
  <1>7. CASE a_job.next # 1
    <2>1. a_pcm' = a_pcm /\ a_ring' = a_ring /\ a_dma' = a_dma /\ a_ear' = a_ear
      BY <1>7
    <2>2. Shapes(a_pcm', a_dma', a_job', a_ear')
      BY <1>2, <2>1, PcmTypes DEF Shapes
    <2>3. RunOK(a_pcm', a_job', a_ear') /\ DoneOK(a_pcm', a_job', a_ear')
      <3>1. a_job.next > 1
        BY <1>1, <1>7
      <3>2. a_ear.cut = FALSE => a_pcm.run = TRUE
        BY <1>1, <3>1, PcmTypes DEF RunOK
      <3> QED
        BY <1>1, <1>2, <2>1, <3>2 DEF RunOK, DoneOK
    <2>4. ASSUME Clean(a_pcm', a_ear') PROVE StreamOK(a_pcm', a_dma', a_ring', a_job', a_ear')
      <3>1. PICK base \in Nat, m \in Nat, z \in Nat :
              /\ Flow(a_pcm, a_dma, a_ring, a_ear, base, m, z)
              /\ WrittenOK(a_job, a_ear, base, m, z) /\ PlayedOK(a_pcm, a_job, base, m)
        BY <2>1, <2>4, PcmTypes DEF StreamOK
      <3>2. z = 0 /\ base + m = a_job.next - 1
        BY <1>1, <3>1 DEF WrittenOK
      <3>3. WrittenOK(a_job', a_ear', base, m, z) /\ PlayedOK(a_pcm', a_job', base, m)
        BY <1>5, <3>2
      <3> QED
        BY <2>1, <3>1, <3>3 DEF StreamOK
    <2> QED
      BY <1>4, <2>2, <2>3, <2>4 DEF PcmInv, PcmOK
  <1> QED
    BY <1>6, <1>7

\* The sound of the next picture.
LEMMA QueueAudioKept ==
    ASSUME PcmInv, JobAt("picture"), a_job.stop = FALSE, a_job.audio = TRUE, queue_audio
    PROVE  PcmInv'
  <1>1. a_job.pc = "picture" /\ a_job.kind = "video" /\ a_job.next = a_of(a_job.chunks) + 1 /\ a_job.frame <= a_job.chunks
    BY PcmTypes DEF JobAt, JobOK, VideoPcs
  <1>2. a_job.chunks < VideoFrames /\ a_pcm' = a_pcm /\ a_ring' = a_ring /\ a_dma' = a_dma
    BY DEF queue_audio
  <1>3. CASE a_job' = [a_job EXCEPT !.pc = "out", !.err = TRUE] /\ a_ear' = a_ear
    BY <1>1, <1>2, <1>3, FailsKept
  <1>4. CASE /\ a_job' = [a_job EXCEPT !.pc = "sound", !.chunks = @ + 1, !.next = @ + SPF,
                                    !.buf = Samples(a_of(a_job.chunks) + 1, SPF)]
             /\ a_ear' = [a_ear EXCEPT !.end = IF a_job.chunks + 1 = VideoFrames THEN a_of(VideoFrames) ELSE @]
    <2>1. /\ a_job.chunks + 1 \in 0 .. VideoFrames /\ a_job.next + SPF \in Nat \ {0}
          /\ Samples(a_job.next, SPF) \in Seq(Nat) /\ "sound" \in Pcs
      <3>1. a_job.next \in Nat /\ SPF \in Nat /\ a_job.next + SPF \in Nat \ {0} /\ a_job.chunks + 1 \in 0 .. VideoFrames
        BY <1>2, VideoIs
      <3> QED
        BY <3>1, SamplesIs DEF Pcs, VideoPcs
    <2>2. /\ a_job' \in SoundJobs /\ a_job'.stop = a_job.stop /\ a_job'.pc = "sound" /\ a_job'.kind = a_job.kind
          /\ a_job'.audio = a_job.audio /\ a_job'.next = a_job.next + SPF /\ a_job'.err = a_job.err
          /\ a_job'.buf = Samples(a_job.next, SPF) /\ a_job'.frame = a_job.frame /\ a_job'.chunks = a_job.chunks + 1
      BY <1>1, <1>4, <2>1, PcmTypes DEF SoundJobs, Pcs
    <2>3. /\ EarShape(a_ear') /\ a_ear'.cut = a_ear.cut /\ a_ear'.last = a_ear.last
          /\ a_ear'.bad = a_ear.bad /\ a_ear'.fresh = a_ear.fresh
          /\ a_job.chunks + 1 = VideoFrames => a_ear'.end = a_of(VideoFrames)
      BY <1>4, PcmTypes DEF EarShape, EarFields
    <2>4. Shapes(a_pcm', a_dma', a_job', a_ear')
      BY <1>2, <2>2, <2>3, PcmTypes DEF Shapes
    <2>5. a_job.next + SPF = a_of(a_job.chunks + 1) + 1 /\ a_job.frame <= a_job.chunks + 1
      <3>1. a_of(a_job.chunks) \in Nat /\ a_of(a_job.chunks + 1) = a_of(a_job.chunks) + SPF /\ a_job.chunks \in Nat /\ SPF \in Nat
            /\ a_job.frame \in Nat
        BY VideoIs
      <3> QED
        BY <1>1, <3>1
    <2>6. JobOK(a_job', a_ear')
      BY <1>1, <2>2, <2>3, <2>5 DEF JobOK, PlayPcs
    <2>7. RunOK(a_pcm', a_job', a_ear') /\ DoneOK(a_pcm', a_job', a_ear')
      BY <1>1, <1>2, <2>2, <2>3, PcmTypes DEF RunOK, DoneOK, VideoPcs
    <2>8. ASSUME Clean(a_pcm', a_ear') PROVE StreamOK(a_pcm', a_dma', a_ring', a_job', a_ear')
      <3>1. Clean(a_pcm, a_ear)
        BY <1>2, <2>3, <2>8 DEF Clean
      <3>2. PICK base \in Nat, m \in Nat, z \in Nat :
              /\ Flow(a_pcm, a_dma, a_ring, a_ear, base, m, z)
              /\ WrittenOK(a_job, a_ear, base, m, z) /\ PlayedOK(a_pcm, a_job, base, m)
        BY <3>1, PcmTypes DEF StreamOK
      <3>3. z = 0 /\ base = 0 /\ base + m = a_job.next - 1
        BY <1>1, <3>2 DEF WrittenOK
      <3>4. Flow(a_pcm', a_dma', a_ring', a_ear', base, m, 0)
        BY <1>2, <2>3, <3>2, <3>3, MarksEnd
      <3>5. a_of(a_job.chunks + 1) - SPF <= m /\ a_job.next \in Nat /\ SPF \in Nat
        <4>1. a_of(a_job.chunks) \in Nat /\ a_of(a_job.chunks + 1) = a_of(a_job.chunks) + SPF /\ SPF \in Nat /\ a_job.next \in Nat
          BY VideoIs
        <4> QED
          BY <1>1, <3>3, <4>1
      <3>6. WrittenOK(a_job', a_ear', base, m, 0)
        BY <2>2, <3>3, <3>5, NextWritten
      <3>7. PlayedOK(a_pcm', a_job', base, m)
        BY <1>2, <2>2, <3>2 DEF PlayedOK
      <3>8. 0 \in Nat
        OBVIOUS
      <3> QED
        BY <3>4, <3>6, <3>7, <3>8 DEF StreamOK
    <2> QED
      BY <2>4, <2>6, <2>7, <2>8 DEF PcmInv, PcmOK
  <1> QED
    BY <1>3, <1>4 DEF queue_audio

\* A step that has just read the clock: what is left to show of it is about the loop.
LEMMA ClockMoves ==
    ASSUME PcmInv, NEW b \in Lapped(a_dma.late), ClockIsRead(b), a_ring' = a_ring, a_ear' = a_ear,
           a_job' \in SoundJobs, JobOK(a_job', a_ear), a_job'.audio = a_job.audio, a_job.audio = TRUE,
           a_job.pc \in {"picture", "drain"}, a_job'.pc \in {"picture", "draw", "drain", "silence", "out"},
           \A base, m, z \in Nat :
             a_pcm'.run = TRUE /\ a_pcm'.played \in Nat /\ SamplesPlayed(b) = a_pcm'.played * PCM_SAMPLES
               /\ WrittenOK(a_job, a_ear, base, m, z) /\ PlayedOK(a_pcm', a_job, base, m)
                 => WrittenOK(a_job', a_ear, base, m, z) /\ PlayedOK(a_pcm', a_job', base, m)
    PROVE  PcmInv'
  <1>1. Shapes(a_pcm', a_dma', a_job', a_ear')
    BY ClockIs, PcmTypes DEF Shapes
  <1>2. JobOK(a_job', a_ear')
    OBVIOUS
  <1>3. RunOK(a_pcm', a_job', a_ear') /\ DoneOK(a_pcm', a_job', a_ear')
    <2>1. a_pcm'.run = a_pcm.run /\ a_pcm.run \in BOOLEAN
      BY ClockIs, PcmTypes
    <2>2. a_ear.cut = FALSE => a_pcm.run = TRUE
      BY PcmTypes DEF RunOK, VideoPcs
    <2> QED
      BY <2>1, <2>2 DEF RunOK, DoneOK
  <1>4. ASSUME Clean(a_pcm', a_ear') PROVE StreamOK(a_pcm', a_dma', a_ring', a_job', a_ear')
    <2>1. a_pcm.run = TRUE /\ a_pcm'.played \in Nat /\ a_pcm'.run = TRUE
      BY <1>4, ClockFlow DEF Clean
    <2>2. PICK base \in Nat, m \in Nat, z \in Nat :
                /\ Flow(a_pcm', a_dma', a_ring', a_ear', base, m, z)
                /\ WrittenOK(a_job, a_ear, base, m, z) /\ PlayedOK(a_pcm, a_job, base, m)
                /\ a_pcm.played \in Nat /\ a_pcm.played <= a_pcm'.played
      BY <1>4, ClockFlow
    <2>3. SamplesPlayed(b) = a_pcm'.played * PCM_SAMPLES
      BY <2>1, ClockIs
    <2>4. PlayedOK(a_pcm', a_job, base, m)
      <3>1. a_job.frame \in Nat /\ a_job.pc # "draw"
        BY VideoIs
      <3> QED
        BY <2>1, <2>2, <3>1, PlayedLater
    <2>5. WrittenOK(a_job', a_ear, base, m, z) /\ PlayedOK(a_pcm', a_job', base, m)
      BY <2>1, <2>2, <2>3, <2>4
    <2> QED
      BY <2>2, <2>5 DEF StreamOK
  <1> QED
    BY <1>1, <1>2, <1>3, <1>4 DEF PcmInv, PcmOK

LEMMA PlayedInTime ==
    ASSUME NEW q, NEW job2, NEW base, NEW m, NEW f \in Nat, NEW x, x = q.played * PCM_SAMPLES, q.played \in Nat, x >= Ring + a_of(f),
           \/ job2.pc = "draw" /\ job2.frame = f /\ ~(x >= Ring + a_of(f + 1))
           \/ job2.pc = "picture" /\ job2.frame = f + 1
    PROVE  PlayedOK(q, job2, base, m)
  <1> DEFINE y == q.played * PCM_SAMPLES
  <1>1. y \in Int /\ y = x
    BY PcmNumbers
  <1>2. /\ Ring \in Nat /\ a_of(f) \in Nat /\ a_of(f + 1) \in Nat
        /\ f > 0 => a_of(f - 1) \in Nat /\ a_of(f - 1) <= a_of(f)
    BY PcmNumbers, PcmAssumption DEF a_of
  <1> HIDE DEF y
  <1>3. y >= Ring + a_of(f) /\ (f > 0 => y >= Ring + a_of(f - 1))
    BY <1>1, <1>2
  <1>4. CASE job2.pc = "draw" /\ job2.frame = f /\ ~(x >= Ring + a_of(f + 1))
    <2>1. y < Ring + a_of(f + 1)
      BY <1>1, <1>2, <1>4
    <2> QED
      BY <1>3, <1>4, <2>1 DEF PlayedOK, y
  <1>5. CASE job2.pc = "picture" /\ job2.frame = f + 1
    <2>1. job2.frame - 1 = f
      BY <1>5
    <2> QED
      BY <1>3, <1>5, <2>1 DEF PlayedOK, y
  <1> QED
    BY <1>4, <1>5

LEMMA WaitKept ==
    ASSUME PcmInv, JobAt("picture"), a_job.stop = FALSE, a_job.frame # VideoFrames, a_job.audio = TRUE,
           ~(a_job.chunks < VideoFrames /\ a_job.chunks <= a_job.frame + k_ahead), vplay_wait
    PROVE  PcmInv'
  <1>1. PICK b \in Lapped(a_dma.late) :
          /\ a_job' = IF ~InTime(SamplesPlayed(b))
                      THEN IF Stalled THEN [a_job EXCEPT !.pc = "out", !.err = TRUE] ELSE a_job
                      ELSE IF TooLate(SamplesPlayed(b))
                           THEN [a_job EXCEPT !.frame = @ + 1, !.pc = "picture"]
                           ELSE [a_job EXCEPT !.pc = "draw"]
          /\ ClockIsRead(b) /\ a_ring' = a_ring /\ a_ear' = a_ear
    BY DEF vplay_wait
  <1> DEFINE x == SamplesPlayed(b)
             f == a_job.frame
  <1>2. a_job.pc = "picture" /\ a_job.kind = "video" /\ f <= a_job.chunks
    BY PcmTypes DEF JobAt, JobOK, VideoPcs
  <1>3. f \in Nat /\ f < VideoFrames /\ f < a_job.chunks /\ f + 1 \in 0 .. VideoFrames
    <2>1. k_ahead \in Nat
      <3>1. Ring \div SPF \in Nat
        BY PcmNumbers, PcmAssumption, DivNat
      <3> QED
        BY <3>1 DEF k_ahead
    <2> DEFINE k == k_ahead
               c == a_job.chunks
               v == VideoFrames
    <2>2. /\ f \in Nat /\ c \in Nat /\ v \in Nat /\ k \in Nat /\ f <= v /\ c <= v /\ f # v
          /\ c < v => ~(c <= f + k)
      BY <2>1, VideoIs
    <2> HIDE DEF f, k, c, v
    <2>3. f < v /\ f < c /\ f + 1 \in 0 .. v
      BY <2>2
    <2> QED
      BY <2>2, <2>3 DEF c, v
  <1>4. CASE InTime(x) /\ ~TooLate(x)
    <2>1. a_job' = [a_job EXCEPT !.pc = "draw"] /\ "draw" \in Pcs
      BY <1>1, <1>4 DEF Pcs, VideoPcs
    <2>2. /\ a_job' \in SoundJobs /\ a_job'.stop = a_job.stop /\ a_job'.pc = "draw" /\ a_job'.kind = a_job.kind
          /\ a_job'.audio = a_job.audio /\ a_job'.next = a_job.next /\ a_job'.frame = f /\ a_job'.chunks = a_job.chunks
      BY <2>1, PcmTypes DEF SoundJobs, Pcs
    <2>3. JobOK(a_job', a_ear)
      BY <1>2, <1>3, <2>2, PcmTypes DEF JobOK, PlayPcs
    <2>4. ASSUME NEW base \in Nat, NEW m \in Nat, NEW z \in Nat, a_pcm'.played \in Nat, x = a_pcm'.played * PCM_SAMPLES,
                 WrittenOK(a_job, a_ear, base, m, z)
          PROVE  WrittenOK(a_job', a_ear, base, m, z) /\ PlayedOK(a_pcm', a_job', base, m)
      <3>1. WrittenOK(a_job', a_ear, base, m, z)
        BY <1>2, <2>2, <2>4 DEF WrittenOK
      <3>2. PlayedOK(a_pcm', a_job', base, m)
        BY <1>3, <1>4, <2>2, <2>4, PlayedInTime DEF InTime, TooLate, Offset0
      <3> QED
        BY <3>1, <3>2
    <2> QED
      BY <1>1, <1>2, <2>2, <2>3, <2>4, ClockMoves
  <1>5. CASE InTime(x) /\ TooLate(x)
    <2>1. a_job' = [a_job EXCEPT !.frame = @ + 1, !.pc = "picture"] /\ "picture" \in Pcs
      BY <1>1, <1>5 DEF Pcs, VideoPcs
    <2>2. /\ a_job' \in SoundJobs /\ a_job'.stop = a_job.stop /\ a_job'.pc = "picture" /\ a_job'.kind = a_job.kind
          /\ a_job'.audio = a_job.audio /\ a_job'.next = a_job.next /\ a_job'.frame = f + 1 /\ a_job'.chunks = a_job.chunks
      BY <1>3, <2>1, PcmTypes DEF SoundJobs, Pcs
    <2>3. JobOK(a_job', a_ear)
      <3>1. f + 1 <= a_job.chunks
        BY <1>3, VideoIs
      <3> QED
        BY <1>2, <2>2, <3>1, PcmTypes DEF JobOK, PlayPcs
    <2>4. ASSUME NEW base \in Nat, NEW m \in Nat, NEW z \in Nat, a_pcm'.played \in Nat, x = a_pcm'.played * PCM_SAMPLES,
                 WrittenOK(a_job, a_ear, base, m, z)
          PROVE  WrittenOK(a_job', a_ear, base, m, z) /\ PlayedOK(a_pcm', a_job', base, m)
      <3>1. WrittenOK(a_job', a_ear, base, m, z)
        BY <1>2, <2>2, <2>4 DEF WrittenOK
      <3>2. PlayedOK(a_pcm', a_job', base, m)
        BY <1>3, <1>5, <2>2, <2>4, PlayedInTime DEF InTime, Offset0
      <3> QED
        BY <3>1, <3>2
    <2> QED
      BY <1>1, <1>2, <2>2, <2>3, <2>4, ClockMoves
  <1>6. CASE ~InTime(x) /\ ~Stalled
    <2>1. a_job' = a_job
      BY <1>1, <1>6
    <2> QED
      BY <1>1, <1>2, <2>1, PcmTypes, ClockMoves
  <1>7. CASE ~InTime(x) /\ Stalled
    <2>1. a_job' = [a_job EXCEPT !.pc = "out", !.err = TRUE]
      BY <1>1, <1>7
    <2>2. a_pcm.run = FALSE
      BY <1>7, PcmTypes DEF Stalled
    <2>3. a_pcm' = a_pcm /\ a_dma' = a_dma
      BY <1>1, <2>2 DEF ClockIsRead
    <2> QED
      BY <1>1, <1>2, <2>1, <2>3, FailsKept
  <1> QED
    BY <1>4, <1>5, <1>6, <1>7

LEMMA DrainKept ==
    ASSUME PcmInv, vplay_drain
    PROVE  PcmInv'
  <1>1. a_job.pc = "drain" /\ a_job.kind = "video" /\ a_job.audio \in BOOLEAN /\ a_job.stop \in BOOLEAN
    <2>1. a_job.pc = "drain"
      BY DEF vplay_drain, JobAt
    <2>2. a_job.audio \in BOOLEAN /\ a_job.stop \in BOOLEAN
      BY PcmTypes DEF SoundJobs
    <2> QED
      BY <2>1, <2>2, PcmTypes DEF JobOK, VideoPcs
  <1>2. CASE ~(a_job.audio /\ ~a_job.stop)
    <2>1. JobGoes("out") /\ a_pcm' = a_pcm /\ a_dma' = a_dma /\ a_ring' = a_ring /\ a_ear' = a_ear
      BY <1>2 DEF vplay_drain
    <2>2. SilentMove(a_job.pc, "out")
      BY <1>1, <1>2 DEF SilentMove
    <2> QED
      BY <2>1, <2>2, SilentMoveKept
  <1>3. CASE a_job.audio = TRUE /\ a_job.stop = FALSE
    <2>1. PICK b \in Lapped(a_dma.late) :
            /\ a_job' = IF SamplesPlayed(b) >= Offset0 + a_of(VideoFrames)
                        THEN [a_job EXCEPT !.pc = "out"]
                        ELSE IF Stalled THEN [a_job EXCEPT !.pc = "out", !.err = TRUE]
                        ELSE [a_job EXCEPT !.pc = "silence"]
            /\ ClockIsRead(b) /\ a_ring' = a_ring /\ a_ear' = a_ear
      BY <1>3 DEF vplay_drain
    <2> DEFINE x == SamplesPlayed(b)
               heard == x >= Offset0 + a_of(VideoFrames)
    <2>2. CASE heard
      <3>1. a_job' = [a_job EXCEPT !.pc = "out"] /\ "out" \in Pcs
        BY <2>1, <2>2 DEF Pcs
      <3>2. /\ a_job' \in SoundJobs /\ a_job'.stop = a_job.stop /\ a_job'.pc = "out" /\ a_job'.kind = a_job.kind
            /\ a_job'.audio = a_job.audio /\ a_job'.next = a_job.next /\ a_job'.frame = a_job.frame /\ a_job'.chunks = a_job.chunks
        BY <3>1, PcmTypes DEF SoundJobs, Pcs
      <3>3. JobOK(a_job', a_ear)
        BY <1>1, <3>2, PcmTypes DEF JobOK, PlayPcs, VideoPcs
      <3>4. ASSUME NEW base \in Nat, NEW m \in Nat, NEW z \in Nat, x = a_pcm'.played * PCM_SAMPLES,
                   WrittenOK(a_job, a_ear, base, m, z), PlayedOK(a_pcm', a_job, base, m)
            PROVE  WrittenOK(a_job', a_ear, base, m, z) /\ PlayedOK(a_pcm', a_job', base, m)
        <4>1. WrittenOK(a_job', a_ear, base, m, z)
          BY <3>2, <3>4 DEF WrittenOK
        <4>2. base + m = a_job.next - 1 /\ m = a_of(VideoFrames)
          BY <1>1, <1>3, <3>4 DEF WrittenOK
        <4>3. a_pcm'.played * PCM_SAMPLES >= Ring + m
          BY <2>2, <3>4, <4>2 DEF Offset0
        <4>4. PlayedOK(a_pcm', a_job', base, m)
          BY <3>2, <3>4, <4>2, <4>3 DEF PlayedOK
        <4> QED
          BY <4>1, <4>4
      <3> QED
        BY <1>1, <1>3, <2>1, <3>2, <3>3, <3>4, ClockMoves
    <2>3. CASE ~heard /\ ~Stalled
      <3>1. a_job' = [a_job EXCEPT !.pc = "silence"] /\ "silence" \in Pcs
        BY <2>1, <2>3 DEF Pcs, VideoPcs
      <3>2. /\ a_job' \in SoundJobs /\ a_job'.stop = a_job.stop /\ a_job'.pc = "silence" /\ a_job'.kind = a_job.kind
            /\ a_job'.audio = a_job.audio /\ a_job'.next = a_job.next /\ a_job'.frame = a_job.frame /\ a_job'.chunks = a_job.chunks
        BY <3>1, PcmTypes DEF SoundJobs, Pcs
      <3>3. JobOK(a_job', a_ear)
        BY <1>1, <3>2, PcmTypes DEF JobOK, PlayPcs, VideoPcs
      <3>4. ASSUME NEW base \in Nat, NEW m \in Nat, NEW z \in Nat,
                   WrittenOK(a_job, a_ear, base, m, z), PlayedOK(a_pcm', a_job, base, m)
            PROVE  WrittenOK(a_job', a_ear, base, m, z) /\ PlayedOK(a_pcm', a_job', base, m)
        <4>1. WrittenOK(a_job', a_ear, base, m, z)
          BY <1>1, <1>3, <3>2, <3>4 DEF WrittenOK
        <4>2. PlayedOK(a_pcm', a_job', base, m)
          BY <1>1, <3>2, <3>4 DEF PlayedOK
        <4> QED
          BY <4>1, <4>2
      <3> QED
        BY <1>1, <1>3, <2>1, <3>2, <3>3, <3>4, ClockMoves
    <2>4. CASE ~heard /\ Stalled
      <3>1. a_job' = [a_job EXCEPT !.pc = "out", !.err = TRUE]
        BY <2>1, <2>4
      <3>2. a_pcm.run = FALSE
        BY <2>4, PcmTypes DEF Stalled
      <3>3. a_pcm' = a_pcm /\ a_dma' = a_dma
        BY <2>1, <3>2 DEF ClockIsRead
      <3> QED
        BY <1>1, <2>1, <3>1, <3>3, FailsKept
    <2> QED
      BY <2>2, <2>3, <2>4
  <1> QED
    BY <1>1, <1>2, <1>3
-----------------------------------------------------------------------------
(* The loops.                                                               *)

LEMMA PlayKept ==
    ASSUME PcmInv, play
    PROVE  PcmInv'
  <1>1. /\ a_job.pc = "song" /\ JobAt("song") /\ a_job.next \in Nat \ {0} /\ a_job.stop \in BOOLEAN
    BY PcmTypes DEF play, JobAt, SoundJobs
  <1>2. CASE a_job.stop = TRUE
    <2>1. JobGoes("out") /\ a_pcm' = a_pcm /\ a_dma' = a_dma /\ a_ring' = a_ring /\ a_ear' = a_ear
      BY <1>2 DEF play
    <2>2. SilentMove(a_job.pc, "out")
      BY <1>1, <1>2 DEF SilentMove
    <2> QED
      BY <2>1, <2>2, SilentMoveKept
  <1>3. CASE a_job.stop = FALSE /\ a_job.pause /\ a_job.next > 1
    <2>1. /\ \E b \in Lapped(a_dma.late) : pcm_stop(b)
          /\ JobGoes("paused") /\ a_ear' = [a_ear EXCEPT !.skipped = TRUE]
      BY <1>3 DEF play
    <2> QED
      BY <1>1, <1>3, <2>1, PausesKept
  <1>4. CASE a_job.stop = FALSE /\ ~(a_job.pause /\ a_job.next > 1)
    <2> DEFINE n == Least(Decoded, SongLength - a_job.next + 1)
    <2>1. \/ /\ a_job.next <= SongLength
             /\ a_job' = [a_job EXCEPT !.pc = "queue", !.next = @ + n, !.buf = Samples(a_job.next, n)]
             /\ IF a_job.next = 1 THEN pcm_start ELSE UNCHANGED <<a_pcm, a_ring, a_dma, a_pad, a_ear>>
          \/ /\ a_job.next > 1 /\ (Ending(FALSE) \/ Ending(TRUE))
             /\ UNCHANGED <<a_pcm, a_ring, a_dma, a_pad>>
      BY <1>4 DEF play
    <2>2. a_job.next <= SongLength => n \in Nat /\ n > 0
      BY <1>1, PcmAssumption DEF Least
    <2> HIDE DEF n
    <2>3. CASE /\ a_job.next <= SongLength
               /\ a_job' = [a_job EXCEPT !.pc = "queue", !.next = @ + n, !.buf = Samples(a_job.next, n)]
               /\ IF a_job.next = 1 THEN pcm_start ELSE UNCHANGED <<a_pcm, a_ring, a_dma, a_pad, a_ear>>
      BY <1>1, <1>4, <2>2, <2>3, FrameKept
    <2>4. CASE /\ a_job.next > 1 /\ (Ending(FALSE) \/ Ending(TRUE))
               /\ UNCHANGED <<a_pcm, a_ring, a_dma, a_pad>>
      <3>1. PICK err \in BOOLEAN : Ending(err)
        BY <2>4
      <3> QED
        BY <1>1, <1>4, <2>4, <3>1, EndingKept
    <2> QED
      BY <2>1, <2>3, <2>4
  <1> QED
    BY <1>1, <1>2, <1>3, <1>4

\* Where a loop has a buffer to send, it goes on when that is empty or the job stopped.
LEMMA SendsKept ==
    ASSUME PcmInv, NEW pc2, (a_job.pc = "queue" /\ pc2 = "song") \/ (a_job.pc = "sound" /\ pc2 = "picture"),
           IF a_job.stop \/ a_job.buf = <<>>
           THEN JobGoes(pc2) /\ UNCHANGED <<a_pcm, a_ring, a_dma, a_pad, a_ear>>
           ELSE \E b \in Lapped(a_dma.late) : pcm_write(a_job.buf, b, a_job.pc)
    PROVE  PcmInv'
  <1>1. a_job.stop \in BOOLEAN
    BY PcmTypes DEF SoundJobs
  <1>2. CASE a_job.stop \/ a_job.buf = <<>>
    <2>1. SilentMove(a_job.pc, pc2)
      BY <1>1, <1>2 DEF SilentMove
    <2> QED
      BY <1>2, <2>1, SilentMoveKept
  <1>3. CASE ~(a_job.stop \/ a_job.buf = <<>>)
    <2>1. PICK b \in Lapped(a_dma.late) : pcm_write(a_job.buf, b, a_job.pc)
      BY <1>3
    <2> QED
      BY <2>1, WriteKept
  <1> QED
    BY <1>2, <1>3

LEMMA ResumeKept ==
    ASSUME PcmInv, resume
    PROVE  PcmInv'
  <1>1. a_job.pc = "paused"
    BY DEF resume, JobAt
  <1>2. CASE a_job.stop = TRUE /\ JobGoes("out") /\ UNCHANGED <<a_pcm, a_ring, a_dma, a_pad, a_ear>>
    <2>1. SilentMove(a_job.pc, "out")
      BY <1>1, <1>2 DEF SilentMove
    <2> QED
      BY <1>2, <2>1, SilentMoveKept
  <1>3. CASE JobGoes("song") /\ pcm_start
    BY <1>1, <1>3, StartKept
  <1>4. a_job.stop \in BOOLEAN
    BY PcmTypes DEF SoundJobs
  <1> QED
    BY <1>2, <1>3, <1>4 DEF resume

LEMMA TailKept ==
    ASSUME PcmInv, play_tail
    PROVE  PcmInv'
  <1>1. a_job.pc = "tail" /\ JobAt("tail") /\ a_job.stop \in BOOLEAN /\ Ring - TailLength = 0
    BY PcmTypes, PcmNumbers DEF play_tail, JobAt, SoundJobs, TailLength
  <1>2. CASE a_job.stop \/ (a_job.left = 0 /\ a_job.buf = <<>>)
    <2>1. JobGoes("out") /\ a_pcm' = a_pcm /\ a_dma' = a_dma /\ a_ring' = a_ring /\ a_ear' = a_ear
      BY <1>1, <1>2 DEF play_tail
    <2>2. SilentMove(a_job.pc, "out")
      BY <1>1, <1>2 DEF SilentMove
    <2> QED
      BY <2>1, <2>2, SilentMoveKept
  <1>3. CASE ~(a_job.stop \/ (a_job.left = 0 /\ a_job.buf = <<>>)) /\ a_job.buf = <<>>
    <2>1. /\ a_job' = [a_job EXCEPT !.left = @ - 1, !.buf = << 0 >>]
          /\ a_pcm' = a_pcm /\ a_dma' = a_dma /\ a_ring' = a_ring /\ a_ear' = a_ear
      BY <1>1, <1>3 DEF play_tail
    <2> QED
      BY <1>1, <1>3, <2>1, TailStepKept
  <1>4. CASE ~(a_job.stop \/ (a_job.left = 0 /\ a_job.buf = <<>>)) /\ a_job.buf # <<>>
    <2>1. PICK b \in Lapped(a_dma.late) : pcm_write(a_job.buf, b, a_job.pc)
      BY <1>1, <1>4 DEF play_tail
    <2> QED
      BY <1>1, <2>1, WriteKept
  <1> QED
    BY <1>2, <1>3, <1>4

LEMMA OpenKept ==
    ASSUME PcmInv, vplay_open
    PROVE  PcmInv'
  <1>1. a_job.pc = "open" /\ a_job.audio \in BOOLEAN
    BY PcmTypes DEF vplay_open, JobAt, SoundJobs
  <1>2. CASE a_job.audio = FALSE /\ JobGoes("picture") /\ UNCHANGED <<a_pcm, a_ring, a_dma, a_pad, a_ear>>
    <2>1. SilentMove(a_job.pc, "picture")
      BY <1>1, <1>2 DEF SilentMove
    <2> QED
      BY <1>2, <2>1, SilentMoveKept
  <1>3. CASE a_job.audio = TRUE /\ JobGoes("picture") /\ pcm_start
    BY <1>1, <1>3, StartKept
  <1>4. CASE JobGoes("done") /\ UNCHANGED <<a_pcm, a_ring, a_dma, a_pad, a_ear>>
    <2>1. SilentMove(a_job.pc, "done")
      BY <1>1 DEF SilentMove
    <2> QED
      BY <1>4, <2>1, SilentMoveKept
  <1> QED
    BY <1>1, <1>2, <1>3, <1>4 DEF vplay_open

LEMMA PictureKept ==
    ASSUME PcmInv, vplay_picture
    PROVE  PcmInv'
  <1>1. a_job.pc = "picture" /\ JobAt("picture") /\ a_job.audio \in BOOLEAN /\ a_job.stop \in BOOLEAN
    BY PcmTypes DEF vplay_picture, JobAt, SoundJobs
  <1> DEFINE queues == a_job.audio /\ a_job.chunks < VideoFrames /\ a_job.chunks <= a_job.frame + k_ahead
  <1>2. CASE a_job.stop \/ a_job.frame = VideoFrames
    <2>1. JobGoes("drain") /\ a_pcm' = a_pcm /\ a_dma' = a_dma /\ a_ring' = a_ring /\ a_ear' = a_ear
      BY <1>2 DEF vplay_picture
    <2>2. SilentMove(a_job.pc, "drain")
      BY <1>1, <1>2 DEF SilentMove
    <2> QED
      BY <2>1, <2>2, SilentMoveKept
  <1>3. CASE ~(a_job.stop \/ a_job.frame = VideoFrames) /\ queues
    <2>1. queue_audio
      BY <1>3 DEF vplay_picture
    <2> QED
      BY <1>1, <1>3, <2>1, QueueAudioKept
  <1>4. CASE ~(a_job.stop \/ a_job.frame = VideoFrames) /\ ~queues
    <2>1. vplay_wait
      BY <1>4 DEF vplay_picture
    <2>2. CASE a_job.audio = FALSE
      <3>1. JobGoes("draw") /\ a_pcm' = a_pcm /\ a_dma' = a_dma /\ a_ring' = a_ring /\ a_ear' = a_ear
        BY <2>1, <2>2 DEF vplay_wait
      <3>2. SilentMove(a_job.pc, "draw")
        BY <1>1, <1>4, <2>2 DEF SilentMove
      <3> QED
        BY <3>1, <3>2, SilentMoveKept
    <2>3. CASE a_job.audio = TRUE
      <3>1. ~(a_job.chunks < VideoFrames /\ a_job.chunks <= a_job.frame + k_ahead)
        BY <1>4, <2>3
      <3> QED
        BY <1>1, <1>4, <2>1, <2>3, <3>1, WaitKept
    <2> QED
      BY <1>1, <2>2, <2>3
  <1> QED
    BY <1>2, <1>3, <1>4

LEMMA SilenceKept ==
    ASSUME PcmInv, vplay_silence
    PROVE  PcmInv'
  <1>1. a_job.pc = "silence"
    BY DEF vplay_silence, JobAt
  <1>2. PICK b \in Lapped(a_dma.late) : pcm_write(<< 0 >>, b, "drain")
    BY DEF vplay_silence
  <1> QED
    BY <1>1, <1>2, WriteKept

LEMMA NothingMoves ==
    ASSUME PcmInv, a_pcm' = a_pcm, a_ring' = a_ring, a_dma' = a_dma, a_job' = a_job, a_ear' = a_ear
    PROVE  PcmInv'
  BY DEF PcmInv

LEMMA PcmStep ==
    ASSUME PcmInv, [PcmNext]_pcmVars
    PROVE  PcmInv'
  <1>1. CASE DmaFinishesBuffer
    BY <1>1, EngineKept
  <1>2. CASE Take("play", TRUE) \/ Take("video", TRUE) \/ Take("video", FALSE)
    BY <1>2, TakeKept
  <1>3. CASE play
    BY <1>3, PlayKept
  <1>4. CASE queue
    <2>1. a_job.pc = "queue"
      BY <1>4 DEF queue, JobAt
    <2> QED
      BY <1>4, <2>1, SendsKept DEF queue
  <1>5. CASE resume
    BY <1>5, ResumeKept
  <1>6. CASE play_tail
    BY <1>6, TailKept
  <1>7. CASE Out
    BY <1>7, OutKept
  <1>8. CASE Done
    BY <1>8, DoneKept
  <1>9. CASE vplay_open
    BY <1>9, OpenKept
  <1>10. CASE vplay_picture
    BY <1>10, PictureKept
  <1>11. CASE queue_audio_write
    <2>1. a_job.pc = "sound"
      BY <1>11 DEF queue_audio_write, JobAt
    <2> QED
      BY <1>11, <2>1, SendsKept DEF queue_audio_write
  <1>12. CASE draw_frame
    BY <1>12, DrawKept
  <1>13. CASE vplay_drain
    BY <1>13, DrainKept
  <1>14. CASE vplay_silence
    BY <1>14, SilenceKept
  <1>15. CASE request_stop
    BY <1>15, StopKept
  <1>16. CASE set_pause
    BY <1>16, PauseKept
  <1>17. CASE shell_pcm_stop
    BY <1>17, ShellStopKept
  <1>18. CASE audio_tone \/ audio_service
    BY <1>18, NothingMoves DEF audio_tone, audio_service
  <1>19. CASE UNCHANGED pcmVars
    BY <1>19, NothingMoves DEF pcmVars
  <1> QED
    BY <1>1, <1>2, <1>3, <1>4, <1>5, <1>6, <1>7, <1>8, <1>9, <1>10, <1>11, <1>12, <1>13, <1>14, <1>15,
       <1>16, <1>17, <1>18, <1>19 DEF PcmNext

LEMMA PcmStarts ==
    ASSUME PcmInit
    PROVE  PcmInv
  <1> DEFINE ear == [last |-> 0, fresh |-> TRUE, end |-> -1, bad |-> FALSE, cut |-> FALSE, skipped |-> FALSE]
             p == [run |-> FALSE, last |-> PCM_BUFS - 1, queued |-> PCM_BUFS, fill |-> 0,
                   played |-> 0, under |-> FALSE, blind |-> FALSE]
             d == [eof |-> -1, late |-> 0]
  <1>1. a_pcm = p /\ a_dma = d /\ a_job = Quiet /\ a_ear = ear
    BY DEF PcmInit, Started
  <1>2. EarShape(ear) /\ ear.cut = FALSE /\ d \in Engines
    BY DEF EarShape, EarFields, Engines
  <1>3. RingTyped(p) /\ p.run = FALSE
    BY PcmNumbers DEF RingTyped, RingShape, RingFields
  <1> HIDE DEF ear, p, d
  <1>4. JobOK(Quiet, ear) /\ RunOK(p, Quiet, ear) /\ DoneOK(p, Quiet, ear)
    BY <1>3, QuietIs DEF JobOK, RunOK, DoneOK, PlayPcs, VideoPcs
  <1> QED
    BY <1>1, <1>2, <1>3, <1>4, QuietIs DEF PcmInv, PcmOK, Shapes, Clean

-----------------------------------------------------------------------------
(* What the invariant says of what is heard.                                *)

\* The loop is where the ring runs and nothing has gone wrong: the ear is at the place
\* the counters say.
LEMMA HeardSoFar ==
    ASSUME PcmInv, a_pcm.run, a_dma.late = 0, Undisturbed
    PROVE  \E base, m, z \in Nat :
             /\ HeardAt(a_ear, base, m, a_pcm.played * PCM_SAMPLES)
             /\ WrittenOK(a_job, a_ear, base, m, z) /\ PlayedOK(a_pcm, a_job, base, m)
  <1>1. Clean(a_pcm, a_ear)
    BY PcmTypes DEF Clean, Undisturbed, RingTyped
  <1>2. PICK base \in Nat, m \in Nat, z \in Nat :
          /\ Flow(a_pcm, a_dma, a_ring, a_ear, base, m, z)
          /\ WrittenOK(a_job, a_ear, base, m, z) /\ PlayedOK(a_pcm, a_job, base, m)
    BY <1>1, PcmTypes DEF StreamOK
  <1>3. a_pcm.queued \in Nat /\ a_pcm.played \in Nat
    BY PcmTypes DEF RingTyped
  <1>4. a_dma.late <= a_pcm.queued /\ a_pcm.played + a_dma.late = a_pcm.played
    BY <1>3
  <1> QED
    BY <1>2, <1>4 DEF Flow, EarOK

LEMMA HeardAsWrittenIs ==
    ASSUME PcmInv
    PROVE  HeardAsWritten
  <1>1. ASSUME a_pcm.run, a_dma.late = 0, ~a_ear.cut, ~a_pcm.under, ~a_pcm.blind PROVE ~a_ear.bad
    BY <1>1, HeardSoFar DEF Undisturbed, HeardAt
  <1>2. ASSUME JobAt("done"), ~a_job.stop, ~a_job.err, a_job.audio, Undisturbed, a_job.next > 1
        PROVE  a_ear.last = a_job.next - 1 /\ ~a_ear.bad
    <2>1. /\ a_job.stop = FALSE /\ a_job.err = FALSE /\ a_job.audio = TRUE
          /\ a_pcm.under = FALSE /\ a_pcm.blind = FALSE /\ a_ear.cut = FALSE
      BY <1>2, PcmTypes DEF Undisturbed, RingTyped, SoundJobs
    <2> QED
      BY <1>2, <2>1, PcmTypes DEF DoneOK, JobAt
  <1> QED
    BY <1>1, <1>2 DEF HeardAsWritten

\* What has been heard when that is between the sounds of two pictures.
LEMMA HeardBetween ==
    ASSUME NEW ear, NEW m \in Nat, NEW h \in Int, NEW lo \in Nat, NEW hi \in Nat, HeardAt(ear, 0, m, h),
           h >= Ring + lo, m >= lo
    PROVE  /\ ear.last >= lo
           /\ h < Ring + hi /\ lo < hi => ear.last < hi
  <1>1. ear.last = LastAt(0, m, h) /\ Ring \in Nat
    BY PcmNumbers DEF HeardAt
  <1> QED
    BY <1>1 DEF LastAt

LEMMA SyncHoldsIs ==
    ASSUME PcmInv
    PROVE  SyncHolds
  <1> SUFFICES ASSUME a_job.kind = "video", a_pcm.run, a_job.audio, Undisturbed, a_dma.late = 0
               PROVE  /\ JobAt("draw") => /\ a_ear.last >= a_of(a_job.frame)
                                          /\ a_ear.last < a_of(a_job.frame + 1)
                      /\ a_job.frame > 0 => a_ear.last >= a_of(a_job.frame - 1)
    BY DEF SyncHolds
  <1> DEFINE f == a_job.frame
             c == a_job.chunks
             h == a_pcm.played * PCM_SAMPLES
  <1>1. PICK base \in Nat, m \in Nat, z \in Nat :
          /\ HeardAt(a_ear, base, m, h)
          /\ WrittenOK(a_job, a_ear, base, m, z) /\ PlayedOK(a_pcm, a_job, base, m)
    BY HeardSoFar
  <1>2. base = 0 /\ a_of(c) - SPF <= m /\ f <= c /\ a_job.next = a_of(c) + 1
    <2>1. a_job.audio = TRUE
      BY PcmTypes DEF SoundJobs
    <2> QED
      BY <1>1, <2>1, PcmTypes DEF WrittenOK, JobOK
  <1>3. f \in Nat /\ c \in Nat /\ h \in Int /\ SPF \in Nat /\ SPF > 0
    <2>1. a_pcm.played \in Nat
      BY PcmTypes DEF RingTyped
    <2> QED
      BY <2>1, VideoIs, PcmNumbers
  <1>4. \A i, j \in Nat : i <= j => a_of(i) \in Nat /\ a_of(j) \in Nat /\ a_of(i) <= a_of(j)
    BY <1>3 DEF a_of
  <1>5. ASSUME JobAt("draw") PROVE a_ear.last >= a_of(f) /\ a_ear.last < a_of(f + 1)
    <2>1. f < c /\ m = a_job.next - 1
      <3>1. a_job.audio = TRUE
        BY PcmTypes DEF SoundJobs
      <3> QED
        BY <1>1, <1>2, <1>5, <3>1, PcmTypes DEF WrittenOK, JobOK, JobAt
    <2>2. h >= Ring + a_of(f) /\ h < Ring + a_of(f + 1)
      BY <1>1, <1>5 DEF PlayedOK, JobAt
    <2>3. m = a_of(c) /\ f <= c /\ f <= f + 1 /\ f + 1 \in Nat
      <3> DEFINE x == a_of(c)
      <3>1. x \in Nat
        BY <1>3, <1>4
      <3> HIDE DEF x
      <3>2. a_job.next = x + 1
        BY <1>2 DEF x
      <3>3. m = x
        BY <2>1, <3>1, <3>2
      <3> QED
        BY <1>2, <1>3, <3>3 DEF x
    <2>4. a_of(f) \in Nat /\ a_of(f + 1) \in Nat /\ a_of(f) <= m /\ a_of(f) < a_of(f + 1)
      <3>1. a_of(f + 1) = a_of(f) + SPF /\ a_of(f) \in Nat
        BY <1>3, VideoIs
      <3> HIDE DEF f, c
      <3>2. a_of(f) <= a_of(c) /\ a_of(f + 1) \in Nat
        BY <1>2, <1>3, <1>4, <2>3
      <3> QED
        BY <1>3, <2>3, <3>1, <3>2
    <2> HIDE DEF f, c, h
    <2> QED
      BY <1>1, <1>2, <1>3, <2>2, <2>4, HeardBetween
  <1>6. ASSUME f > 0 PROVE a_ear.last >= a_of(f - 1)
    <2>1. h >= Ring + a_of(f - 1)
      BY <1>1, <1>6 DEF PlayedOK
    <2> DEFINE g == f - 1
               e == c - 1
    <2>2. g \in Nat /\ e \in Nat /\ g <= e /\ c = e + 1
      BY <1>2, <1>3, <1>6
    <2>3. a_of(e + 1) = a_of(e) + SPF /\ a_of(e) \in Nat
      BY <2>2, VideoIs
    <2> HIDE DEF f, c, h, g, e
    <2>4. a_of(g) \in Nat /\ a_of(g) <= a_of(e)
      BY <1>4, <2>2
    <2>5. a_of(c) = a_of(e) + SPF
      BY <2>2, <2>3
    <2>6. a_of(g) <= m
      BY <1>2, <1>3, <2>3, <2>4, <2>5
    <2>7. h >= Ring + a_of(g)
      BY <2>1 DEF g
    <2>8. a_ear.last >= a_of(g)
      BY <1>1, <1>2, <1>3, <2>4, <2>6, <2>7, HeardBetween
    <2> QED
      BY <2>8 DEF g
  <1> QED
    BY <1>5, <1>6

\* What is heard is what was decoded, in order and once, unless an underrun or a blind gap
\* has been counted; and a picture is drawn during its own sound (pcm.c, mp3.c, vplay.c).
THEOREM SoundIsAsDecoded == PcmSpec => []SoundIsFaithful
  <1>1. PcmInit => PcmInv
    BY PcmStarts
  <1>2. PcmInv /\ [PcmNext]_pcmVars => PcmInv'
    BY PcmStep
  <1>3. PcmInv => SoundIsFaithful
    BY HeardAsWrittenIs, SyncHoldsIs DEF SoundIsFaithful
  <1> QED
    BY <1>1, <1>2, <1>3, PTL DEF PcmSpec

=============================================================================
