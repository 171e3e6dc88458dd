------------------------------- MODULE Media -------------------------------
(***************************************************************************)
(* Who plays what: the one job of the media task (mp3.c), the music view   *)
(* (player.c), the video view (vidlist.c) and the shell's `mp3`, `music`   *)
(* and `video` commands.                                                   *)
(*                                                                         *)
(* Four tasks write the same record and the same flags with no lock.  The  *)
(* media task runs the job; the display task carries out requests left in  *)
(* g_want (player_service on every turn, vidlist_frame while the video     *)
(* view is up); the touch task and the shell leave requests, stop jobs and *)
(* change the view.  Handing a job over (submit) checks that the task is   *)
(* free and only then clears and fills the record, so it is two steps.     *)
(* Songs and videos are not told apart, only wanted and not wanted.        *)
(***************************************************************************)

VARIABLES
    m_job,      \* g_job: state, kind, stop, pause, err; who asked for it; and
                \* whether the player has already moved on from it (g_auto_seq)
    m_want,     \* player.c g_want >= 0
    m_cur,      \* player.c g_cur >= 0
    m_vid,      \* vidlist.c g_want, g_playing, g_detail (>= 0), and g_req_n
    m_mode,     \* the view (desktop.c g_mode)
    m_disp,     \* where the display task is
    m_touch,    \* where the touch task is: "idle", or waiting in vidlist_close
    m_shell,    \* where the shell is
    m_silent,   \* history: stop was pressed on a playing song, nothing asked since
    m_odd       \* history: one of the events the code does not guard against

mediaVars == <<m_job, m_want, m_cur, m_vid, m_mode, m_disp, m_touch, m_shell, m_silent, m_odd>>

busy == m_job.state \in {"PENDING", "RUNNING"}

NoJob == [state |-> "IDLE", kind |-> "BENCH", stop |-> FALSE, pause |-> FALSE,
          err |-> FALSE, by |-> "view", advanced |-> TRUE]

MediaInit ==
    /\ m_job = NoJob
    /\ m_want = FALSE /\ m_cur = FALSE
    /\ m_vid = [want |-> FALSE, playing |-> FALSE, detail |-> FALSE, req |-> FALSE]
    /\ m_mode = "launcher"
    /\ m_disp = "service" /\ m_touch = "idle" /\ m_shell = "idle"
    /\ m_silent = FALSE /\ m_odd = FALSE

----------------------------------------------------------------------------
\* submit, second half: the record is cleared and filled, PENDING last.  If the
\* task has been given another job since the check, that job is overwritten.
Fill(kind, by) ==
    /\ m_job' = [NoJob EXCEPT !.state = "PENDING", !.kind = kind, !.by = by,
                              !.advanced = FALSE]
    /\ m_odd' = (m_odd \/ busy)

\* mp3_request_stop and mp3_set_pause.
Stopped(job) ==
    IF job.state \in {"PENDING", "RUNNING"} THEN [job EXCEPT !.stop = TRUE] ELSE job

\* mp3_status: a song that ended by itself.
Finished(job) ==
    /\ job.kind = "PLAY"
    /\ job.state \in {"DONE", "IDLE"}
    /\ ~job.err
    /\ ~job.stop

\* start (player.c): a request, carried out by player_service; what is playing
\* is unpaused and told to stop.
start ==
    /\ m_want' = TRUE
    /\ m_job' = Stopped([m_job EXCEPT !.pause = FALSE])

----------------------------------------------------------------------------
\* The media task (mp3_task).  A job ends because it is over, because of an
\* error or because it was stopped; a paused one only when stopped or resumed.
mp3_task_takes ==
    /\ m_job.state = "PENDING"
    /\ m_job' = [m_job EXCEPT !.state = "RUNNING"]
    /\ UNCHANGED <<m_want, m_cur, m_vid, m_mode, m_disp, m_touch, m_shell, m_silent, m_odd>>

mp3_task_ends ==
    /\ m_job.state = "RUNNING"
    /\ m_job.pause /\ m_job.kind = "PLAY" => m_job.stop
    /\ \E e \in BOOLEAN : m_job' = [m_job EXCEPT !.state = "DONE", !.err = e]
    /\ UNCHANGED <<m_want, m_cur, m_vid, m_mode, m_disp, m_touch, m_shell, m_silent, m_odd>>

----------------------------------------------------------------------------
\* The display task's turn: player_service, then the view's frame.
player_service ==
    /\ m_disp = "service"
    /\ IF m_want /\ ~busy
       THEN m_disp' = "submit song" /\ m_want' = FALSE
       ELSE m_disp' = "advance" /\ UNCHANGED m_want
    /\ UNCHANGED <<m_job, m_cur, m_vid, m_mode, m_touch, m_shell, m_silent, m_odd>>

\* mp3_play: refused when something else was submitted meanwhile.
service_submits ==
    /\ m_disp = "submit song"
    /\ IF busy THEN m_disp' = "advance" /\ m_cur' = TRUE ELSE m_disp' = "fill song" /\ UNCHANGED m_cur
    /\ UNCHANGED <<m_job, m_want, m_vid, m_mode, m_touch, m_shell, m_silent, m_odd>>

service_fills ==
    /\ m_disp = "fill song"
    /\ Fill("PLAY", "view")
    /\ m_disp' = "advance" /\ m_cur' = TRUE
    /\ UNCHANGED <<m_want, m_vid, m_mode, m_touch, m_shell, m_silent>>

\* A song that reached its end moves on to the next, once.
service_advances ==
    /\ m_disp = "advance"
    /\ IF Finished(m_job) /\ ~m_job.advanced /\ m_cur /\ ~m_want
       THEN m_want' = TRUE /\ m_job' = [m_job EXCEPT !.advanced = TRUE, !.pause = FALSE]
       ELSE UNCHANGED <<m_want, m_job>>
    /\ m_disp' = IF m_mode = "video" THEN "frame" ELSE "service"
    /\ UNCHANGED <<m_cur, m_vid, m_mode, m_touch, m_shell, m_silent, m_odd>>

\* vidlist_frame: `video <n>` first, then a start once the task is free, or the
\* end of the video on screen.
vidlist_frame ==
    /\ m_disp = "frame"
    /\ LET asked == m_vid.req
           v     == IF asked THEN [m_vid EXCEPT !.req = FALSE, !.want = TRUE, !.detail = TRUE]
                    ELSE m_vid
           job   == IF asked THEN Stopped(m_job) ELSE m_job
       IN  /\ m_job' = job
           /\ IF v.want /\ ~busy
              THEN m_disp' = "submit video" /\ m_vid' = v
              ELSE /\ m_disp' = "service"
                   /\ m_vid' = [v EXCEPT !.playing = @ /\ (v.want \/ busy)]
    /\ UNCHANGED <<m_want, m_cur, m_mode, m_touch, m_shell, m_silent, m_odd>>

\* mp3_play_video.  The touch task may have cleared g_want, or left the view,
\* since it was tested; the frame starts what it then finds all the same.
vidlist_submits ==
    /\ m_disp = "submit video"
    /\ IF busy
       THEN m_disp' = "service" /\ m_vid' = [m_vid EXCEPT !.want = FALSE, !.playing = FALSE]
       ELSE m_disp' = "fill video" /\ UNCHANGED m_vid
    /\ UNCHANGED <<m_job, m_want, m_cur, m_mode, m_touch, m_shell, m_silent, m_odd>>

vidlist_fills ==
    /\ m_disp = "fill video"
    /\ m_job' = [NoJob EXCEPT !.state = "PENDING", !.kind = "VIDEO", !.advanced = FALSE]
    /\ m_odd' = (m_odd \/ busy \/ ~m_vid.want \/ m_mode # "video")
    /\ m_vid' = [m_vid EXCEPT !.playing = m_vid.want, !.want = FALSE]
    /\ m_disp' = "service"
    /\ UNCHANGED <<m_want, m_cur, m_mode, m_touch, m_shell, m_silent>>

----------------------------------------------------------------------------
\* The touch task.
TouchIdle == m_touch = "idle"

\* player_touch: a song, previous, next, or play when nothing is playing.
player_touch_start ==
    /\ TouchIdle /\ m_mode = "music"
    /\ start
    /\ m_silent' = FALSE
    /\ UNCHANGED <<m_cur, m_vid, m_mode, m_disp, m_touch, m_shell, m_odd>>

\* player_touch: pause and resume.
player_touch_pause ==
    /\ TouchIdle /\ m_mode = "music"
    /\ m_job.kind = "PLAY" /\ m_job.state = "RUNNING"
    /\ m_job' = [m_job EXCEPT !.pause = ~@]
    /\ UNCHANGED <<m_want, m_cur, m_vid, m_mode, m_disp, m_touch, m_shell, m_silent, m_odd>>

\* player_touch: the stop button.
HandingOver == \/ m_disp \in {"submit song", "fill song", "submit video", "fill video"}
               \/ m_shell # "idle" \/ m_vid.req \/ m_vid.want

StopPressed_keeps_want == UNCHANGED m_want /\ m_job' = Stopped(m_job)
StopPressed == m_want' = FALSE /\ m_job' = Stopped(m_job)

player_touch_stop ==
    /\ TouchIdle /\ m_mode = "music"
    /\ StopPressed
    /\ m_silent' = (busy /\ ~HandingOver)
    /\ UNCHANGED <<m_cur, m_vid, m_mode, m_disp, m_touch, m_shell, m_odd>>

\* vidlist_touch: any tap stops a video; on the detail screen the button asks
\* for one, stopping a song first; elsewhere the detail screen comes and goes.
vidlist_touch ==
    /\ TouchIdle /\ m_mode = "video"
    /\ \/ /\ m_vid.playing \/ m_vid.want
          /\ m_vid' = [m_vid EXCEPT !.want = FALSE]
          /\ m_job' = Stopped(m_job)
          /\ UNCHANGED m_silent
       \/ /\ ~m_vid.playing /\ ~m_vid.want /\ m_vid.detail
          /\ m_vid' = [m_vid EXCEPT !.want = TRUE]
          /\ m_job' = Stopped(m_job)
          /\ m_silent' = FALSE
       \/ /\ ~m_vid.playing /\ ~m_vid.want
          /\ m_vid' = [m_vid EXCEPT !.detail = ~@]
          /\ UNCHANGED <<m_job, m_silent>>
    /\ UNCHANGED <<m_want, m_cur, m_mode, m_disp, m_touch, m_shell, m_odd>>

\* desktop_chrome_touch: the button that leaves the view.  The video view is
\* closed first: its video is told to stop, and waited for.
Closing == m_touch' = "closing" /\ UNCHANGED m_mode

desktop_chrome_touch ==
    /\ TouchIdle /\ m_mode # "launcher"
    /\ IF m_mode = "video" /\ m_vid.playing /\ busy
       THEN /\ Closing
            /\ m_job' = Stopped(m_job)
            /\ m_vid' = [m_vid EXCEPT !.want = FALSE]
       ELSE /\ m_mode' = "launcher"
            /\ m_vid' = IF m_mode = "video"
                        THEN [m_vid EXCEPT !.want = FALSE, !.playing = FALSE] ELSE m_vid
            /\ UNCHANGED <<m_job, m_touch>>
    /\ UNCHANGED <<m_want, m_cur, m_disp, m_shell, m_silent, m_odd>>

\* vidlist_close: the wait ends with the job, or after 50 ticks.
vidlist_close ==
    /\ m_touch = "closing"
    /\ m_touch' = "idle"
    /\ m_mode' = "launcher"
    /\ m_vid' = [m_vid EXCEPT !.playing = FALSE]
    /\ m_odd' = (m_odd \/ busy)
    /\ UNCHANGED <<m_job, m_want, m_cur, m_disp, m_shell, m_silent>>

\* open_selected: an icon of the launcher.
open_selected ==
    /\ TouchIdle /\ m_mode = "launcher"
    /\ \E m \in {"music", "video"} :
          /\ m_mode' = m
          /\ m_vid' = IF m = "video" THEN [m_vid EXCEPT !.detail = FALSE] ELSE m_vid
    /\ UNCHANGED <<m_job, m_want, m_cur, m_disp, m_touch, m_shell, m_silent, m_odd>>

----------------------------------------------------------------------------
\* The shell.
ShellIdle == m_shell = "idle"

\* `mp3 play`, `mp3 video`, `mp3 bench`: submit, from the shell's task.
mp3_shell_submits ==
    /\ ShellIdle /\ ~busy
    /\ m_shell' \in {"PLAY", "VIDEO", "BENCH"}
    /\ m_silent' = FALSE
    /\ UNCHANGED <<m_job, m_want, m_cur, m_vid, m_mode, m_disp, m_touch, m_odd>>

mp3_shell_fills ==
    /\ m_shell \in {"PLAY", "VIDEO", "BENCH"}
    /\ Fill(m_shell, "shell")
    /\ m_shell' = IF m_shell = "BENCH" THEN "wait bench" ELSE "idle"
    /\ UNCHANGED <<m_want, m_cur, m_vid, m_mode, m_disp, m_touch, m_silent>>

\* wait_done, then the job is declared idle, finished or not.
mp3_shell_bench_ends ==
    /\ m_shell = "wait bench"
    /\ m_shell' = "idle"
    /\ m_job' = [m_job EXCEPT !.state = "IDLE"]
    /\ m_odd' = (m_odd \/ busy)
    /\ UNCHANGED <<m_want, m_cur, m_vid, m_mode, m_disp, m_touch, m_silent>>

\* `mp3 stop`, `mp3 pause` and `mp3 resume`.
mp3_shell_controls ==
    /\ ShellIdle
    /\ m_job' \in {Stopped(m_job), [m_job EXCEPT !.pause = TRUE], [m_job EXCEPT !.pause = FALSE]}
    /\ UNCHANGED <<m_want, m_cur, m_vid, m_mode, m_disp, m_touch, m_shell, m_silent, m_odd>>

\* `music <n>` and `video <n>`.
player_play_number ==
    /\ ShellIdle
    /\ start
    /\ m_silent' = FALSE
    /\ UNCHANGED <<m_cur, m_vid, m_mode, m_disp, m_touch, m_shell, m_odd>>

vidlist_play_number ==
    /\ ShellIdle
    /\ m_vid' = [m_vid EXCEPT !.req = TRUE]
    /\ m_silent' = FALSE
    /\ UNCHANGED <<m_job, m_want, m_cur, m_mode, m_disp, m_touch, m_shell, m_odd>>

\* `musicopen`, `videoopen` and `desk`: the view changes under whatever is up,
\* and the video view is not closed.
desktop_open ==
    /\ ShellIdle
    /\ \E m \in {"launcher", "music", "video"} :
          /\ m_mode' = m
          /\ m_vid' = IF m = "video" THEN [m_vid EXCEPT !.detail = FALSE] ELSE m_vid
          /\ m_odd' = (m_odd \/ m_mode = "video" \/ m_touch = "closing")
    /\ m_silent' = FALSE
    /\ UNCHANGED <<m_job, m_want, m_cur, m_disp, m_touch, m_shell>>

MediaNext ==
    \/ mp3_task_takes \/ mp3_task_ends
    \/ player_service \/ service_submits \/ service_fills \/ service_advances
    \/ vidlist_frame \/ vidlist_submits \/ vidlist_fills
    \/ player_touch_start \/ player_touch_pause \/ player_touch_stop
    \/ vidlist_touch \/ desktop_chrome_touch \/ vidlist_close \/ open_selected
    \/ mp3_shell_submits \/ mp3_shell_fills \/ mp3_shell_bench_ends \/ mp3_shell_controls
    \/ player_play_number \/ vidlist_play_number \/ desktop_open

MediaSpec == MediaInit /\ [][MediaNext]_mediaVars

----------------------------------------------------------------------------
(***************************************************************************)
(* Stop means silence.  After the music view's stop button has been        *)
(* pressed on something playing, and until somebody asks for something     *)
(* else, nothing starts by itself: whatever the media task still has is    *)
(* the stopped job (player.c player_touch, player_service and start).      *)
(***************************************************************************)
StopMeansSilence == m_silent /\ ~m_odd => (busy => m_job.stop)

(***************************************************************************)
(* A video is off the panel before the launcher repaints: the launcher is  *)
(* never up while a video the view started is being drawn                  *)
(* (vidlist.c vidlist_close, desktop.c desktop_chrome_touch).              *)
(***************************************************************************)
OffThePanel ==
    m_mode = "launcher" /\ ~m_odd =>
        ~(busy /\ m_job.kind = "VIDEO" /\ m_job.by = "view")

\* A stop ends the song, and a view that was left draws no more (mp3.c, player.c,
\* vidlist.c).
PlayerObeys == StopMeansSilence /\ OffThePanel
=============================================================================
