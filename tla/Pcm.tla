-------------------------------- MODULE Pcm --------------------------------
(***************************************************************************)
(* Sampled sound (pcm.c), the two loops that feed it (mp3.c's play() and   *)
(* vplay.c's vplay_run(), both on the media task) and the speaker pad it   *)
(* shares with the tone generator (audio.c).                               *)
(*                                                                         *)
(* The DMA engine walks a ring of PCM_BUFS buffers for ever.  It raises no *)
(* interrupt: the writer finds out how far it has got by reading the last  *)
(* finished descriptor, modulo the ring.  The ring is a function from      *)
(* sample positions to the number of the file's sample stored there, 0     *)
(* for silence.  The media task runs above every other task, so a call of  *)
(* pcm_write is one step; the DMA moves between any two steps.             *)
(***************************************************************************)
EXTENDS Integers, Sequences

CONSTANTS
    PCM_BUFS,        \* buffers in the ring
    PCM_SAMPLES,     \* samples in a buffer
    SongLength,      \* samples in the song
    Decoded,         \* samples the decoder returns at a time
    VideoFrames,     \* pictures in the video
    SPF,             \* samples of sound per picture
    MaxLate          \* bound: buffers the DMA may finish between two polls

ASSUME PcmAssumption ==
    /\ PCM_BUFS \in Nat \ {0} /\ PCM_SAMPLES \in Nat \ {0} /\ MaxLate \in Nat
    /\ SongLength \in Nat /\ Decoded \in Nat \ {0} /\ VideoFrames \in Nat /\ SPF \in Nat \ {0}

VARIABLES
    a_pcm,     \* g_running, g_last_eof, g_queued, g_fill, g_played, and whether
               \* g_underruns and g_blind have left 0
    a_ring,    \* g_ring
    a_dma,     \* the engine: the last descriptor finished (-1 before the first)
               \* and how many it has finished since the last poll
    a_pad,     \* who drives the pad, and what the tone generator is doing
    a_job,     \* the media task's loop
    a_ear      \* history: what has been heard

pcmVars == <<a_pcm, a_ring, a_dma, a_pad, a_job, a_ear>>

Ring == PCM_BUFS * PCM_SAMPLES

Least(x, y) == IF x < y THEN x ELSE y

\* The ring as pcm_start leaves it: all silence, all of it queued, and the DMA
\* about to play buffer 0.
Started(played0) ==
    [run |-> TRUE, last |-> PCM_BUFS - 1, queued |-> PCM_BUFS, fill |-> 0,
     played |-> played0, under |-> FALSE, blind |-> FALSE]

Quiet == [pc |-> "idle", kind |-> "play", stop |-> FALSE, pause |-> FALSE,
          audio |-> TRUE, next |-> 1, buf |-> <<>>, left |-> 0, frame |-> 0,
          chunks |-> 0, err |-> FALSE]

PcmInit ==
    /\ a_pcm = [Started(0) EXCEPT !.run = FALSE]
    /\ a_ring = [p \in 0 .. Ring - 1 |-> 0]
    /\ a_dma = [eof |-> -1, late |-> 0]
    /\ a_pad = [owner |-> "ledc", tone |-> "off"]
    /\ a_job = Quiet
    /\ a_ear = [last |-> 0, fresh |-> TRUE, end |-> -1, bad |-> FALSE,
                cut |-> FALSE, skipped |-> FALSE]

----------------------------------------------------------------------------
\* poll.  The time since the last poll is that of a_dma.late buffers, give or
\* take one, and a gap of PCM_BUFS - 1 of them or more is one the index
\* arithmetic cannot be trusted across.
Lapped_later(late) ==
    IF late = PCM_BUFS THEN {TRUE, FALSE} ELSE {late > PCM_BUFS}

Lapped(late) ==
    IF late = PCM_BUFS - 1 THEN {TRUE, FALSE} ELSE {late >= PCM_BUFS}

poll(blind) ==
    LET adv == (a_dma.eof + PCM_BUFS - a_pcm.last) % PCM_BUFS
        dry == adv >= a_pcm.queued
        p   == [a_pcm EXCEPT !.blind = @ \/ blind]
    IN  IF a_dma.eof = -1
        THEN p
        ELSE [p EXCEPT !.last = a_dma.eof, !.played = @ + adv,
                       !.under = @ \/ dry,
                       !.queued = IF dry THEN 1 ELSE @ - adv,
                       !.fill = IF dry THEN 0 ELSE @]

\* pcm_write: poll, then copy as much as there is room for, from the place
\* after the last full buffer onwards.
Room(p) == IF p.queued >= PCM_BUFS THEN 0 ELSE (PCM_BUFS - p.queued) * PCM_SAMPLES - p.fill

pcm_write(s, blind, pc) ==
    LET p    == poll(blind)
        took == IF a_pcm.run THEN Least(Len(s), Room(p)) ELSE 0
        from == (p.last + 1 + p.queued) * PCM_SAMPLES + p.fill
    IN  /\ a_pcm' = IF ~a_pcm.run THEN a_pcm
                    ELSE [p EXCEPT !.queued = @ + (p.fill + took) \div PCM_SAMPLES,
                                   !.fill = (@ + took) % PCM_SAMPLES]
        /\ a_ring' = [p2 \in 0 .. Ring - 1 |->
                        LET i == (p2 - from) % Ring
                        IN  IF i < took THEN s[i + 1] ELSE a_ring[p2]]
        /\ a_dma' = IF a_pcm.run THEN [a_dma EXCEPT !.late = 0] ELSE a_dma
        /\ a_job' = [a_job EXCEPT !.buf = SubSeq(s, took + 1, Len(s)), !.pc = pc]
        /\ UNCHANGED <<a_pad, a_ear>>

\* pcm_start: stops a running ring first, fills it with silence, takes the pad
\* from the tone generator (dac_pad_claim silences that first) and starts the
\* engine.  What is heard next is what the writer sends next.
pcm_start ==
    /\ a_pcm' = Started(0)
    /\ a_ring' = [p \in 0 .. Ring - 1 |-> 0]
    /\ a_dma' = [eof |-> -1, late |-> 0]
    /\ a_pad' = [owner |-> "dac", tone |-> "off"]
    /\ a_ear' = [a_ear EXCEPT !.fresh = TRUE, !.bad = FALSE, !.last = a_job.next - 1]

\* pcm_stop: a last poll, the engine off, and the pad back to the tone
\* generator, silent (dac_pad_release, audio_init).
pcm_stop(blind) ==
    /\ a_pcm' = IF a_pcm.run THEN [poll(blind) EXCEPT !.run = FALSE] ELSE a_pcm
    /\ a_dma' = [a_dma EXCEPT !.late = 0]
    /\ a_pad' = IF a_pcm.run THEN [owner |-> "ledc", tone |-> "off"] ELSE a_pad
    /\ UNCHANGED a_ring

----------------------------------------------------------------------------
\* The engine finishes a buffer, vs.  What it played is appended to what has been
\* heard: the next sample of the file, or silence before the first one and after
\* the last.
Sounded(vs, k) == {j \in 1 .. k : vs[j] # 0}

HeardUpTo(ear, vs, k) ==
    IF Sounded(vs, k) = {} THEN ear.last
    ELSE vs[CHOOSE j \in Sounded(vs, k) : \A i \in Sounded(vs, k) : i <= j]

OutOfOrder(ear, vs, k) ==
    LET before == HeardUpTo(ear, vs, k - 1)
    IN  IF vs[k] # 0 THEN vs[k] # before + 1
        ELSE ~(ear.fresh /\ Sounded(vs, k - 1) = {}) /\ before # ear.end

Hear(ear, vs) ==
    [ear EXCEPT !.last = HeardUpTo(ear, vs, PCM_SAMPLES),
                !.fresh = @ /\ Sounded(vs, PCM_SAMPLES) = {},
                !.bad = @ \/ \E k \in 1 .. PCM_SAMPLES : OutOfOrder(ear, vs, k)]

DmaFinishesBuffer ==
    /\ a_pcm.run
    /\ a_dma.late < MaxLate
    /\ LET b == (a_dma.eof + 1) % PCM_BUFS
       IN  /\ a_ear' = Hear(a_ear, [k \in 1 .. PCM_SAMPLES |-> a_ring[b * PCM_SAMPLES + k - 1]])
           /\ a_dma' = [eof |-> b, late |-> a_dma.late + 1]
    /\ UNCHANGED <<a_pcm, a_ring, a_pad, a_job>>

----------------------------------------------------------------------------
\* The media task.
JobAt(pc) == a_job.pc = pc
JobGoes(pc) == a_job' = [a_job EXCEPT !.pc = pc]

Take(kind, audible) ==
    /\ JobAt("idle")
    /\ a_job' = [Quiet EXCEPT !.kind = kind, !.pc = IF kind = "play" THEN "song" ELSE "open",
                              !.audio = audible]
    /\ a_ear' = [last |-> 0, fresh |-> TRUE, end |-> -1, bad |-> FALSE,
                 cut |-> FALSE, skipped |-> FALSE]
    /\ UNCHANGED <<a_pcm, a_ring, a_dma, a_pad>>

\* play, one turn of the loop: stop, pause, or the next frame of the song.  The
\* first one starts the ring; a song that cannot be read further, or is over,
\* goes to its tail.
Samples(a, n) == [i \in 1 .. n |-> a + i - 1]

Ending(err) ==
    /\ a_job' = [a_job EXCEPT !.pc = "tail", !.left = Ring, !.buf = <<>>, !.err = err]
    /\ a_ear' = [a_ear EXCEPT !.end = a_job.next - 1]

play ==
    /\ JobAt("song")
    /\ \/ /\ a_job.stop
          /\ JobGoes("out")
          /\ UNCHANGED <<a_pcm, a_ring, a_dma, a_pad, a_ear>>
       \/ /\ ~a_job.stop
          /\ a_job.pause /\ a_job.next > 1
          /\ \E b \in Lapped(a_dma.late) : pcm_stop(b)
          /\ JobGoes("paused")
          /\ a_ear' = [a_ear EXCEPT !.skipped = TRUE]
       \/ /\ ~a_job.stop
          /\ ~(a_job.pause /\ a_job.next > 1)
          /\ \/ /\ a_job.next <= SongLength
                /\ LET n == Least(Decoded, SongLength - a_job.next + 1)
                   IN  a_job' = [a_job EXCEPT !.pc = "queue", !.next = @ + n,
                                              !.buf = Samples(a_job.next, n)]
                /\ IF a_job.next = 1
                   THEN pcm_start
                   ELSE UNCHANGED <<a_pcm, a_ring, a_dma, a_pad, a_ear>>
             \/ /\ a_job.next > 1
                /\ \/ a_job.next > SongLength /\ Ending(FALSE)
                   \/ a_job.next <= SongLength /\ Ending(TRUE)
                /\ UNCHANGED <<a_pcm, a_ring, a_dma, a_pad>>

\* queue: writes until everything is taken, sleeping whenever nothing is; a stop
\* ends it.
queue ==
    /\ JobAt("queue")
    /\ IF a_job.stop \/ a_job.buf = <<>>
       THEN JobGoes("song") /\ UNCHANGED <<a_pcm, a_ring, a_dma, a_pad, a_ear>>
       ELSE \E b \in Lapped(a_dma.late) : pcm_write(a_job.buf, b, a_job.pc)

\* The pause loop of play, and the restart of the ring at its end.
resume ==
    /\ JobAt("paused")
    /\ \/ a_job.stop /\ JobGoes("out") /\ UNCHANGED <<a_pcm, a_ring, a_dma, a_pad, a_ear>>
       \/ ~a_job.stop /\ ~a_job.pause /\ JobGoes("song") /\ pcm_start

\* The end of play: a ring's worth of silence behind the last frame, so that the
\* engine plays the tail instead of going round again.
TailLength == Ring

play_tail ==
    /\ JobAt("tail")
    /\ IF a_job.stop \/ (a_job.left = Ring - TailLength /\ a_job.buf = <<>>)
       THEN JobGoes("out") /\ UNCHANGED <<a_pcm, a_ring, a_dma, a_pad, a_ear>>
       ELSE IF a_job.buf = <<>>
       THEN /\ a_job' = [a_job EXCEPT !.left = @ - 1, !.buf = <<0>>]
            /\ UNCHANGED <<a_pcm, a_ring, a_dma, a_pad, a_ear>>
       ELSE \E b \in Lapped(a_dma.late) : pcm_write(a_job.buf, b, a_job.pc)

\* The end of either loop: the ring is stopped and the job done.
Out ==
    /\ JobAt("out")
    /\ IF a_job.audio THEN \E b \in Lapped(a_dma.late) : pcm_stop(b)
                      ELSE UNCHANGED <<a_pcm, a_ring, a_dma, a_pad>>
    /\ JobGoes("done")
    /\ UNCHANGED a_ear

Done == JobAt("done") /\ a_job' = Quiet /\ UNCHANGED <<a_pcm, a_ring, a_dma, a_pad, a_ear>>

----------------------------------------------------------------------------
\* vplay_run.  Sound is queued k_ahead pictures ahead; each picture waits until
\* the sound of its first sample is due, and is dropped when the next one's
\* already is.  The clock is the number of samples played, less the ring of
\* silence the file's sound stands behind.
k_ahead == LET r == IF SPF < Ring THEN Ring \div SPF ELSE 1
           IN  IF r > 1 THEN r - 1 ELSE 1

a_of(i) == i * SPF

Offset0 == Ring

\* One reading of the clock: pcm_samples_played polls, and is 0 on a stopped ring.
SamplesPlayed(blind) == IF a_pcm.run THEN poll(blind).played * PCM_SAMPLES ELSE 0

ClockIsRead(blind) ==
    IF a_pcm.run
    THEN a_pcm' = poll(blind) /\ a_dma' = [a_dma EXCEPT !.late = 0]
    ELSE UNCHANGED <<a_pcm, a_dma>>

vplay_open ==
    /\ JobAt("open")
    /\ \/ ~a_job.audio /\ JobGoes("picture") /\ UNCHANGED <<a_pcm, a_ring, a_dma, a_pad, a_ear>>
       \/ a_job.audio /\ JobGoes("picture") /\ pcm_start
       \/ JobGoes("done") /\ UNCHANGED <<a_pcm, a_ring, a_dma, a_pad, a_ear>>

queue_audio ==
    /\ a_job.chunks < VideoFrames
    /\ a_job.chunks <= a_job.frame + k_ahead
    /\ \/ /\ a_job' = [a_job EXCEPT !.pc = "sound", !.chunks = @ + 1, !.next = @ + SPF,
                                    !.buf = Samples(a_of(a_job.chunks) + 1, SPF)]
          /\ a_ear' = [a_ear EXCEPT !.end = IF a_job.chunks + 1 = VideoFrames
                                            THEN a_of(VideoFrames) ELSE @]
       \/ /\ a_job' = [a_job EXCEPT !.pc = "out", !.err = TRUE]
          /\ UNCHANGED a_ear
    /\ UNCHANGED <<a_pcm, a_ring, a_dma, a_pad>>

queue_audio_write ==
    /\ JobAt("sound")
    /\ IF a_job.stop \/ a_job.buf = <<>>
       THEN JobGoes("picture") /\ UNCHANGED <<a_pcm, a_ring, a_dma, a_pad, a_ear>>
       ELSE \E b \in Lapped(a_dma.late) : pcm_write(a_job.buf, b, a_job.pc)

\* The wait for a picture's moment.  It is bounded: a stopped ring reads 0 for
\* ever, and ends the video.
InTime(played) == played >= Offset0 + a_of(a_job.frame)
TooLate(played) == played >= Offset0 + a_of(a_job.frame + 1)
Stalled == ~a_pcm.run

vplay_wait ==
    LET Go(played) ==
            a_job' = IF ~InTime(played)
                     THEN IF Stalled THEN [a_job EXCEPT !.pc = "out", !.err = TRUE] ELSE a_job
                     ELSE IF TooLate(played)
                          THEN [a_job EXCEPT !.frame = @ + 1, !.pc = "picture"]
                          ELSE [a_job EXCEPT !.pc = "draw"]
    IN  IF a_job.audio
        THEN \E b \in Lapped(a_dma.late) :
                /\ Go(SamplesPlayed(b)) /\ ClockIsRead(b)
                /\ UNCHANGED <<a_ring, a_pad, a_ear>>
        ELSE JobGoes("draw") /\ UNCHANGED <<a_pcm, a_ring, a_dma, a_pad, a_ear>>

vplay_picture ==
    /\ JobAt("picture")
    /\ IF a_job.stop \/ a_job.frame = VideoFrames
       THEN JobGoes("drain") /\ UNCHANGED <<a_pcm, a_ring, a_dma, a_pad, a_ear>>
       ELSE IF a_job.audio /\ a_job.chunks < VideoFrames /\ a_job.chunks <= a_job.frame + k_ahead
            THEN queue_audio
            ELSE vplay_wait

\* draw_frame: the picture is read and put on the panel, or cannot be read.
draw_frame ==
    /\ JobAt("draw")
    /\ \/ a_job' = [a_job EXCEPT !.frame = @ + 1, !.pc = "picture"]
       \/ a_job' = [a_job EXCEPT !.pc = "out", !.err = TRUE]
    /\ UNCHANGED <<a_pcm, a_ring, a_dma, a_pad, a_ear>>

\* The end of vplay_run: silence behind the last sound until it has been heard.
vplay_drain ==
    LET Go(played) ==
            a_job' = IF played >= Offset0 + a_of(VideoFrames)
                     THEN [a_job EXCEPT !.pc = "out"]
                     ELSE IF Stalled THEN [a_job EXCEPT !.pc = "out", !.err = TRUE]
                     ELSE [a_job EXCEPT !.pc = "silence"]
    IN  /\ JobAt("drain")
        /\ IF a_job.audio /\ ~a_job.stop
           THEN \E b \in Lapped(a_dma.late) :
                /\ Go(SamplesPlayed(b)) /\ ClockIsRead(b)
                /\ UNCHANGED <<a_ring, a_pad, a_ear>>
           ELSE JobGoes("out") /\ UNCHANGED <<a_pcm, a_ring, a_dma, a_pad, a_ear>>

vplay_silence ==
    /\ JobAt("silence")
    /\ \E b \in Lapped(a_dma.late) : pcm_write(<<0>>, b, "drain")

----------------------------------------------------------------------------
\* What other tasks do to a running job.
request_stop ==
    /\ ~JobAt("idle") /\ ~a_job.stop
    /\ a_job' = [a_job EXCEPT !.stop = TRUE]
    /\ UNCHANGED <<a_pcm, a_ring, a_dma, a_pad, a_ear>>

set_pause ==
    /\ ~JobAt("idle") /\ a_job.kind = "play"
    /\ a_job' = [a_job EXCEPT !.pause = ~@]
    /\ UNCHANGED <<a_pcm, a_ring, a_dma, a_pad, a_ear>>

\* `pcm stop` takes the ring from under the job.
shell_pcm_stop ==
    /\ a_pcm.run
    /\ \E b \in Lapped(a_dma.late) : pcm_stop(b)
    /\ a_ear' = [a_ear EXCEPT !.cut = TRUE]
    /\ UNCHANGED a_job

\* Tones: audio_tone and audio_beep turn the generator on, whoever owns the
\* pad; a beep's deadline (audio_service) or `tone 0` turns it off.
audio_tone == /\ a_pad.tone = "off"
              /\ a_pad' = [a_pad EXCEPT !.tone = "on"]
              /\ UNCHANGED <<a_pcm, a_ring, a_dma, a_job, a_ear>>

audio_service == /\ a_pad.tone = "on"
                 /\ a_pad' = [a_pad EXCEPT !.tone = "off"]
                 /\ UNCHANGED <<a_pcm, a_ring, a_dma, a_job, a_ear>>

PcmNext ==
    \/ DmaFinishesBuffer
    \/ Take("play", TRUE) \/ Take("video", TRUE) \/ Take("video", FALSE)
    \/ play \/ queue \/ resume \/ play_tail \/ Out \/ Done
    \/ vplay_open \/ vplay_picture \/ queue_audio_write \/ draw_frame
    \/ vplay_drain \/ vplay_silence
    \/ request_stop \/ set_pause \/ shell_pcm_stop
    \/ audio_tone \/ audio_service

PcmSpec == PcmInit /\ [][PcmNext]_pcmVars

----------------------------------------------------------------------------
Undisturbed == ~a_pcm.under /\ ~a_pcm.blind /\ ~a_ear.cut

(***************************************************************************)
(* The ring keeps its promise, or says that it did not.  Once the writer   *)
(* has looked at the engine, everything heard since the ring was started   *)
(* is the file's samples in order with nothing missing, repeated or        *)
(* overwritten while it played, unless an underrun or a blind gap has been *)
(* counted; and a song that ended by itself, or a video that drained, was  *)
(* heard to its last sample.  (pcm.c poll, pcm_write and pcm_start.)       *)
(***************************************************************************)
HeardAsWritten ==
    /\ a_pcm.run /\ a_dma.late = 0 /\ ~a_ear.cut /\ a_ear.bad => a_pcm.under \/ a_pcm.blind
    /\ JobAt("done") /\ ~a_job.stop /\ ~a_job.err /\ a_job.audio /\ Undisturbed /\ a_job.next > 1
           => a_ear.last = a_job.next - 1 /\ ~a_ear.bad

(***************************************************************************)
(* Sound and picture agree.  When the video task has decided to draw       *)
(* picture i, every sample before the picture's own has been heard and     *)
(* none of the next picture's has, so it is drawn during its sound; and no *)
(* picture is left behind, drawn or dropped, before its sound has begun.   *)
(***************************************************************************)
SyncHolds ==
    a_job.kind = "video" /\ a_pcm.run /\ a_job.audio /\ Undisturbed /\ a_dma.late = 0 =>
        /\ JobAt("draw") => /\ a_ear.last >= a_of(a_job.frame)
                           /\ a_ear.last < a_of(a_job.frame + 1)
        /\ a_job.frame > 0 => a_ear.last >= a_of(a_job.frame - 1)

\* What is heard is what was decoded, in order and once, and the picture keeps to
\* its time (pcm.c, vplay.c).
SoundIsFaithful == HeardAsWritten /\ SyncHolds
=============================================================================
