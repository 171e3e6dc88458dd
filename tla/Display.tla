------------------------------- MODULE Display ------------------------------
(* The panel driver (display.c): every primitive takes the draw lock, sets the  *)
(* controller's window with three commands, streams its pixels through the SPI  *)
(* FIFO or by DMA, raises chip select and lets the lock go. Pixels carry the    *)
(* task that sent them and the place they were meant for. A panic may take the  *)
(* panel over at any point.                                                     *)
EXTENDS Integers, Sequences, FiniteSetsExt

CONSTANTS
    Drawers,            \* the tasks that draw
    Player,             \* the one that uses the split blit (vplay.c)
    LINE_MAX,           \* pixels of g_line and g_txbuf
    BE_CHUNK,           \* BLIT_BE_CHUNK, in pixels
    FIFO_MAX            \* 64 bytes, in pixels

DISP_W == 2
DISP_H == 2
PANIC == "panic"        \* the context panic_screen runs in
Artists == Drawers \cup {PANIC}

ASSUME DisplayAssumption ==
    /\ Player \in Drawers /\ {PANIC, "nobody"} \cap Drawers = {}
    /\ {LINE_MAX, BE_CHUNK, FIFO_MAX} \subseteq Nat \ {0}
    /\ LINE_MAX >= DISP_W

VARIABLES
    s_job,              \* per context: its primitive and how far it is
    s_batch,            \* the tasks holding the lock across primitives
    s_owner, s_depth,   \* g_lock
    s_line,             \* g_line: whose colours it holds
    s_dma,              \* g_dma_ok
    s_panic,            \* g_panic_mode
    s_mode,             \* SPI2_USER and SPI2_CLOCK: "write" or "read"
    s_flight,           \* the pixels the DMA engine has yet to shift out
    l_col, l_row,       \* the controller: column and page range
    l_at,               \* the controller: pixels written since RAMWR, or -1
    l_by,               \* history: who opened this stream
    l_seen              \* the pixels the last transfer wrote: [by, place, win, at]

lockVs  == <<s_batch, s_owner, s_depth>>
panelVs == <<l_col, l_row, l_at, l_by, l_seen>>
displayVars == <<s_job, lockVs, s_line, s_dma, s_panic, s_mode, s_flight, panelVs>>

Places == (0 .. DISP_W - 1) \X (0 .. DISP_H - 1)
Resting == [pc |-> "rest", kind |-> "none", x |-> 0, y |-> 0, w |-> 0, h |-> 0, at |-> 0, more |-> 0]

DisplayInit ==
    /\ s_job = [t \in Artists |-> Resting] /\ s_batch = {}
    /\ s_owner = "nobody" /\ s_depth = 0 /\ s_line = "nobody"
    /\ s_dma = TRUE /\ s_panic = FALSE /\ s_mode = "write" /\ s_flight = <<>>
    /\ l_col = <<0, DISP_W - 1>> /\ l_row = <<0, DISP_H - 1>> /\ l_at = -1 /\ l_by = "nobody"
    /\ l_seen = {}

Moves(t, pc) == s_job' = [s_job EXCEPT ![t].pc = pc]

\* The scheduler is stopped once a panic has begun.
Live(t) == (t = PANIC) = s_panic

(* --------------------------------- The lock -------------------------------- *)
draw_lock(t) ==
    \/ s_panic /\ UNCHANGED lockVs
    \/ /\ ~s_panic /\ s_owner \in {"nobody", t}
       /\ s_owner' = t /\ s_depth' = s_depth + 1 /\ UNCHANGED s_batch

draw_unlock(t) ==
    IF s_panic THEN UNCHANGED lockVs
    ELSE /\ s_depth' = s_depth - 1 /\ s_owner' = (IF s_depth = 1 THEN "nobody" ELSE s_owner)
         /\ UNCHANGED s_batch

\* display_lock or display_try_lock, around several primitives.
display_lock(t) ==
    /\ ~s_panic /\ t # PANIC /\ s_job[t].pc = "rest" /\ t \notin s_batch
    /\ s_owner \in {"nobody", t}
    /\ s_owner' = t /\ s_depth' = s_depth + 1 /\ s_batch' = s_batch \cup {t}
    /\ UNCHANGED <<s_job, s_line, s_dma, s_panic, s_mode, s_flight, panelVs>>

display_unlock(t) ==
    /\ ~s_panic /\ s_job[t].pc = "rest" /\ t \in s_batch
    /\ s_depth' = s_depth - 1 /\ s_owner' = (IF s_depth = 1 THEN "nobody" ELSE s_owner)
    /\ s_batch' = s_batch \ {t}
    /\ UNCHANGED <<s_job, s_line, s_dma, s_panic, s_mode, s_flight, panelVs>>

(* ------------------------------- The primitives ---------------------------- *)
Clip(from, len, limit) == Min({len, limit - from})

Fits(r) == r.x < DISP_W /\ r.y < DISP_H /\ r.x + r.w <= DISP_W /\ r.y + r.h <= DISP_H

Starts(t, kind, x, y, w, h, more) ==
    s_job' = [s_job EXCEPT ![t] = [pc |-> "lock", kind |-> kind, x |-> x, y |-> y,
                                   w |-> w, h |-> h, at |-> 0, more |-> more]]

\* Off the panel or empty is refused, what hangs over the edge is cut.
display_fill_rect(t, r) ==
    /\ r.x < DISP_W /\ r.y < DISP_H
    /\ Starts(t, "fill", r.x, r.y, Clip(r.x, r.w, DISP_W), Clip(r.y, r.h, DISP_H), 0)

display_blit(t, r, kind) ==
    /\ kind \in {"rows", "solid"}           \* whether src_stride is w
    /\ r.x < DISP_W /\ r.y < DISP_H /\ r.w <= LINE_MAX
    /\ Starts(t, kind, r.x, r.y, Clip(r.x, r.w, DISP_W), Clip(r.y, r.h, DISP_H), 0)

display_blit_be(t, r) == Fits(r) /\ Starts(t, "be", r.x, r.y, r.w, r.h, 0)

display_blit_be_start(t, r) ==
    /\ t = Player /\ Fits(r)
    /\ Starts(t, IF r.w * r.h > BE_CHUNK \/ ~s_dma \/ s_panic \/ r.w * r.h <= FIFO_MAX
                 THEN "be" ELSE "split", r.x, r.y, r.w, r.h, 0)

\* A glyph is one pixel wide and two high; the window is not cut at the edges.
display_text(t, r) == r.x < DISP_W /\ Starts(t, "text", r.x, r.y, 1, 2, 1)

\* display_panel_read_pull and display_resync take the lock and send no pixel.
display_panel_read(t) == t # PANIC /\ Starts(t, "read", 0, 0, 0, 0, 0)
display_resync(t) == t # PANIC /\ Starts(t, "sync", 0, 0, DISP_W, DISP_H, 0)

Requests == {[x |-> 0, y |-> 0, w |-> 2, h |-> 2], [x |-> 1, y |-> 1, w |-> 2, h |-> 2],
             [x |-> 0, y |-> 1, w |-> 2, h |-> 1]}

Draws(t) ==
    /\ Live(t) /\ s_job[t].pc = "rest"
    /\ \/ \E r \in Requests :
              \/ display_fill_rect(t, r) \/ display_text(t, r)
              \/ t # PANIC /\ (\E kind \in {"rows", "solid"} : display_blit(t, r, kind))
              \/ t # PANIC /\ display_blit_be(t, r)
              \/ t # PANIC /\ display_blit_be_start(t, r)
       \/ display_panel_read(t) \/ display_resync(t)
    /\ UNCHANGED <<lockVs, s_line, s_dma, s_panic, s_mode, s_flight, panelVs>>

Locks(t) ==
    /\ Live(t) /\ s_job[t].pc = "lock" /\ draw_lock(t)
    /\ Moves(t, IF s_job[t].kind = "read" THEN "read" ELSE "column")
    /\ s_line' = (IF s_job[t].kind = "fill" THEN t ELSE s_line)
    /\ UNCHANGED <<s_dma, s_panic, s_mode, s_flight, panelVs>>

(* -------------------------------- The window ------------------------------- *)
\* Commands reach the controller only while the SPI unit transmits.
Sends == s_mode = "write"
write_cmd_data(sent, kept) == IF Sends THEN sent ELSE kept

set_window(t) ==
    LET j == s_job[t] IN
    /\ Live(t) /\ j.pc \in {"column", "page", "ramwr"}
    /\ \/ /\ j.pc = "column" /\ Moves(t, "page")
          /\ l_col' = write_cmd_data(<<j.x, j.x + j.w - 1>>, l_col)
          /\ l_at' = write_cmd_data(-1, l_at) /\ UNCHANGED <<l_row, l_by>>
       \/ /\ j.pc = "page" /\ Moves(t, "ramwr")
          /\ l_row' = write_cmd_data(<<j.y, j.y + j.h - 1>>, l_row) /\ UNCHANGED <<l_col, l_at, l_by>>
       \/ /\ j.pc = "ramwr" /\ Moves(t, IF j.kind = "sync" THEN "end" ELSE "push")
          /\ l_at' = write_cmd_data(0, l_at) /\ l_by' = write_cmd_data(t, l_by)
          /\ UNCHANGED <<l_col, l_row>>
    /\ UNCHANGED <<lockVs, s_line, s_dma, s_panic, s_mode, s_flight, l_seen>>

\* The place the n-th pixel of a stream lands at; the controller wraps.
Place(col, row, n) ==
    LET w == col[2] - col[1] + 1
        h == row[2] - row[1] + 1
    IN <<col[1] + (n % w), row[1] + ((n \div w) % h)>>

RECT(j) == <<<<j.x, j.x + j.w - 1>>, <<j.y, j.y + j.h - 1>>>>

\* What a run of pixels writes into the controller's memory.
Landed(px) ==
    {w \in {[by |-> px[i].by, place |-> px[i].place, win |-> l_by,
             at |-> Place(l_col, l_row, l_at + i - 1)] : i \in 1 .. Len(px)} : w.at \in Places}

Lands(px) ==
    /\ l_seen' = (IF Sends /\ l_at >= 0 THEN Landed(px) ELSE {})
    /\ l_at' = (IF Sends /\ l_at >= 0 THEN l_at + Len(px) ELSE l_at)
    /\ UNCHANGED <<l_col, l_row, l_by>>

(* -------------------------------- The pixels ------------------------------- *)
\* How many pixels the next spi_tx carries: a row, a line buffer or a chunk.
SpanOf(j) ==
    Min({j.w * j.h - j.at, CASE j.kind = "solid" -> LINE_MAX [] j.kind \in {"be", "split"} -> BE_CHUNK
                             [] OTHER -> j.w})

\* A fill sends what g_line holds; the others their own pixels for each place.
Pixels(t) ==
    LET j == s_job[t] IN
    [i \in 1 .. SpanOf(j) |-> [by |-> IF j.kind = "fill" THEN s_line ELSE t,
                               place |-> Place(RECT(j)[1], RECT(j)[2], j.at + i - 1)]]

AfterSpan(t) ==
    LET j == s_job[t] IN
    s_job' = [s_job EXCEPT ![t].at = j.at + SpanOf(j),
                           ![t].pc = IF j.at + SpanOf(j) < j.w * j.h THEN "push" ELSE "end"]

ByDma(t) == s_dma /\ ~s_panic /\ SpanOf(s_job[t]) > FIFO_MAX

\* The glyph's row is built in g_line under the lock.
LineAfter(t) == IF s_job[t].kind = "text" THEN t ELSE s_line

spi2_tx(t) ==
    /\ Live(t) /\ s_job[t].pc = "push" /\ ~ByDma(t)
    /\ Lands(Pixels(t)) /\ AfterSpan(t) /\ s_line' = LineAfter(t)
    /\ UNCHANGED <<lockVs, s_dma, s_panic, s_mode, s_flight>>

\* Mutant: the split blit lets the lock go before its transfer has ended.
spi2_dma_go_freed(t) ==
    /\ Live(t) /\ s_job[t].pc = "push" /\ ByDma(t)
    /\ s_flight' = Pixels(t) /\ s_line' = LineAfter(t)
    /\ Moves(t, IF s_job[t].kind = "split" THEN "held" ELSE "wait")
    /\ IF s_job[t].kind = "split" THEN draw_unlock(t) ELSE UNCHANGED lockVs
    /\ UNCHANGED <<s_dma, s_panic, s_mode, panelVs>>

\* spi2_dma_go; the split blit comes back with the lock held and does not wait.
spi2_dma_go(t) ==
    /\ Live(t) /\ s_job[t].pc = "push" /\ ByDma(t)
    /\ s_flight' = Pixels(t) /\ s_line' = LineAfter(t)
    /\ Moves(t, IF s_job[t].kind = "split" THEN "held" ELSE "wait")
    /\ UNCHANGED <<lockVs, s_dma, s_panic, s_mode, panelVs>>

EngineShifts ==
    /\ s_flight # <<>> /\ Lands(<<Head(s_flight)>>) /\ s_flight' = Tail(s_flight)
    /\ UNCHANGED <<s_job, lockVs, s_line, s_dma, s_panic, s_mode>>

\* The caller of the split blit computes its next batch, then finishes this one.
display_blit_be_finish(t) ==
    /\ Live(t) /\ s_job[t].pc = "held" /\ Moves(t, "wait")
    /\ UNCHANGED <<lockVs, s_line, s_dma, s_panic, s_mode, s_flight, panelVs>>

spi2_dma_wait(t) ==
    /\ Live(t) /\ s_job[t].pc = "wait" /\ s_flight = <<>> /\ AfterSpan(t)
    /\ UNCHANGED <<lockVs, s_line, s_dma, s_panic, s_mode, s_flight, panelVs>>

\* The transfer does not retire in time: DMA is off, the rest of the span is
\* abandoned, and the primitive goes on with its next span.
spi2_dma_timeout(t) ==
    /\ Live(t) /\ s_job[t].pc = "wait" /\ s_flight # <<>>
    /\ s_dma' = FALSE /\ s_flight' = <<>> /\ AfterSpan(t)
    /\ UNCHANGED <<lockVs, s_line, s_panic, s_mode, panelVs>>

\* push_end, then the lock; text goes on to its next glyph while it fits.
Unlocks(t) == s_job' = [s_job EXCEPT ![t] = Resting] /\ draw_unlock(t)

push_end(t) ==
    LET j == s_job[t] IN
    /\ Live(t) /\ j.pc = "end" /\ l_at' = -1
    /\ IF j.more > 0 /\ j.x + j.w < DISP_W
       THEN s_job' = [s_job EXCEPT ![t].pc = "column", ![t].at = 0, ![t].x = j.x + j.w, ![t].more = j.more - 1]
            /\ UNCHANGED lockVs
       ELSE Unlocks(t)
    /\ l_seen' = {} /\ l_by' = "nobody"
    /\ UNCHANGED <<s_line, s_dma, s_panic, s_mode, s_flight, l_col, l_row>>

display_panel_read_pull(t) ==
    /\ Live(t) /\ s_job[t].pc \in {"read", "restore"}
    /\ \/ s_job[t].pc = "read" /\ s_mode' = "read" /\ Moves(t, "restore") /\ UNCHANGED <<lockVs, l_at>>
       \/ s_job[t].pc = "restore" /\ s_mode' = "write" /\ l_at' = -1 /\ Unlocks(t)
    /\ UNCHANGED <<s_line, s_dma, s_panic, s_flight, l_col, l_row, l_by, l_seen>>

display_force_fifo ==
    /\ ~s_panic /\ s_dma' = ~s_dma
    /\ UNCHANGED <<s_job, lockVs, s_line, s_panic, s_mode, s_flight, panelVs>>

\* The report has gone out on the UART first, so no transfer is still in flight;
\* the other tasks never run again and nobody looks at the lock.
display_enter_panic_mode ==
    /\ ~s_panic /\ s_flight = <<>> /\ s_panic' = TRUE
    /\ s_job' = [t \in Artists |-> Resting] /\ s_batch' = {} /\ UNCHANGED <<s_owner, s_depth>>
    /\ UNCHANGED <<s_line, s_dma, s_mode, s_flight, panelVs>>

DisplayNext ==
    \/ \E t \in Artists : \/ Draws(t) \/ Locks(t) \/ set_window(t) \/ spi2_tx(t) \/ spi2_dma_go(t)
                          \/ display_blit_be_finish(t) \/ spi2_dma_wait(t) \/ spi2_dma_timeout(t)
                          \/ push_end(t) \/ display_panel_read_pull(t)
    \/ \E t \in Drawers : display_lock(t) \/ display_unlock(t)
    \/ EngineShifts \/ display_force_fifo \/ display_enter_panic_mode

DisplaySpec == DisplayInit /\ [][DisplayNext]_displayVars

(* -------------------------------- Properties ------------------------------- *)
\* A pixel on the panel was sent by the primitive whose window it landed in,
\* whoever drew before, a split blit left in flight and a panic that broke into
\* another primitive between any two of its commands included.
PixelsAreTheWindows == \A w \in l_seen : w.by = w.win

(* What the code does not keep: the README tells each counterexample.         *)
\* display.c:788: "Dropping the span costs one row of one frame": a pixel that is
\* on the panel is at the place it was sent for.
OneSpanIsLost == \A w \in l_seen : w.place = w.at
=============================================================================
