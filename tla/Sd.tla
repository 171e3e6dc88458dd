--------------------------------- MODULE Sd ---------------------------------
(* Reading the card: the command, the wait for the data token and the block on  *)
(* the DMA engine or on the W registers (sd.c), and what spi3.c knows about the  *)
(* engine. Callers hold the FAT lock. The card is external: it answers a read    *)
(* with idle bytes, a token, the block and its CRC, again and again if asked for *)
(* many.                                                                         *)
EXTENDS Integers, Sequences

CONSTANTS
    SD_BLOCK_SIZE,      \* bytes of a block
    Batch,              \* bytes of a token-wait transfer
    MaxIdle,            \* idle bytes the card sends before a token
    DiagnosticsShare    \* TRUE: spitest and spidma, which take no lock, may fall inside a read

ASSUME SdAssumption ==
    /\ SD_BLOCK_SIZE \in Nat /\ SD_BLOCK_SIZE >= 2 /\ Batch \in Nat \ {0} /\ Batch <= SD_BLOCK_SIZE
    /\ MaxIdle \in Nat /\ DiagnosticsShare \in BOOLEAN

WORD == 4
Burst == 3              \* blocks of a CMD18 read; fewer go one at a time

VARIABLES
    d_type,             \* a card is identified
    d_hw,               \* the bus is SPI3's, not bit-banged
    g_dma_ok, g_dma_allowed,
    d_moved,            \* g_wreg_xfers # g_wreg_at_init
    d_short,            \* external: a W-register transfer has spoilt the engine
    g_pend,             \* g_pend_token with g_pend: <<>>, or <<bytes past the token>>
    d_card,             \* external: "idle", "single" or "multi"
    d_lat, d_gap, d_pos,\* external: idle bytes first, between blocks; where the stream is
    d_pc, d_n, d_b,     \* the call: where it is, blocks asked, block it is at
    d_have,             \* bytes that came with the token
    d_try,              \* <<attempt, engine on when the call began>>
    d_dst, d_stage, d_copy,
    d_rc, d_refused,    \* history: how the last call ended, and whether the card refused it
    d_lost              \* history: a CMD12 was never sent

engVars == <<d_type, d_hw, g_dma_ok, g_dma_allowed, d_moved, d_short>>
crdVars == <<d_card, d_lat, d_gap, d_pos>>
callVars == <<d_pc, d_n, d_b, d_have, d_try, d_dst, d_stage, d_copy, d_rc, d_refused, d_lost>>
sdVars  == <<engVars, crdVars, callVars, g_pend>>

-----------------------------------------------------------------------------
(* The card's stream *)

FF  == <<"idle", 0, 0>>
TOK == <<"token", 0, 0>>
CRC == <<"crc", 0, 0>>
Data(b, i) == <<"data", b, i>>

Unit == 1 + SD_BLOCK_SIZE + 2 + d_gap
StreamByte(p) ==
    LET q == p - d_lat
        u == q \div Unit
        r == q % Unit
    IN  IF d_card = "idle" \/ q < 0 \/ (d_card = "single" /\ u > 0) THEN FF
        ELSE IF r = 0 THEN TOK
        ELSE IF r <= SD_BLOCK_SIZE THEN Data(u, r - 1)
        ELSE IF r <= SD_BLOCK_SIZE + 2 THEN CRC ELSE FF
Bytes(p, n) == [i \in 1 .. n |-> StreamByte(p + i - 1)]

-----------------------------------------------------------------------------
(* spi3.c *)

\* What a DMA transfer may do. The tripwire refuses it without a clock; a spoilt
\* engine delivers short and times out, as does one that fails for another reason.
xfer_dma == IF d_moved THEN {"trip"} ELSE IF d_short THEN {"fault"} ELSE {"ok", "fault"}

\* How the flags of the engine follow from the outcome.
collect_dma(o) == /\ g_dma_ok' = (g_dma_ok /\ o = "ok")
                  /\ g_dma_allowed' = (g_dma_allowed /\ o # "trip")
                  /\ UNCHANGED <<d_type, d_hw, d_moved, d_short>>

\* A transfer through the W registers.
spi3_read == /\ d_moved' = TRUE /\ d_short' = TRUE
             /\ UNCHANGED <<d_type, d_hw, g_dma_ok, g_dma_allowed>>

dma_enabled == g_dma_ok

SdInit ==
    /\ d_type = FALSE /\ d_hw = FALSE /\ g_dma_ok = FALSE /\ g_dma_allowed = FALSE
    /\ d_moved = FALSE /\ d_short = FALSE /\ g_pend = <<>>
    /\ d_card = "idle" /\ d_lat = 0 /\ d_gap = 0 /\ d_pos = 0
    /\ d_pc = "idle" /\ d_n = 0 /\ d_b = 0 /\ d_have = 0 /\ d_try = <<0, FALSE>>
    /\ d_dst = <<>> /\ d_stage = [s \in 0 .. 1 |-> <<>>] /\ d_copy = <<>>
    /\ d_rc = "none" /\ d_refused = FALSE /\ d_lost = FALSE

\* spi3_dma_init takes the count as it stands for zero and allows the engine again.
spi3_dma_init == g_dma_ok' = TRUE /\ g_dma_allowed' = TRUE /\ d_moved' = FALSE

\* Identification is bit-banged. It ends with the bus handed to SPI3 and the engine
\* armed, or at any step with no card, or with the speed set to bit-banging.
sd_init ==
    /\ d_pc = "idle" /\ d_card' = "idle"
    /\ \/ /\ d_type' = TRUE /\ d_hw' = TRUE /\ spi3_dma_init
       \/ /\ d_type' \in BOOLEAN /\ d_hw' = FALSE
          /\ UNCHANGED <<g_dma_ok, g_dma_allowed, d_moved>>
    /\ UNCHANGED <<d_short, g_pend, d_lat, d_gap, d_pos, callVars>>

\* The DMA probes identify the card, arm the engine, with or without W-register reads
\* in front of it, and put it away.
spi3_probe_dma ==
    /\ d_pc = "idle" /\ d_card' = "idle" /\ d_type' = TRUE /\ d_hw' = TRUE
    /\ g_dma_ok' = FALSE /\ g_dma_allowed' = FALSE /\ d_moved' = FALSE
    /\ d_short' \in {d_short, TRUE}
    /\ UNCHANGED <<g_pend, d_lat, d_gap, d_pos, callVars>>

\* "spi3": the self-tests go through the W registers, then sd_init hands the bus back.
spi3_selftest_loopback ==
    /\ d_pc = "idle" /\ d_card' = "idle" /\ d_short' = TRUE
    /\ \/ d_type' = TRUE /\ d_hw' = TRUE /\ spi3_dma_init
       \/ /\ d_type' \in BOOLEAN /\ d_hw' = FALSE /\ d_moved' = TRUE
          /\ UNCHANGED <<g_dma_ok, g_dma_allowed>>
    /\ UNCHANGED <<g_pend, d_lat, d_gap, d_pos, callVars>>

\* spitest moves bytes through the W registers; spidma re-arms the engine or puts it
\* away. Neither takes the lock.
spi3_probe_speed == /\ DiagnosticsShare \/ d_pc = "idle"
                    /\ d_hw /\ spi3_read
                    /\ UNCHANGED <<g_pend, crdVars, callVars>>
spi3_dma_force_fifo ==
    /\ DiagnosticsShare \/ d_pc = "idle"
    /\ \/ spi3_dma_init
       \/ g_dma_ok' = FALSE /\ g_dma_allowed' = FALSE /\ UNCHANGED d_moved
    /\ UNCHANGED <<d_type, d_hw, d_short, g_pend, crdVars, callVars>>

-----------------------------------------------------------------------------
(* One read, of one block or of a burst *)

sd_read_blocks(n) ==
    /\ d_pc = "idle" /\ d_type
    /\ d_pc' = "command" /\ d_n' = n /\ d_b' = 0 /\ d_have' = 0
    /\ d_try' = <<1, dma_enabled>> /\ d_dst' = [b \in 0 .. n - 1 |-> <<>>] /\ d_copy' = <<>>
    /\ d_rc' = "none" /\ d_refused' = FALSE /\ d_stage' = [s \in 0 .. 1 |-> <<>>]
    /\ UNCHANGED <<engVars, crdVars, g_pend, d_lost>>

\* Mutant: a failed read is final.
retried_never(rc) == FALSE

\* One retry, when this very call has cost the engine.
retried(rc) == rc = "err" /\ d_try[1] = 1 /\ d_try[2] /\ ~dma_enabled

\* An attempt ends with cs_high, which ends a single read for the card too.
AttemptEnds ==
    /\ d_pc \in {"ok", "err"}
    /\ \/ /\ retried(d_pc)
          /\ d_pc' = "command"
          /\ d_try' = [d_try EXCEPT ![1] = 2] /\ UNCHANGED <<d_rc, d_dst>>
       \/ /\ ~retried(d_pc)
          /\ d_pc' = "idle" /\ d_rc' = d_pc /\ UNCHANGED <<d_try, d_dst>>
    /\ d_b' = 0 /\ d_have' = 0 /\ d_copy' = <<>>
    /\ d_card' = IF d_card = "single" THEN "idle" ELSE d_card
    /\ d_lat' = 0 /\ d_gap' = 0 /\ d_pos' = 0
    /\ d_stage' = [s \in 0 .. 1 |-> <<>>]
    /\ UNCHANGED <<engVars, g_pend, d_n, d_refused, d_lost>>

\* How a read that failed leaves: a burst by way of CMD12.
Leave == d_pc' = IF d_n >= Burst THEN "stop-err" ELSE "err"

\* R1. A card that is still streaming answers with data, which is no R1.
CardAnswers ==
    \/ /\ d_card = "idle" /\ d_pc' = "token" /\ UNCHANGED d_refused
       /\ d_card' = IF d_n >= Burst THEN "multi" ELSE "single"
       /\ d_lat' \in 0 .. MaxIdle /\ d_gap' \in 0 .. MaxIdle /\ d_pos' = 0
    \/ /\ Leave /\ d_refused' = (d_card = "idle") /\ UNCHANGED crdVars

\* CMD17 or CMD18. The engine's version voids the bytes carried over; the other does
\* not.
sd_command ==
    /\ d_pc = "command" /\ d_hw
    /\ \/ /\ dma_enabled /\ g_pend' = <<>>
          /\ \E o \in xfer_dma :
               /\ collect_dma(o)
               /\ \/ o = "ok" /\ CardAnswers
                  \/ o # "ok" /\ Leave /\ UNCHANGED <<crdVars, d_refused>>
       \/ ~dma_enabled /\ spi3_read /\ CardAnswers /\ UNCHANGED g_pend
    /\ UNCHANGED <<d_n, d_b, d_have, d_try, d_dst, d_stage, d_copy, d_rc, d_lost>>

\* Bit-banged, byte by byte: the card is followed exactly.
read_block_slow ==
    /\ d_pc = "command" /\ ~d_hw
    /\ \/ /\ d_pc' = "ok" /\ UNCHANGED d_refused
          /\ d_dst' = [b \in 0 .. d_n - 1 |-> [i \in 1 .. SD_BLOCK_SIZE |-> Data(b, i - 1)]]
       \/ d_pc' = "err" /\ d_refused' = TRUE /\ UNCHANGED d_dst
    /\ UNCHANGED <<engVars, crdVars, g_pend, d_n, d_b, d_have, d_try, d_stage, d_copy, d_rc, d_lost>>

\* Where the first byte that is not idle lies, if there is one.
NextMark == {p \in d_pos .. d_pos + 2 * MaxIdle + Unit : StreamByte(p) # FF /\
               \A q \in d_pos .. p - 1 : StreamByte(q) = FF}

\* A token the block before carried over, or batches until a byte is not idle: what
\* follows it in its batch is data.
token_wait_hw ==
    /\ d_pc = "token"
    /\ \/ /\ g_pend # <<>>
          /\ d_dst' = [d_dst EXCEPT ![d_b] = g_pend[1]] /\ d_have' = Len(g_pend[1])
          /\ g_pend' = <<>> /\ d_pc' = "data" /\ UNCHANGED <<engVars, d_pos>>
       \/ /\ g_pend = <<>> /\ UNCHANGED g_pend
          /\ \E o \in (IF dma_enabled THEN xfer_dma ELSE {"ok"}) :
               /\ IF dma_enabled THEN collect_dma(o) ELSE spi3_read
               /\ \/ /\ o = "ok"
                     /\ \E p \in NextMark :
                          LET end == d_pos + Batch * ((p - d_pos) \div Batch + 1) IN
                          /\ StreamByte(p) = TOK
                          /\ d_dst' = [d_dst EXCEPT ![d_b] = Bytes(p + 1, end - p - 1)]
                          /\ d_have' = end - p - 1 /\ d_pos' = end /\ d_pc' = "data"
                  \/ /\ o # "ok" \/ \A p \in NextMark : StreamByte(p) # TOK
                     /\ Leave /\ UNCHANGED <<d_dst, d_have, d_pos>>
    /\ UNCHANGED <<d_card, d_lat, d_gap, d_n, d_b, d_try, d_stage, d_copy, d_rc, d_refused, d_lost>>

\* What the rounding to a word read past the CRC: from a token on it is the next
\* block's; idle bytes are dropped.
Overshoot(buf) ==
    LET past == SubSeq(buf, SD_BLOCK_SIZE - d_have + 3, Len(buf))
        hits == {i \in DOMAIN past : past[i] = TOK}
    IN  IF hits = {} THEN <<>>
        ELSE LET i == CHOOSE i \in hits : \A j \in hits : i <= j
             IN  <<SubSeq(past, i + 1, Len(past))>>

Rounded(n) == (n + WORD - 1) - ((n + WORD - 1) % WORD)

\* The rest of a block and its CRC: on the engine in whole words, or through the W
\* registers.
data_read_hw ==
    LET rest == SD_BLOCK_SIZE - d_have
        buf  == Bytes(d_pos, Rounded(rest + 2))
    IN
    /\ d_pc = "data"
    /\ d_n < Burst \/ ~dma_enabled
    /\ \E o \in (IF dma_enabled THEN xfer_dma ELSE {"ok"}) :
         /\ IF dma_enabled THEN collect_dma(o) ELSE spi3_read
         /\ \/ /\ o = "ok"
               /\ d_dst' = [d_dst EXCEPT ![d_b] = @ \o SubSeq(buf, 1, rest)]
               /\ g_pend' = IF dma_enabled THEN Overshoot(buf) ELSE g_pend
               /\ d_pos' = d_pos + (IF dma_enabled THEN Len(buf) ELSE rest + 2)
               /\ d_b' = d_b + 1
               /\ IF d_n < Burst THEN d_pc' = "ok"
                  ELSE d_pc' = IF d_b + 1 < d_n THEN "token" ELSE "stop-ok"
            \/ o # "ok" /\ Leave /\ UNCHANGED <<d_dst, g_pend, d_pos, d_b>>
    /\ UNCHANGED <<d_card, d_lat, d_gap, d_n, d_have, d_try, d_stage, d_copy, d_rc, d_refused, d_lost>>

StageOf(b) == b % 2

\* copy_out of the block before, whose bytes wait in its staging buffer.
copy_out(stage) ==
    IF d_copy = <<>> THEN d_dst
    ELSE [d_dst EXCEPT ![d_copy[1]] = @ \o SubSeq(stage[StageOf(d_copy[1])], 1, d_copy[2])]

\* The pipeline: the engine is started on this block, the block before is copied
\* while it runs, then it is collected.
read_blocks_once ==
    LET rest  == SD_BLOCK_SIZE - d_have
        buf   == Bytes(d_pos, Rounded(rest + 2))
        stage == [d_stage EXCEPT ![StageOf(d_b)] = buf]
    IN
    /\ d_pc = "data" /\ d_n >= Burst /\ dma_enabled
    /\ \E o \in xfer_dma :
         /\ collect_dma(o)
         /\ \/ /\ o # "ok" /\ Leave /\ UNCHANGED <<g_pend, d_pos, d_b, d_dst, d_stage, d_copy>>
            \/ /\ o = "ok" /\ d_stage' = stage /\ d_dst' = copy_out(stage)
               /\ g_pend' = Overshoot(buf) /\ d_pos' = d_pos + Len(buf)
               /\ d_copy' = <<d_b, rest>> /\ d_b' = d_b + 1
               /\ d_pc' = IF d_b + 1 < d_n THEN "token" ELSE "stop-ok"
    /\ UNCHANGED <<d_card, d_lat, d_gap, d_n, d_have, d_try, d_rc, d_refused, d_lost>>

\* The last copy, then CMD12 and the wait for an idle bus. A transfer that fails in
\* front of the command keeps it from being sent.
multi_stop ==
    /\ d_pc \in {"stop-ok", "stop-err"}
    /\ d_dst' = IF d_pc = "stop-ok" THEN copy_out(d_stage) ELSE d_dst
    /\ d_copy' = <<>> /\ d_pc' = IF d_pc = "stop-ok" THEN "ok" ELSE "err"
    /\ \/ /\ dma_enabled /\ g_pend' = <<>>
          /\ \E o \in xfer_dma :
               /\ collect_dma(o)
               /\ d_card' \in IF o = "ok" THEN {"idle"} ELSE {"idle", d_card}
       \/ ~dma_enabled /\ spi3_read /\ d_card' = "idle" /\ UNCHANGED g_pend
    /\ d_lost' = (d_lost \/ d_card' # "idle")
    /\ UNCHANGED <<d_lat, d_gap, d_pos, d_n, d_b, d_have, d_try, d_stage, d_rc, d_refused>>

SdNext == \/ sd_init \/ spi3_probe_dma \/ spi3_selftest_loopback \/ spi3_probe_speed \/ spi3_dma_force_fifo
          \/ sd_read_blocks(1) \/ sd_read_blocks(Burst)
          \/ sd_command \/ read_block_slow \/ token_wait_hw \/ data_read_hw
          \/ read_blocks_once \/ multi_stop \/ AttemptEnds

SdSpec == SdInit /\ [][SdNext]_sdVars

-----------------------------------------------------------------------------
(* Properties *)

\* A read that returns SD_OK has delivered the blocks asked for, every byte in its
\* place: whatever the idle stretches, whichever transport each part went by, and
\* however often the engine gave up on the way.
ReadIsRight ==
    d_rc = "ok" =>
        \A b \in 0 .. d_n - 1 : d_dst[b] = [i \in 1 .. SD_BLOCK_SIZE |-> Data(b, i - 1)]

\* A card that does not refuse is read, on the engine or after one retry on the W
\* registers, unless it was left streaming because an earlier CMD12 was never sent.
HealthyReadSucceeds == d_rc = "err" => d_refused \/ d_lost

\* A read of the card that reports success delivers the block asked for, and one
\* from a healthy card succeeds (sd.c).
SectorsArrive == ReadIsRight /\ HealthyReadSucceeds
=============================================================================
