--------------------------------- MODULE Mac --------------------------------
(* The radio's own driver (wifimac.c): bringing the MAC up, the list of receive  *)
(* descriptors that the hardware fills and wifi_rx_task drains and hands back,   *)
(* the one transmit buffer shared by beacons and the shell's probes, and the     *)
(* table of networks heard.                                                      *)
EXTENDS Integers, Sequences, FiniteSets

CONSTANTS
    RX_BUFFERS,         \* receive descriptors
    RX_BURST,           \* descriptors drained per call (10)
    NET_MAX,            \* rows of g_nets
    TX_MAX,             \* TX_PENDING_MAX_TICKS
    MaxHeard            \* bound: frames the hardware stores

ASSUME MacAssumption == {RX_BUFFERS, RX_BURST, NET_MAX, TX_MAX, MaxHeard} \subseteq Nat \ {0}

Descs == 1 .. RX_BUFFERS
NULL == 0
Bssids == {1, 2}        \* a frame without an SSID is noted by nobody

VARIABLES
    y_up,               \* g_attempted
    y_chan,             \* g_channel
    y_ready,            \* g_rx_ready
    y_next, y_data,     \* per descriptor: next; the frame it holds (has_data), or 0
    y_head, y_last,     \* g_rx_chain, g_rx_last
    y_hw, y_done,       \* the hardware: the descriptor it fills next; the last one it read
    y_pc, y_item,       \* wifi_rx_task: where it is, and the descriptor in its hands
    y_handled,          \* handled, up to its bound
    y_nets,             \* g_nets
    y_beacon,           \* g_beacon_on, with the channel in g_beacon_frame
    y_pending, y_age,   \* g_tx_pending, ticks since g_tx_started
    y_air,              \* the frame the hardware is sending from g_tx_buf
    y_serial,           \* frames handed to wifimac_tx, modulo 2 (g_tx_seq)
    h_list,             \* history: the descriptors listed, first to last
    h_heard, h_read     \* history: frames stored by the hardware, frames read

ringVars2 == <<y_next, y_data, y_head, y_last, y_hw, y_done, h_list>>
taskVs == <<y_pc, y_item, y_handled, y_nets, h_heard, h_read>>
txVs == <<y_pending, y_age, y_air, y_serial>>
upVs == <<y_up, y_chan, y_ready, y_beacon>>
macVars == <<upVs, ringVars2, taskVs, txVs>>

BEACON == "beacon"
Silence == <<"none", 0>>

MacInit ==
    /\ y_up = FALSE /\ y_chan = 0 /\ y_ready = FALSE /\ y_beacon = 0
    /\ y_next = [d \in Descs |-> NULL] /\ y_data = [d \in Descs |-> 0]
    /\ y_head = NULL /\ y_last = NULL /\ y_hw = NULL /\ y_done = NULL /\ h_list = <<>>
    /\ y_pc = "off" /\ y_item = NULL /\ y_handled = 0 /\ y_nets = <<>>
    /\ h_heard = 0 /\ h_read = 0
    /\ y_pending = FALSE /\ y_age = 0  /\ y_air = Silence /\ y_serial = 0

(* -------------------------------- Bringing up ------------------------------ *)
wifimac_init ==
    /\ ~y_up /\ y_up' = TRUE
    /\ UNCHANGED <<y_chan, y_ready, y_beacon, ringVars2, taskVs, txVs>>

wifimac_set_channel ==
    /\ y_up /\ \E ch \in {1, 2} : y_chan' = ch
    /\ UNCHANGED <<y_up, y_ready, y_beacon, ringVars2, taskVs, txVs>>

\* Each new descriptor points at the one made before it; the first is the tail.
wifimac_rx_start ==
    /\ y_up /\ ~y_ready /\ y_ready' = TRUE
    /\ y_next' = [d \in Descs |-> d - 1] /\ y_data' = [d \in Descs |-> 0]
    /\ y_head' = RX_BUFFERS /\ y_last' = 1
    /\ y_hw' = RX_BUFFERS /\ y_done' = NULL
    /\ h_list' = [i \in 1 .. RX_BUFFERS |-> RX_BUFFERS + 1 - i]
    /\ y_pc' = "loop"
    /\ UNCHANGED <<y_up, y_chan, y_beacon, y_item, y_handled, y_nets, h_heard, h_read, txVs>>

(* --------------------------------- Receiving ------------------------------- *)
\* The hardware fills its descriptor, then follows the link; a frame that finds
\* no descriptor is dropped.
FrameArrives ==
    /\ y_ready /\ h_heard < MaxHeard /\ y_hw # NULL
    /\ h_heard' = h_heard + 1 /\ y_data' = [y_data EXCEPT ![y_hw] = h_heard + 1]
    /\ y_hw' = y_next[y_hw] /\ y_done' = y_hw
    /\ UNCHANGED <<upVs, y_next, y_head, y_last, h_list, y_pc, y_item, y_handled, y_nets, h_read, txVs>>

wifimac_rx_service ==
    /\ y_pc = "loop"
    /\ IF y_head # NULL /\ y_data[y_head] # 0 /\ y_handled < RX_BURST
       THEN /\ y_item' = y_head /\ y_head' = y_next[y_head]
            /\ y_next' = [y_next EXCEPT ![y_head] = NULL] /\ h_list' = Tail(h_list)
            /\ y_pc' = "decode" /\ y_handled' = y_handled + 1
       ELSE y_pc' = "reap" /\ y_handled' = 0 /\ UNCHANGED <<y_item, y_head, y_next, h_list>>
    /\ UNCHANGED <<upVs, y_data, y_last, y_hw, y_done, y_nets, h_heard, h_read, txVs>>

\* A known network is counted, a new one takes a row while there is one.
note_network(b) ==
    IF b \in {y_nets[i] : i \in 1 .. Len(y_nets)} \/ Len(y_nets) >= NET_MAX
    THEN UNCHANGED y_nets ELSE y_nets' = Append(y_nets, b)

\* A frame too short, or without an SSID, is not noted.
decode_frame ==
    /\ y_pc = "decode" /\ y_pc' = "recycle" /\ h_read' = y_data[y_item]
    /\ ((\E b \in Bssids : note_network(b)) \/ UNCHANGED y_nets)
    /\ UNCHANGED <<upVs, ringVars2, y_item, y_handled, h_heard, txVs>>

\* Mutant: the descriptor goes to the front, where the hardware has already been.
recycle_item_front ==
    /\ y_pc = "recycle" /\ y_pc' = "commit"
    /\ y_data' = [y_data EXCEPT ![y_item] = 0]
    /\ y_next' = [y_next EXCEPT ![y_item] = y_head] /\ y_head' = y_item /\ h_list' = Append(h_list, y_item)
    /\ UNCHANGED <<y_last, y_hw, y_done, upVs, y_item, y_handled, y_nets, h_heard, h_read, txVs>>

\* The descriptor goes to the tail, or is the new base of an empty list.
recycle_item ==
    /\ y_pc = "recycle" /\ y_pc' = "commit"
    /\ y_data' = [y_data EXCEPT ![y_item] = 0] /\ y_last' = y_item
    /\ h_list' = Append(h_list, y_item)
    /\ IF y_head # NULL
       THEN y_next' = [y_next EXCEPT ![y_item] = NULL, ![y_last] = y_item] /\ UNCHANGED <<y_head, y_hw, y_done>>
       ELSE y_next' = [y_next EXCEPT ![y_item] = NULL] /\ y_head' = y_item
            /\ y_hw' = y_item /\ y_done' = NULL
    /\ UNCHANGED <<upVs, y_item, y_handled, y_nets, h_heard, h_read, txVs>>

\* The hardware reads again the link of the last descriptor it read.
update_rx_chain ==
    /\ y_pc = "commit" /\ y_pc' = "loop" /\ y_item' = NULL
    /\ y_hw' = (IF y_hw = NULL /\ y_done # NULL THEN y_next[y_done] ELSE y_hw)
    /\ UNCHANGED <<upVs, y_next, y_data, y_head, y_last, h_list, y_done, y_handled, y_nets, h_heard, h_read, txVs>>

(* -------------------------------- Transmitting ----------------------------- *)
\* A transmission that has been pending too long no longer counts.
wifimac_tx_busy == y_pending /\ y_age < TX_MAX

InFlight2 == {BEACON, "probe", "mixed"}

\* There is one buffer: writing it under a frame in flight mixes the two.
wifimac_tx(what) ==
    /\ y_air' = (IF y_air[1] \in InFlight2 THEN <<"mixed", 0>> ELSE <<what, y_serial>>)
    /\ y_serial' = (y_serial + 1) % 2 /\ y_pending' = TRUE /\ y_age' = 0

FrameIsSent == /\ y_air[1] \in InFlight2 /\ y_air' = <<"sent", 0>>
               /\ UNCHANGED <<upVs, ringVars2, taskVs, y_pending, y_age, y_serial>>

wifimac_tx_reap ==
    /\ y_pc = "reap" /\ y_pc' = "beacon"
    /\ IF y_air[1] = "sent" THEN y_air' = Silence /\ y_pending' = FALSE
                            ELSE UNCHANGED <<y_air, y_pending>>
    /\ UNCHANGED <<upVs, ringVars2, y_item, y_handled, y_nets, h_heard, h_read, y_age, y_serial>>

\* The beacon, when it is due and the transmitter is not busy; then the sleep.
wifi_rx_task ==
    /\ y_pc = "beacon" /\ y_pc' = "loop"
    /\ \/ UNCHANGED txVs
       \/ y_beacon # 0 /\ ~wifimac_tx_busy /\ y_chan # 0 /\ wifimac_tx(BEACON)
    /\ UNCHANGED <<upVs, ringVars2, y_item, y_handled, y_nets, h_heard, h_read>>

wifimac_beacon_start ==
    /\ y_ready /\ y_chan # 0 /\ y_beacon' = y_chan
    /\ UNCHANGED <<y_up, y_chan, y_ready, ringVars2, taskVs, txVs>>

wifimac_beacon_stop ==
    /\ y_beacon # 0 /\ y_beacon' = 0
    /\ UNCHANGED <<y_up, y_chan, y_ready, ringVars2, taskVs, txVs>>

\* The shell's probe does not ask whether the transmitter is busy.
wifimac_probe_request ==
    /\ y_up /\ y_chan # 0 /\ wifimac_tx("probe")
    /\ UNCHANGED <<upVs, ringVars2, taskVs>>

TickOver ==
    /\ y_pending /\ y_age < TX_MAX /\ y_age' = y_age + 1
    /\ UNCHANGED <<upVs, ringVars2, taskVs, y_pending, y_air, y_serial>>

MacNext ==
    \/ wifimac_init \/ wifimac_set_channel \/ wifimac_rx_start
    \/ FrameArrives \/ wifimac_rx_service \/ decode_frame \/ recycle_item \/ update_rx_chain
    \/ FrameIsSent \/ wifimac_tx_reap \/ wifi_rx_task
    \/ wifimac_beacon_start \/ wifimac_beacon_stop \/ wifimac_probe_request \/ TickOver

MacSpec == MacInit /\ [][MacNext]_macVars

(* -------------------------------- Properties ------------------------------- *)
\* The links in memory, from the head, are the list the operations should have made.
Linked ==
    /\ y_head = (IF h_list = <<>> THEN NULL ELSE h_list[1])
    /\ \A i \in 1 .. Len(h_list) : y_next[h_list[i]] = (IF i < Len(h_list) THEN h_list[i + 1] ELSE NULL)

\* Taken off the list and not yet put back.
Holding == y_pc \in {"decode", "recycle"}
InHand == IF Holding THEN <<y_item>> ELSE <<>>

\* While the hardware fills descriptors and the task drains and returns them, no
\* descriptor is lost or linked twice, and the frames not yet read stand at the
\* front of the list in the order they arrived, none of them overwritten.
FramesAreKept ==
    y_ready =>
        LET all == InHand \o h_list
        IN /\ Linked /\ Len(all) = RX_BUFFERS /\ {all[i] : i \in 1 .. RX_BUFFERS} = Descs
           /\ \A i \in 1 .. Len(h_list) :
                  y_data[h_list[i]] # 0 =>
                      y_data[h_list[i]] = i + h_read + (IF y_pc = "decode" THEN 1 ELSE 0)

(* What the code does not keep: the README tells each counterexample.         *)
\* wifimac.c:993-995: "a second must not be handed over while the first is still
\* in flight -- that would rewrite a buffer the DMA engine is reading".
BufferIsNotRewritten == y_air[1] # "mixed"
=============================================================================
