-------------------------------- MODULE Net ---------------------------------
(* The received frames and who drains them (net.c, netif_wifi.c), the one fetch  *)
(* the board makes at a time (webfetch.c) and its two clients: programs, through *)
(* the net device (netdev.c), and the web view (browser.c). lwIP is external: it *)
(* calls back from the task that feeds it a frame or runs its timers.            *)
EXTENDS Integers, FiniteSets

CONSTANTS
    NET_SLOTS,          \* slots of the ring; one stays empty
    BODY_MAX,           \* WEB_BODY_MAX, with the end
    MaxTries,           \* questions asked of the name server
    MaxFetches          \* bound: fetches started

ASSUME NetAssumption ==
    /\ NET_SLOTS \in Nat \ {0, 1} /\ BODY_MAX \in Nat \ {0}
    /\ MaxTries \in Nat \ {0} /\ MaxFetches \in Nat \ {0}

NetTasks == {"net", "shell"}
InFlight == {"resolving", "connecting", "requesting"}
Fetches1 == 1..MaxFetches
FrameNo  == 0..NET_SLOTS        \* frames are numbered, and the numbers come round
NO       == 0

VARIABLES
    q_slot, q_head, q_tail,     \* g_q, g_head, g_tail: the number of the frame held
    q_poller, q_handover, q_up, \* who is in net_poll_for (g_net_polling); g_net_handover, g_up
    q_pc,                       \* what each task is doing inside lwIP
    f_state, f_tries, f_dns, f_tcp, f_id,   \* webfetch.c: g_state.. g_tcp, the fetch's number
    f_pcb,                      \* external: lwIP's connections
    f_len, f_dropped,
    p_want, p_busy,             \* netdev.c
    u_want,                     \* browser.c: g_want_fetch
    h_frame, h_seen, h_slot,    \* history: the next frame's number; the one and the slot handled
    h_from, h_got,              \* history: whose bytes are in the body; bytes received
    h_stale                     \* history: an old connection's error hit a newer fetch

ringVs   == <<q_slot, q_head, q_tail, h_frame, h_seen, h_slot>>
ownVs    == <<q_poller, q_handover, q_up>>
fetchVs  == <<f_state, f_tries, f_dns, f_tcp, f_id, f_pcb, f_len, f_dropped, h_from, h_got, h_stale>>
clientVs == <<p_want, p_busy, u_want>>
netVars  == <<ringVs, ownVs, q_pc, fetchVs, clientVs>>

NetInit ==
    /\ q_slot = [i \in 0..(NET_SLOTS - 1) |-> NO] /\ q_head = 0 /\ q_tail = 0
    /\ q_poller = "none" /\ q_handover = FALSE /\ q_up = FALSE
    /\ q_pc = [t \in NetTasks |-> "out"]
    /\ f_state = "idle" /\ f_tries = 0 /\ f_dns = FALSE /\ f_tcp = NO /\ f_id = 0
    /\ f_pcb = [f \in Fetches1 |-> "free"] /\ f_len = 0 /\ f_dropped = 0
    /\ p_want = FALSE /\ p_busy = FALSE /\ u_want = FALSE
    /\ h_frame = 0 /\ h_seen = 0 /\ h_slot = 0 /\ h_from = {} /\ h_got = 0 /\ h_stale = FALSE

-----------------------------------------------------------------------------
(* The ring. *)

Slot1(i) == (i + 1) % NET_SLOTS
Number1(n) == (n + 1) % (NET_SLOTS + 1)

\* Mutant: a full ring is written over.
RingFull_never == FALSE

RingFull == Slot1(q_head) = q_tail

\* From the driver's receive callback, in a critical section; a full ring drops it.
net_rx_enqueue ==
    /\ ~RingFull
    /\ q_slot' = [q_slot EXCEPT ![q_head] = h_frame]
    /\ q_head' = Slot1(q_head) /\ h_frame' = Number1(h_frame)
    /\ UNCHANGED <<q_tail, h_seen, h_slot, ownVs, q_pc, fetchVs, clientVs>>

\* The bring-up: from the net task's worker, or from the shell. lwip_init, netif_add,
\* the server, DHCP; then this task polls until the handover.
net_set_tx(t) ==
    /\ ~q_up /\ q_pc[t] = "out" /\ q_up' = TRUE /\ q_poller' = t
    /\ q_pc' = [q_pc EXCEPT ![t] = "polls"]
    /\ UNCHANGED <<ringVs, q_handover, fetchVs, clientVs>>
net_poll_for_ends(t) ==
    /\ q_pc[t] = "polls" /\ q_poller' = "none" /\ q_handover' = TRUE
    /\ q_pc' = [q_pc EXCEPT ![t] = "out"]
    /\ UNCHANGED <<ringVs, q_up, fetchVs, clientVs>>

\* Who drains: the poll while it lasts, then net_service_task_step.
MayService(t) ==
    \/ q_pc[t] = "polls"
    \/ t = "net" /\ q_pc[t] = "out" /\ q_handover /\ q_poller = "none"

Leaves(t) == q_pc' = [q_pc EXCEPT ![t] = IF q_poller = t THEN "polls" ELSE "out"]

netif_wifi_input(t) ==
    /\ MayService(t) /\ q_tail # q_head
    /\ h_slot' = q_tail
    /\ q_pc' = [q_pc EXCEPT ![t] = "input"]
    /\ UNCHANGED <<q_slot, q_head, q_tail, h_frame, h_seen, ownVs, fetchVs, clientVs>>

\* The frame is handled where it lies, then the slot is given back.
FrameHandled ==
    /\ q_tail' = Slot1(q_tail)
    /\ h_seen' = Number1(h_seen)
    /\ UNCHANGED <<q_slot, q_head, h_frame, h_slot>>

-----------------------------------------------------------------------------
(* webfetch.c *)

\* fail: tcp_abort frees the connection, and its on_err finds nothing more to do.
FailWith(pcbs) ==
    /\ f_state' = "failed" /\ f_dns' = FALSE /\ f_tcp' = NO
    /\ f_pcb' = IF f_tcp = NO THEN pcbs ELSE [pcbs EXCEPT ![f_tcp] = "free"]
    /\ UNCHANGED <<f_tries, f_id, f_len, f_dropped, h_from, h_got, h_stale>>

Aborted(pcbs) == IF f_tcp = NO THEN pcbs ELSE [pcbs EXCEPT ![f_tcp] = "free"]

\* A fetch starts over whatever was going on; no pcb, no port or no buffer and it fails.
webfetch_start ==
    /\ q_up /\ f_id < MaxFetches /\ f_id' = f_id + 1
    /\ f_pcb' = Aborted(f_pcb) /\ f_tcp' = NO
    /\ f_len' = 0 /\ f_dropped' = 0 /\ h_from' = {} /\ h_got' = 0
    /\ \/ f_state' = "resolving" /\ f_dns' = TRUE /\ f_tries' = 1
       \/ f_state' = "failed" /\ f_dns' = FALSE /\ f_tries' = 0
    /\ UNCHANGED h_stale

NoNetwork ==
    /\ f_state' = "failed"
    /\ UNCHANGED <<f_tries, f_dns, f_tcp, f_id, f_pcb, f_len, f_dropped, h_from, h_got, h_stale>>

\* webfetch_service: each phase has its time. A reply that stops is an answer.
webfetch_service ==
    \/ /\ f_state = "resolving" /\ f_tries < MaxTries /\ f_tries' = f_tries + 1
       /\ UNCHANGED <<f_state, f_dns, f_tcp, f_id, f_pcb, f_len, f_dropped, h_from, h_got, h_stale>>
    \/ f_state = "resolving" /\ f_tries >= MaxTries /\ FailWith(f_pcb)
    \/ f_state = "connecting" /\ FailWith(f_pcb)
    \/ f_state = "requesting" /\ f_len = 0 /\ FailWith(f_pcb)
    \/ /\ f_state = "requesting" /\ f_len > 0 /\ f_state' = "done"
       /\ f_pcb' = Aborted(f_pcb) /\ f_tcp' = NO
       /\ UNCHANGED <<f_tries, f_dns, f_id, f_len, f_dropped, h_from, h_got, h_stale>>
    \/ UNCHANGED fetchVs

\* An answer to the question: an address, and the connection is opened; or none.
on_dns ==
    /\ f_state = "resolving" /\ f_dns
    /\ \/ FailWith(f_pcb)
       \/ /\ f_state' = "connecting" /\ f_dns' = FALSE /\ f_tcp' = f_id
          /\ f_pcb' = [f_pcb EXCEPT ![f_id] = "connecting"]
          /\ UNCHANGED <<f_tries, f_id, f_len, f_dropped, h_from, h_got, h_stale>>

on_connected(f) ==
    /\ f_pcb[f] = "connecting"
    /\ \/ FailWith(f_pcb)
       \/ /\ f_pcb' = [f_pcb EXCEPT ![f] = "open"] /\ f_state' = "requesting"
          /\ UNCHANGED <<f_tries, f_dns, f_tcp, f_id, f_len, f_dropped, h_from, h_got, h_stale>>

\* Bytes: what fits is kept, the rest counted.
on_recv(f) ==
    \E n \in 1..2 :
        LET room == BODY_MAX - 1 - f_len
            kept == IF n < room THEN n ELSE room
        IN  /\ f_pcb[f] = "open" /\ h_got + n <= BODY_MAX + 1
            /\ f_len' = f_len + kept /\ f_dropped' = f_dropped + (n - kept)
            /\ h_from' = h_from \cup {f} /\ h_got' = h_got + n
            /\ UNCHANGED <<f_state, f_tries, f_dns, f_tcp, f_id, f_pcb, h_stale>>

\* The peer closes: that is the end of the body.
on_recv_end(f) ==
    /\ f_pcb[f] = "open" /\ f_pcb' = [f_pcb EXCEPT ![f] = "closing"] /\ f_tcp' = NO
    /\ f_state' = IF f_state = "requesting" THEN "done" ELSE f_state
    /\ UNCHANGED <<f_tries, f_dns, f_id, f_len, f_dropped, h_from, h_got, h_stale>>

\* A reset or lwIP giving up, on any connection that still has the callback.
on_err(f) ==
    /\ f_pcb[f] # "free" /\ f_pcb' = [f_pcb EXCEPT ![f] = "free"] /\ f_tcp' = NO
    /\ f_state' = IF f_state \in {"connecting", "requesting"} THEN "failed" ELSE f_state
    /\ h_stale' = (h_stale \/ f_tcp \notin {NO, f})
    /\ UNCHANGED <<f_tries, f_dns, f_id, f_len, f_dropped, h_from, h_got>>

\* The other side acknowledges the close.
Closed(f) ==
    /\ f_pcb[f] = "closing" /\ f_pcb' = [f_pcb EXCEPT ![f] = "free"]
    /\ UNCHANGED <<f_state, f_tries, f_dns, f_tcp, f_id, f_len, f_dropped, h_from, h_got, h_stale>>

\* What one frame makes lwIP do.
netif_wifi_input_ends(t) ==
    /\ q_pc[t] = "input" /\ Leaves(t) /\ FrameHandled
    /\ \/ on_dns
       \/ \E f \in Fetches1 : on_connected(f) \/ on_recv(f) \/ on_recv_end(f) \/ on_err(f) \/ Closed(f)
       \/ UNCHANGED fetchVs
    /\ UNCHANGED <<ownVs, clientVs>>

\* lwIP's timers: a connection that has retried enough is given up.
netif_wifi_tick(t) ==
    /\ MayService(t) /\ q_pc' = [q_pc EXCEPT ![t] = "timers"]
    /\ UNCHANGED <<ringVs, ownVs, fetchVs, clientVs>>
netif_wifi_tick_ends(t) ==
    /\ q_pc[t] = "timers" /\ Leaves(t)
    /\ \/ \E f \in Fetches1 : on_err(f)
       \/ UNCHANGED fetchVs
    /\ UNCHANGED <<ringVs, ownVs, clientVs>>

\* A later join, from the net task's worker or from the shell.
netif_wifi_dhcp_restart(t) ==
    /\ q_up /\ q_pc[t] = "out" /\ q_pc' = [q_pc EXCEPT ![t] = "dhcp"]
    /\ UNCHANGED <<ringVs, ownVs, fetchVs, clientVs>>
netif_wifi_dhcp_restart_ends(t) ==
    /\ q_pc[t] = "dhcp" /\ Leaves(t)
    /\ UNCHANGED <<ringVs, ownVs, fetchVs, clientVs>>

-----------------------------------------------------------------------------
(* The clients. *)

\* A program asks, on its own task: refused while its own fetch is in flight.
netdev_xfer_out ==
    /\ ~p_want /\ ~(p_busy /\ f_state \in InFlight)
    /\ p_want' = TRUE
    /\ UNCHANGED <<ringVs, ownVs, q_pc, fetchVs, p_busy, u_want>>

\* netdev_service: the wish is taken first, then read and started.
netdev_service(t) ==
    /\ MayService(t) /\ (p_want \/ p_busy)
    /\ q_pc' = [q_pc EXCEPT ![t] = IF p_want THEN "program" ELSE "serves"]
    /\ p_want' = FALSE
    /\ UNCHANGED <<ringVs, ownVs, fetchVs, p_busy, u_want>>
netdev_service_starts(t) ==
    /\ q_pc[t] = "program" /\ q_pc' = [q_pc EXCEPT ![t] = "serves"] /\ p_busy' = TRUE
    /\ webfetch_start \/ NoNetwork
    /\ UNCHANGED <<ringVs, ownVs, p_want, u_want>>

\* browser_service: on the net task, whoever is polling.
browser_service ==
    /\ q_pc["net"] = "out"
    /\ q_pc' = [q_pc EXCEPT !["net"] = IF u_want THEN "browser" ELSE "serves"]
    /\ u_want' = FALSE
    /\ UNCHANGED <<ringVs, ownVs, fetchVs, p_want, p_busy>>
browser_service_starts ==
    /\ q_pc["net"] = "browser" /\ q_pc' = [q_pc EXCEPT !["net"] = "serves"]
    /\ webfetch_start \/ NoNetwork
    /\ UNCHANGED <<ringVs, ownVs, clientVs>>
Serves(t) ==
    /\ q_pc[t] = "serves" /\ Leaves(t)
    /\ webfetch_service
    /\ UNCHANGED <<ringVs, ownVs, clientVs>>

\* A tap on go, on a selected link, or the end of typing an address.
browser_touch ==
    /\ ~u_want /\ u_want' = TRUE
    /\ UNCHANGED <<ringVs, ownVs, q_pc, fetchVs, p_want, p_busy>>

NetNext ==
    \/ net_rx_enqueue \/ netdev_xfer_out \/ browser_touch
    \/ browser_service \/ browser_service_starts
    \/ \E t \in NetTasks :
        \/ net_set_tx(t) \/ net_poll_for_ends(t)
        \/ netif_wifi_input(t) \/ netif_wifi_input_ends(t)
        \/ netif_wifi_tick(t) \/ netif_wifi_tick_ends(t)
        \/ netif_wifi_dhcp_restart(t) \/ netif_wifi_dhcp_restart_ends(t)
        \/ netdev_service(t) \/ netdev_service_starts(t) \/ Serves(t)

NetSpec == NetInit /\ [][NetNext]_netVars

-----------------------------------------------------------------------------
\* Frames reach lwIP once, in the order they came, and the slot a frame is handled in
\* is not written meanwhile, through the handover from the poll to the net task
\* (net.c: "the two never touch g_tail at the same time").
RingIsIntact ==
    \A t \in NetTasks : q_pc[t] = "input" => q_slot[h_slot] = h_seen

\* The body holds bytes of the fetch that was started last and of no other, and every
\* byte received is in it or counted as dropped (webfetch.c), unless an old connection's
\* error took away the connection of a newer fetch.
BodyIsOurs ==
    ~h_stale => h_from \subseteq {f_id} /\ f_len + f_dropped = h_got

\* A page is made of the bytes of its own fetch: the ring between the radio and
\* lwIP keeps its frames, and the body is this fetch's (netif_wifi.c, webfetch.c).
ReplyIsWhole == RingIsIntact /\ BodyIsOurs

(* What the code does not keep: the README tells each counterexample.         *)
\* "Everything in this project that touches lwIP runs from one context, and this is
\* that context" (webfetch.h): no two tasks are inside lwIP.
OneContext ==
    Cardinality({t \in NetTasks : q_pc[t] \in {"input", "timers", "program", "browser", "dhcp"}}) <= 1
=============================================================================
