------------------------------ MODULE OsiWait -------------------------------
(* The objects the radio drivers wait on (wifi_osi_impl.c, reached through      *)
(* wifi_osi_stubs.c and bt_osi.c): semaphores and mutexes, message queues and   *)
(* event groups. One object of a kind the initial state picks. Every wait is a  *)
(* loop of one-tick sleeps around an attempt in a critical section, so a wake   *)
(* only shortens a sleep, and one that is lost costs a tick.                     *)
EXTENDS Integers, Sequences, FiniteSets, Functions

CONSTANTS
    OsiTasks,           \* tasks that run driver code
    OsiQueueLen,        \* capacity of the queue
    SemSlotsRecycled,   \* a slot that held a recursive mutex is reused for something else
    MaxSent             \* bound of the model: messages sent in all

ASSUME OsiWaitAssumption ==
    /\ OsiTasks # {} /\ OsiQueueLen \in Nat \ {0} /\ MaxSent \in Nat
    /\ SemSlotsRecycled \in BOOLEAN

SemKinds == {"counting", "mutex", "recursive"}
Bits     == {"a", "b"}
MAX_DELAY == 2          \* OSI_MAX_DELAY: any more than the finite wait, 1
FREE_SEM  == "nobody"

VARIABLES
    o_kind, o_used,     \* what the slot is, and whether it is
    o_count, o_recursive, o_owner, o_depth,             \* osi_sem_t
    o_buf, o_head, o_tail, o_len,                       \* osi_queue_t
    o_bits,                                             \* osi_evt_t
    o_waiters, o_senders,                               \* the two masks
    o_pc,               \* the call each task is in
    h_holds,            \* history: locks each task has taken and not given back
    h_line, h_waited,   \* history: messages in the order sent; a send came with a time to wait
    h_sent

semVars   == <<o_count, o_recursive, o_owner, o_depth, h_holds>>
ringVars  == <<o_buf, o_head, o_tail, o_len, h_line, h_waited, h_sent>>
maskVars  == <<o_waiters, o_senders>>
osiVars   == <<o_kind, o_used, semVars, ringVars, o_bits, maskVars, o_pc>>

NoCall == [op |-> "none", ticks |-> 0, msg |-> 0, first |-> FALSE, at |-> "idle"]

OsiWaitInit ==
    /\ o_kind \in SemKinds \cup {"queue", "group"} /\ o_used = FALSE
    /\ o_count = 0 /\ o_recursive = FALSE /\ o_owner = FREE_SEM /\ o_depth = 0
    /\ o_buf = [i \in 0 .. OsiQueueLen - 1 |-> 0] /\ o_head = 0 /\ o_tail = 0 /\ o_len = 0
    /\ o_bits = {} /\ o_waiters = {} /\ o_senders = {}
    /\ o_pc = [t \in OsiTasks |-> NoCall]
    /\ h_holds = [t \in OsiTasks |-> 0] /\ h_line = <<>> /\ h_waited = FALSE /\ h_sent = 0

-----------------------------------------------------------------------------
(* Creation: whatever an earlier use left in a semaphore's recursion fields stays. *)

osi_impl_sem_create(kind, init) ==
    /\ o_kind \in SemKinds /\ kind \in SemKinds \ {"recursive"} /\ ~o_used
    /\ o_recursive => SemSlotsRecycled
    /\ o_kind' = kind /\ o_used' = TRUE /\ o_count' = init /\ o_waiters' = {}
    /\ h_holds' = [t \in OsiTasks |-> 0]
    /\ UNCHANGED <<o_recursive, o_owner, o_depth, ringVars, o_bits, o_senders, o_pc>>

osi_impl_recursive_mutex_create ==
    /\ o_kind \in SemKinds /\ ~o_used
    /\ o_kind' = "recursive" /\ o_used' = TRUE /\ o_count' = 1 /\ o_waiters' = {}
    /\ o_recursive' = TRUE /\ o_owner' = FREE_SEM /\ o_depth' = 0
    /\ h_holds' = [t \in OsiTasks |-> 0]
    /\ UNCHANGED <<ringVars, o_bits, o_senders, o_pc>>

\* The slot only: nobody waiting is told. A driver deletes what none of it holds.
osi_impl_sem_delete ==
    /\ o_kind \in SemKinds /\ o_used /\ \A t \in OsiTasks : h_holds[t] = 0
    /\ o_used' = FALSE
    /\ UNCHANGED <<o_kind, semVars, ringVars, o_bits, maskVars, o_pc>>

osi_impl_queue_create ==
    /\ o_kind = "queue" /\ ~o_used /\ \A t \in OsiTasks : o_pc[t] = NoCall
    /\ o_used' = TRUE /\ o_head' = 0 /\ o_tail' = 0 /\ o_len' = 0
    /\ o_waiters' = {} /\ o_senders' = {} /\ h_line' = <<>> /\ h_waited' = FALSE
    /\ UNCHANGED <<o_kind, semVars, o_buf, o_bits, o_pc, h_sent>>

\* Its storage is freed with it, so the driver deletes one that no call is in.
osi_impl_queue_delete ==
    /\ o_kind = "queue" /\ o_used /\ \A t \in OsiTasks : o_pc[t] = NoCall
    /\ o_used' = FALSE
    /\ UNCHANGED <<o_kind, semVars, ringVars, o_bits, maskVars, o_pc>>

osi_impl_evt_create ==
    /\ o_kind = "group" /\ ~o_used
    /\ o_used' = TRUE /\ o_bits' = {} /\ o_waiters' = {}
    /\ UNCHANGED <<o_kind, semVars, ringVars, o_senders, o_pc>>

osi_impl_evt_delete ==
    /\ o_kind = "group" /\ o_used /\ o_used' = FALSE
    /\ UNCHANGED <<o_kind, semVars, ringVars, o_bits, maskVars, o_pc>>

-----------------------------------------------------------------------------
(* The wait loop: an attempt, a place in the mask, a sleep of one tick. *)

Enter(t, op, ticks, msg, first) ==
    /\ o_used /\ o_pc[t] = NoCall
    /\ o_pc' = [o_pc EXCEPT ![t] =
           [op |-> op, ticks |-> ticks, msg |-> msg, first |-> first, at |-> "attempt"]]

\* A driver's call tries without waiting first; the Bluetooth shim does not.
osi_s_semphr_take(t) ==
    \E ticks \in {1, MAX_DELAY}, first \in BOOLEAN :
        /\ o_kind \in SemKinds /\ h_holds[t] < 2
        /\ Enter(t, "take", ticks, 0, first)
        /\ UNCHANGED <<o_kind, o_used, semVars, ringVars, o_bits, maskVars>>

osi_s_queue_send_call(t) ==
    \E ticks \in {0, 1, MAX_DELAY}, first \in BOOLEAN :
        /\ o_kind = "queue" /\ h_sent < MaxSent /\ h_sent' = h_sent + 1
        /\ Enter(t, "send", ticks, h_sent + 1, first)
        /\ UNCHANGED <<o_kind, o_used, semVars, o_buf, o_head, o_tail, o_len, h_line, h_waited,
                       o_bits, maskVars>>

xQueueReceive(t) ==
    \E ticks \in {0, 1, MAX_DELAY} :
        /\ o_kind = "queue" /\ Enter(t, "recv", ticks, 0, FALSE)
        /\ UNCHANGED <<o_kind, o_used, semVars, ringVars, o_bits, maskVars>>

osi_s_event_group_wait_bits(t) ==
    \E ticks \in {1, MAX_DELAY}, bits \in SUBSET Bits \ {{}} :
        /\ o_kind = "group" /\ Enter(t, "wait", ticks, bits, TRUE)
        /\ UNCHANGED <<o_kind, o_used, semVars, ringVars, o_bits, maskVars>>

Here(t, op) == o_pc[t].op = op /\ o_pc[t].at = "attempt"
Returns(t)  == o_pc' = [o_pc EXCEPT ![t] = NoCall]

\* The first try failed: the same call again, with its time. A finite wait that has run
\* out returns; otherwise the task goes to register itself.
Again(t) ==
    LET c == o_pc[t] IN
    o_pc' = [o_pc EXCEPT ![t] = CASE c.first               -> [c EXCEPT !.first = FALSE]
                                  [] ~c.first /\ c.ticks = 0 -> NoCall
                                  [] OTHER                 -> [c EXCEPT !.at = "register"]]

\* wait_on: outside the critical section that looked, so the event may fall between.
wait_on(t) ==
    /\ o_pc[t].at = "register"
    /\ o_pc' = [o_pc EXCEPT ![t].at = "asleep"]
    /\ IF o_pc[t].op = "send" THEN o_senders' = o_senders \cup {t} /\ UNCHANGED o_waiters
                              ELSE o_waiters' = o_waiters \cup {t} /\ UNCHANGED o_senders
    /\ UNCHANGED <<o_kind, o_used, semVars, ringVars, o_bits>>

\* Woken, or the tick is over: the same from here.
wait_on_ends(t) ==
    /\ o_pc[t].at = "asleep"
    /\ o_pc' = [o_pc EXCEPT ![t].at = "attempt",
                            ![t].ticks = IF @ = MAX_DELAY THEN @ ELSE 0]
    /\ o_waiters' = o_waiters \ {t} /\ o_senders' = o_senders \ {t}
    /\ UNCHANGED <<o_kind, o_used, semVars, ringVars, o_bits>>

-----------------------------------------------------------------------------
(* Semaphores *)

\* The owner of a recursive mutex re-enters; anybody else needs the count.
osi_impl_sem_take(t) ==
    LET mine == o_recursive /\ o_depth > 0 /\ o_owner = t IN
    /\ Here(t, "take")
    /\ IF mine \/ o_count > 0
       THEN /\ Returns(t) /\ h_holds' = [h_holds EXCEPT ![t] = @ + 1]
            /\ o_count' = IF mine THEN o_count ELSE o_count - 1
            /\ o_owner' = IF o_recursive THEN t ELSE o_owner
            /\ o_depth' = IF mine THEN o_depth + 1 ELSE IF o_recursive THEN 1 ELSE o_depth
       ELSE Again(t) /\ UNCHANGED <<o_count, o_owner, o_depth, h_holds>>
    /\ UNCHANGED <<o_kind, o_used, o_recursive, ringVars, o_bits, maskVars>>

\* Mutant: the inner unlock makes the mutex available.
StaysHeld_never(t) == FALSE

\* One level of recursion is unwound, and it was not the last.
StaysHeld(t) == o_recursive /\ o_depth > 1 /\ o_owner = t

\* A mutex is given back by its holder, a counting semaphore by anybody.
osi_impl_sem_give(t) ==
    LET mine == o_recursive /\ o_depth > 0 /\ o_owner = t IN
    /\ o_kind \in SemKinds /\ o_used /\ o_pc[t] = NoCall
    /\ o_kind # "counting" => h_holds[t] > 0
    /\ h_holds' = [h_holds EXCEPT ![t] = IF @ > 0 THEN @ - 1 ELSE 0]
    /\ o_depth' = IF mine THEN o_depth - 1 ELSE o_depth
    /\ o_owner' = IF mine /\ ~StaysHeld(t) THEN FREE_SEM ELSE o_owner
    /\ o_count' = IF StaysHeld(t) THEN o_count ELSE 1       \* no more than max
    /\ o_waiters' = IF StaysHeld(t) THEN o_waiters ELSE {}  \* wake_all
    /\ UNCHANGED <<o_kind, o_used, o_recursive, ringVars, o_bits, o_senders, o_pc>>

-----------------------------------------------------------------------------
(* Queues *)

\* A message sent to the front goes to the slot before the head.
FrontSlot == (o_head + OsiQueueLen - 1) % OsiQueueLen

\* The bridge carries three arguments and leaves the third in the register of the
\* fourth: to_front is the time the sender will wait.
osi_impl_queue_send(t) ==
    LET c     == o_pc[t]
        front == ~c.first /\ c.ticks # 0
        slot  == IF front THEN FrontSlot ELSE o_tail
    IN  /\ Here(t, "send")
        /\ h_waited' = (h_waited \/ front)
        /\ IF o_len < OsiQueueLen
           THEN /\ o_head' = IF front THEN slot ELSE o_head
                /\ o_tail' = IF front THEN o_tail ELSE (o_tail + 1) % OsiQueueLen
                /\ o_buf' = [o_buf EXCEPT ![slot] = c.msg] /\ o_len' = o_len + 1
                /\ h_line' = Append(h_line, c.msg)
                /\ o_waiters' = {} /\ Returns(t)
           ELSE Again(t) /\ UNCHANGED <<o_head, o_tail, o_buf, o_len, h_line, o_waiters>>
        /\ UNCHANGED <<o_kind, o_used, semVars, h_sent, o_bits, o_senders>>

\* An interrupt's message: to the back, and never waits.
osi_impl_queue_send_isr ==
    /\ o_kind = "queue" /\ o_used /\ h_sent < MaxSent /\ h_sent' = h_sent + 1
    /\ o_len < OsiQueueLen
    /\ o_buf' = [o_buf EXCEPT ![o_tail] = h_sent + 1] /\ o_len' = o_len + 1
    /\ o_tail' = (o_tail + 1) % OsiQueueLen /\ h_line' = Append(h_line, h_sent + 1)
    /\ o_waiters' = {}
    /\ UNCHANGED <<o_kind, o_used, semVars, o_head, h_waited, o_bits, o_senders, o_pc>>

\* The line of messages without m.
Without(line, m) ==
    LET k == CHOOSE k \in 1 .. Len(line) : line[k] = m
    IN  [i \in 1 .. Len(line) - 1 |-> line[IF i < k THEN i ELSE i + 1]]

osi_impl_queue_recv(t) ==
    /\ Here(t, "recv")
    /\ IF o_len > 0
       THEN /\ o_head' = (o_head + 1) % OsiQueueLen /\ o_len' = o_len - 1
            /\ h_line' = Without(h_line, o_buf[o_head])
            /\ o_senders' = {} /\ Returns(t)
       ELSE /\ UNCHANGED <<o_head, o_len, h_line, o_senders>>
            \* OSI_FOREVER_CAP: even a wait for ever ends
            /\ Again(t) \/ Returns(t)
    /\ UNCHANGED <<o_kind, o_used, semVars, o_buf, o_tail, h_waited, h_sent, o_bits, o_waiters>>

-----------------------------------------------------------------------------
(* Event groups *)

osi_impl_evt_set(bits) ==
    /\ o_kind = "group" /\ o_used /\ o_bits' = o_bits \cup bits /\ o_waiters' = {}
    /\ UNCHANGED <<o_kind, o_used, semVars, ringVars, o_senders, o_pc>>

osi_impl_evt_clear(bits) ==
    /\ o_kind = "group" /\ o_used /\ o_bits' = o_bits \ bits
    /\ UNCHANGED <<o_kind, o_used, semVars, ringVars, maskVars, o_pc>>

\* An attempt that fails without time to wait returns the group's bits, whichever they
\* are: the caller takes any for an answer and does not wait.
osi_impl_evt_wait(t) ==
    LET c == o_pc[t] IN
    /\ Here(t, "wait")
    /\ \E all, clear \in BOOLEAN :
        LET met == IF all THEN c.msg \subseteq o_bits ELSE c.msg \cap o_bits # {}
        IN  /\ o_bits' = IF met /\ clear THEN o_bits \ c.msg ELSE o_bits
            /\ IF met \/ (c.first /\ o_bits # {}) THEN Returns(t) ELSE Again(t)
    /\ UNCHANGED <<o_kind, o_used, semVars, ringVars, maskVars>>

-----------------------------------------------------------------------------
OsiWaitNext ==
    \/ \E init \in {0, 1} : osi_impl_sem_create("counting", init)
    \/ osi_impl_sem_create("mutex", 1)
    \/ osi_impl_recursive_mutex_create \/ osi_impl_sem_delete
    \/ osi_impl_queue_create \/ osi_impl_queue_delete
    \/ osi_impl_evt_create \/ osi_impl_evt_delete
    \/ osi_impl_queue_send_isr
    \/ \E bits \in {{"a"}, {"b"}} : osi_impl_evt_set(bits) \/ osi_impl_evt_clear(bits)
    \/ \E t \in OsiTasks :
        \/ osi_s_semphr_take(t) \/ osi_s_queue_send_call(t) \/ xQueueReceive(t)
        \/ osi_s_event_group_wait_bits(t) \/ wait_on(t) \/ wait_on_ends(t)
        \/ osi_impl_sem_take(t) \/ osi_impl_sem_give(t)
        \/ osi_impl_queue_send(t) \/ osi_impl_queue_recv(t) \/ osi_impl_evt_wait(t)

OsiWaitSpec == OsiWaitInit /\ [][OsiWaitNext]_osiVars

-----------------------------------------------------------------------------
\* A mutex has one holder: while a task is inside, once or more deep, nobody else is
\* and the mutex is not available, whoever slept through its hand-over; once nobody is
\* inside it is (wifi_osi_impl.c: "releasing it on the inner unlock would hand it to
\* another task while this one is still inside the region it thinks it owns").
HolderIsAlone ==
    o_used /\ o_kind \in {"mutex", "recursive"} =>
        /\ \A t, u \in OsiTasks : h_holds[t] > 0 /\ h_holds[u] > 0 => t = u
        /\ o_count = 1 <=> \A t \in OsiTasks : h_holds[t] = 0

\* Every message sent and not received is in the ring once, wrapped or not, and while no
\* send has come with a time to wait the oldest sent is the next received. (One that has
\* is put in front of the others.)
RingIsALine ==
    LET ring == [i \in 1 .. o_len |-> o_buf[(o_head + i - 1) % OsiQueueLen]] IN
    o_used /\ o_kind = "queue" =>
        IF h_waited THEN Len(h_line) = o_len /\ Range(h_line) = Range(ring)
                    ELSE h_line = ring

\* A semaphore lets in as many as it counts and a queue is first in, first out,
\* however the waits, wakes and deletions interleave (wifi_osi_impl.c, bt_osi.c).
HandlesHold == HolderIsAlone /\ RingIsALine
=============================================================================
