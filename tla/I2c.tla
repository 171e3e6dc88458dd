--------------------------------- MODULE I2c --------------------------------
(* The bit-banged bus (i2c.c): an open-drain master that clocks start, bytes,    *)
(* acknowledgements and stop one line change at a time, and a slave that reacts  *)
(* to the edges it sees. A line is low when anyone pulls it. The slave may hold  *)
(* the clock: within the wait that costs time only, past it the master gives up. *)
EXTENDS Integers, Sequences

CONSTANTS
    BYTE_BITS,          \* bits of a byte: the last of an address byte is read/write
    MaxRead,            \* bound: bytes asked of one read
    Bufs,               \* the buffers the callers write
    SlaveAddr,          \* the address that answers
    SlaveGives          \* the bytes the slave has to give, over and over

\* A byte is its bits, most significant first; shifting one in appends it.
BusBytes == [1 .. BYTE_BITS -> {0, 1}]
Addrs    == [1 .. BYTE_BITS - 1 -> {0, 1}]
AddrByte(a, rw) == [i \in 1 .. BYTE_BITS |-> IF i < BYTE_BITS THEN a[i] ELSE rw]

ASSUME I2cAssumption ==
    /\ BYTE_BITS \in Nat \ {0} /\ MaxRead \in Nat /\ SlaveAddr \in Addrs
    /\ \A buf \in Bufs : buf \in Seq(BusBytes)
    /\ SlaveGives \in Seq(BusBytes) /\ SlaveGives # <<>>

VARIABLES
    j_at,               \* the master: [op, rw, k], the operation it is in, the half of
                        \* the transaction (rw 0 writes) and the byte of that half
    j_ph, j_slot,       \* the step of that operation, the bit it clocks
    j_sda, j_scl,       \* does the master pull the line (FALSE) or let it go
    j_in, j_rx,         \* the byte being read; the bytes read
    j_r,                \* I2C_OK, I2C_ENAK, I2C_ETIMEOUT
    j_dev,              \* the slave: [st, v, rw, sda, n, sent, got]
    j_hold,             \* does the slave hold the clock past the master's patience
    h_asked,            \* the call: [a, half, put, get]
    h_clean             \* history: it began on a free bus and nothing timed out in it

masterVs == <<j_at, j_ph, j_slot, j_in, j_rx, j_r>>
busVs    == <<j_sda, j_scl, j_dev, j_hold>>
i2cVars  == <<masterVs, busVs, h_asked, h_clean>>

(* --------------------------------- The slave ------------------------------- *)
Unaddressed == [st |-> "idle", v |-> <<>>, rw |-> 0, sda |-> TRUE, n |-> 0, sent |-> 0, got |-> <<>>]

Given(k) == SlaveGives[1 + (k % Len(SlaveGives))]

Sda == j_sda /\ j_dev.sda
Scl == j_scl /\ ~j_hold
Level(b) == b = 1
Bit(level) == IF level THEN 1 ELSE 0

\* What it drives while it sends the n-th bit of its byte.
Gives(d, n) == [d EXCEPT !.st = "tx", !.n = n, !.sda = Level(Given(d.sent)[n])]

OnRise(d, sda) ==
    CASE d.st \in {"addr", "rx"} -> [d EXCEPT !.v = Append(@, Bit(sda))]
      [] d.st = "wait"           -> [d EXCEPT !.v = <<Bit(sda)>>]
      [] OTHER                   -> d

OnFall(d) ==
    CASE d.st = "addr" /\ Len(d.v) = BYTE_BITS ->
            IF d.v \in {AddrByte(SlaveAddr, 0), AddrByte(SlaveAddr, 1)}
            THEN [d EXCEPT !.st = "ack", !.rw = d.v[BYTE_BITS], !.sda = FALSE]
            ELSE [d EXCEPT !.st = "idle"]
      [] d.st = "rx" /\ Len(d.v) = BYTE_BITS   ->
            [d EXCEPT !.st = "ack", !.sda = FALSE, !.got = Append(@, d.v)]
      [] d.st = "ack" -> IF d.rw = 1 THEN Gives(d, 1)
                                     ELSE [d EXCEPT !.st = "rx", !.v = <<>>, !.sda = TRUE]
      [] d.st = "tx"  -> IF d.n < BYTE_BITS THEN Gives(d, d.n + 1)
                         ELSE [d EXCEPT !.st = "wait", !.sda = TRUE, !.sent = @ + 1]
      [] d.st = "wait" -> IF d.v = <<0>> THEN Gives(d, 1) ELSE [d EXCEPT !.st = "idle"]
      [] OTHER        -> d

OnStart(d) == [d EXCEPT !.st = "addr", !.v = <<>>, !.sda = TRUE]
OnStop(d)  == [d EXCEPT !.st = "idle", !.sda = TRUE]

\* One line change of the master, and what it makes of the slave.
Lines2(sda, scl) ==
    LET sdaNow == sda /\ j_dev.sda
        sclNow == scl /\ ~j_hold
    IN  /\ j_sda' = sda /\ j_scl' = scl
        /\ j_dev' = CASE ~Scl /\ sclNow                  -> OnRise(j_dev, sdaNow)
                      [] Scl /\ ~sclNow                  -> OnFall(j_dev)
                      [] Scl /\ sclNow /\ Sda /\ ~sdaNow -> OnStart(j_dev)
                      [] Scl /\ sclNow /\ ~Sda /\ sdaNow -> OnStop(j_dev)
                      [] OTHER                           -> j_dev

(* -------------------------------- The master ------------------------------- *)
\* A call: the half it begins with, the bytes it writes, how many it reads.
i2c_probe(a)      == [a |-> a, half |-> 0, put |-> <<>>, get |-> 0]
i2c_write(a, buf) == [a |-> a, half |-> 0, put |-> buf, get |-> 0]
i2c_read(a, len)  == [a |-> a, half |-> 1, put |-> <<>>, get |-> len]
i2c_write_read(a, buf, len) == [a |-> a, half |-> 0, put |-> buf, get |-> len]

Transactions ==
    {i2c_probe(a) : a \in Addrs} \cup {i2c_write(a, buf) : a \in Addrs, buf \in Bufs}
    \cup {i2c_read(a, len) : a \in Addrs, len \in 1 .. MaxRead}
    \cup {i2c_write_read(a, buf, len) : a \in Addrs, buf \in Bufs, len \in 1 .. MaxRead}

In(op, rw, k) == [op |-> op, rw |-> rw, k |-> k]

\* Where the loops of a call go from byte k of a half, 0 being its address byte: to
\* the next byte, from the bytes written to a repeated start, in the end to the stop.
Onward(t, rw, k) ==
    CASE rw = 0 /\ k < Len(t.put)                -> In("put", 0, k + 1)
      [] rw = 0 /\ k >= Len(t.put) /\ t.get > 0 -> In("start", 1, 0)
      [] rw = 1 /\ k < t.get                     -> In("get", 1, k + 1)
      [] OTHER                                   -> In("stop", rw, k)

\* The LAST byte is not acknowledged.
Acked(i, len) == i < len

I2cInit ==
    /\ j_at = In("none", 0, 0) /\ j_ph = "first" /\ j_slot = 1 /\ j_in = <<>> /\ j_rx = <<>> /\ j_r = "ok"
    /\ j_sda = TRUE /\ j_scl = TRUE /\ j_dev = Unaddressed /\ j_hold = FALSE
    /\ h_asked = i2c_probe(SlaveAddr) /\ h_clean = TRUE

BusIsFree == Sda /\ Scl /\ j_dev.st = "idle"

begins(t) ==
    /\ j_at.op = "none" /\ j_at' = In("start", t.half, 0) /\ h_asked' = t /\ h_clean' = BusIsFree
    /\ j_ph' = "first" /\ j_slot' = 1 /\ j_in' = <<>> /\ j_rx' = <<>> /\ j_r' = "ok"
    /\ j_dev' = [j_dev EXCEPT !.got = <<>>, !.sent = 0]
    /\ UNCHANGED <<j_sda, j_scl, j_hold>>

At(op, ph) == j_at.op = op /\ j_ph = ph
Sends == j_at.op \in {"addr", "put"}
Stays == UNCHANGED <<j_at, j_slot, j_in, j_rx, j_r, h_asked>>
GoesTo(at) == j_at' = at /\ j_ph' = "first" /\ j_slot' = 1 /\ j_in' = <<>>

\* The clock is let go and must be SEEN high; a slave that keeps a low clock low
\* is a timeout.
scl_release_and_wait(then) ==
    \/ /\ ~j_hold /\ Lines2(j_sda, TRUE) /\ then /\ UNCHANGED <<j_hold, h_clean>>
    \/ /\ j_hold \/ ~j_scl
       /\ j_hold' = TRUE /\ h_clean' = FALSE
       /\ j_scl' = TRUE /\ UNCHANGED <<j_sda, j_dev>>
       /\ IF j_at.op \in {"start", "stop"} THEN then
          ELSE /\ GoesTo(In("stop", j_at.rw, j_at.k)) /\ j_r' = "timeout"
               /\ UNCHANGED <<j_rx, h_asked>>

i2c_start ==
    \/ At("start", "first") /\ Lines2(TRUE, j_scl) /\ j_ph' = "wait" /\ Stays /\ UNCHANGED <<j_hold, h_clean>>
    \/ At("start", "wait") /\ scl_release_and_wait(j_ph' = "data" /\ Stays)
    \/ At("start", "data") /\ Lines2(FALSE, j_scl) /\ j_ph' = "clock" /\ Stays /\ UNCHANGED <<j_hold, h_clean>>
    \/ At("start", "clock") /\ Lines2(j_sda, FALSE) /\ GoesTo(In("addr", j_at.rw, 0))
       /\ UNCHANGED <<j_rx, j_r, h_asked, j_hold, h_clean>>

i2c_stop ==
    \/ At("stop", "first") /\ Lines2(FALSE, j_scl) /\ j_ph' = "wait" /\ Stays /\ UNCHANGED <<j_hold, h_clean>>
    \/ At("stop", "wait") /\ scl_release_and_wait(j_ph' = "data" /\ Stays)
    \/ At("stop", "data") /\ Lines2(TRUE, j_scl) /\ GoesTo(In("none", 0, 0))
       /\ UNCHANGED <<j_rx, j_r, h_asked, j_hold, h_clean>>

\* The byte that is sent.
ByteOut == IF j_at.op = "addr" THEN AddrByte(h_asked.a, j_at.rw) ELSE h_asked.put[j_at.k]

\* Mutant of Puts: the data line is not let go for the slave's acknowledgement.
Puts_held(slot) ==
    CASE Sends                                  -> Level(ByteOut[IF slot > BYTE_BITS THEN BYTE_BITS ELSE slot])
      [] j_at.op = "get" /\ slot > BYTE_BITS    -> ~Acked(j_at.k, h_asked.get)
      [] OTHER                                  -> TRUE

\* The level the master puts on the data line for a slot: a bit of its byte, its
\* own acknowledgement of a byte it read, else nothing.
Puts(slot) ==
    CASE Sends /\ slot <= BYTE_BITS             -> Level(ByteOut[slot])
      [] j_at.op = "get" /\ slot > BYTE_BITS    -> ~Acked(j_at.k, h_asked.get)
      [] OTHER                                  -> TRUE

byte_drives ==
    /\ (Sends \/ j_at.op = "get") /\ j_ph = "first"
    /\ Lines2(Puts(j_slot), j_scl) /\ j_ph' = "wait" /\ Stays
    /\ UNCHANGED <<j_hold, h_clean>>

\* The clock is high: the acknowledgement or the bit is read.
Sampled ==
    /\ j_ph' = "clock" /\ UNCHANGED <<j_at, j_slot, j_rx, h_asked>>
    /\ j_in' = IF j_at.op = "get" /\ j_slot <= BYTE_BITS THEN Append(j_in, Bit(Sda)) ELSE j_in
    /\ j_r' = IF Sends /\ j_slot > BYTE_BITS /\ Sda THEN "nak" ELSE j_r

byte_clocks ==
    /\ (Sends \/ j_at.op = "get") /\ j_ph = "wait"
    /\ scl_release_and_wait(Sampled)

\* The clock falls; after the last slot the byte is over, and anything but an
\* acknowledged one leads to the stop.
byte_falls ==
    /\ (Sends \/ j_at.op = "get") /\ j_ph = "clock"
    /\ Lines2(j_sda, FALSE)
    /\ \/ /\ j_slot <= BYTE_BITS
          /\ j_slot' = j_slot + 1 /\ j_ph' = "first" /\ UNCHANGED <<j_at, j_in, j_rx>>
       \/ /\ j_slot > BYTE_BITS /\ Sends /\ UNCHANGED j_rx
          /\ GoesTo(IF j_r = "nak" THEN In("stop", j_at.rw, j_at.k) ELSE Onward(h_asked, j_at.rw, j_at.k))
       \/ /\ j_slot > BYTE_BITS /\ j_at.op = "get" /\ j_rx' = Append(j_rx, j_in)
          /\ j_ph' = "free" /\ j_slot' = 1 /\ j_in' = <<>> /\ UNCHANGED j_at
    /\ UNCHANGED <<j_r, h_asked, j_hold, h_clean>>

\* After its own acknowledgement the master lets the data line go.
byte_frees ==
    /\ At("get", "free") /\ Lines2(TRUE, j_scl) /\ GoesTo(Onward(h_asked, j_at.rw, j_at.k))
    /\ UNCHANGED <<j_rx, j_r, h_asked, j_hold, h_clean>>

\* A slave that held the clock too long lets it go at last.
slave_lets_go ==
    /\ j_hold /\ j_hold' = FALSE
    /\ j_dev' = IF j_scl THEN OnRise(j_dev, Sda) ELSE j_dev
    /\ UNCHANGED <<masterVs, j_sda, j_scl, h_asked, h_clean>>

\* The self test pulls and releases each line of an idle bus.
i2c_selftest ==
    /\ j_at.op = "none" /\ BusIsFree
    /\ j_dev' = OnFall(OnStop(OnStart(j_dev)))
    /\ UNCHANGED <<masterVs, j_sda, j_scl, j_hold, h_asked, h_clean>>

I2cNext ==
    \/ \E t \in Transactions : begins(t)
    \/ i2c_start \/ i2c_stop \/ byte_drives \/ byte_clocks \/ byte_falls \/ byte_frees
    \/ slave_lets_go \/ i2c_selftest

I2cSpec == I2cInit /\ [][I2cNext]_i2cVars

(* -------------------------------- Properties ------------------------------- *)
\* A transaction that began on a free bus and met no timeout leaves the bus free,
\* whatever was acknowledged: both lines up and no slave still talking. If it
\* reported I2C_OK, the slave was addressed, it got the bytes that were written and
\* every byte read is the byte it gave (i2c.c, all callers).
TransferIsWhole ==
    j_at.op = "none" /\ h_clean =>
        /\ BusIsFree
        /\ j_r = "ok" =>
            /\ h_asked.a = SlaveAddr /\ j_dev.got = h_asked.put
            /\ Len(j_rx) = h_asked.get /\ \A k \in 1 .. Len(j_rx) : j_rx[k] = Given(k - 1)

(* What the code does not keep: the README tells each counterexample.         *)
\* The next transaction can start: between transactions no slave is left holding
\* the data line, a timeout in the last one included.
BusRecovers == j_at.op = "none" /\ ~j_hold => Sda
=============================================================================
