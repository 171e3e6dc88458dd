------------------------------- MODULE Device -------------------------------
(* The device table (device.c): what a program may ask of light, beep, store,    *)
(* i2c, keys, echo, sd and net, through sys device (vm.c), and what the shell    *)
(* asks with dev, devr, devw and perms. Programs run one at a time in the        *)
(* application task and share one bounce buffer; the shell is another task with  *)
(* a buffer of its own.                                                          *)
EXTENDS Integers, Sequences

CONSTANTS
    DevApps,            \* application ids
    XFER_MAX,           \* DEVICE_XFER_MAX
    SD_BYTES,           \* SD_BLOCK_SIZE
    Lbas,               \* blocks of the card
    BodyMax,            \* WEB_BODY_MAX
    ShellUsesSd         \* whether dev 6 is typed while programs run

ASSUME DeviceAssumption ==
    /\ XFER_MAX \in Nat \ {0} /\ SD_BYTES \in Nat \ {0} /\ BodyMax \in Nat
    /\ ShellUsesSd \in BOOLEAN

KERNEL   == "kernel"
DevCallers == DevApps \cup {KERNEL}
STALE    == <<"stale", 0>>  \* what a buffer held before
ZERO     == <<"zero", 0>>
NOTHING  == <<>>

\* DEVICES: channels, and what each entry answers.
Devices == {"light", "beep", "store", "i2c", "keys", "echo", "sd", "net"}
Table == [light |-> [channels |-> 1,   ops |-> {"read"}],
          beep  |-> [channels |-> 1,   ops |-> {"write"}],
          store |-> [channels |-> 5,   ops |-> {"read", "write"}],
          i2c   |-> [channels |-> 128, ops |-> {"read", "out", "in"}],
          keys  |-> [channels |-> 2,   ops |-> {"read"}],
          echo  |-> [channels |-> 1,   ops |-> {"read", "out", "in"}],
          sd    |-> [channels |-> 3,   ops |-> {"read", "write", "in"}],
          net   |-> [channels |-> 4,   ops |-> {"read", "out", "in"}]]
Channels == 0..4

VARIABLES
    d_perms,                    \* g_perms
    d_echo,                     \* g_echo, g_echo_len
    d_block, d_lba, d_off, d_loaded, d_seek,    \* g_sd_block.. g_sd_loaded; who is inside a seek
    d_body,                     \* bytes of the last page (webfetch_len)
    d_last                      \* the last transfer in: answered, delivered, due

sdVs     == <<d_block, d_lba, d_off, d_loaded, d_seek>>
devVars  == <<d_perms, d_echo, sdVs, d_body, d_last>>
NoAnswer == [device |-> "none", ok |-> FALSE, bytes |-> NOTHING, due |-> NOTHING]

\* device_init: every application starts with nothing, the kernel with everything.
DeviceInit ==
    /\ d_perms = [c \in DevCallers |-> IF c = KERNEL THEN Devices ELSE {}]
    /\ d_echo = NOTHING
    /\ d_block = [i \in 0..(SD_BYTES - 1) |-> STALE] /\ d_lba = 0
    /\ d_off = SD_BYTES /\ d_loaded = FALSE /\ d_seek = NOTHING
    /\ d_body = 0
    /\ d_last = NoAnswer

-----------------------------------------------------------------------------
permitted(c, d) == d \in d_perms[c]

\* Everything else is refused, and a refusal is not a fault.
Reachable(c, d, op, ch) == permitted(c, d) /\ op \in Table[d].ops /\ ch < Table[d].channels

\* The application task is inside a seek, or the shell is: it can ask nothing more.
Free(c) == d_seek # NOTHING => (c = KERNEL) # (d_seek[1] = KERNEL)

-----------------------------------------------------------------------------
(* Permissions: the launch, the end of a program and the shell's perms. *)

device_grant(c, devices) ==
    /\ Free(KERNEL) /\ d_perms' = [d_perms EXCEPT ![c] = devices]
    /\ UNCHANGED <<d_echo, sdVs, d_body>> /\ d_last' = NoAnswer

\* device_perms_from_names: every name of a manifest is a device, or nothing starts.
device_perms_from_names(names) == names \subseteq Devices

\* launch_entry: a program comes to a slot whose last program was retired.
launch_entry(c) ==
    /\ d_perms[c] = {}
    /\ \E names \in {{"sd", "echo", "net"}, {"light", "lamp"}} :
        device_perms_from_names(names) /\ device_grant(c, names)
retire_revokes(c) == device_grant(c, {})
shell_perms(c) ==
    device_grant(c, d_perms[c] \cup {"sd"}) \/ device_grant(c, d_perms[c] \ {"sd"})

-----------------------------------------------------------------------------
(* Writes of one word. The store and the keys are in Store and Notes; light, beep and
   i2c keep nothing here. *)

\* sd, channel 0: the block is read into the cache under the card's lock...
sd_dev_write(c, lba) ==
    /\ Free(c) /\ d_seek = NOTHING /\ Reachable(c, "sd", "write", 0) /\ (c = KERNEL => ShellUsesSd)
    /\ d_seek' = <<c, lba>>
    /\ \E got \in 0..SD_BYTES :
        d_block' = [i \in 0..(SD_BYTES - 1) |-> IF i < got THEN <<"sd", lba, i>> ELSE d_block[i]]
    /\ UNCHANGED <<d_perms, d_echo, d_lba, d_off, d_loaded, d_body>> /\ d_last' = NoAnswer

\* Mutant: a seek that fails leaves the cursor where it was.
SeekFails_keeps == d_loaded' = d_loaded

SeekFails == d_loaded' = FALSE

\* ... and the cursor is set, or nothing is loaded.
sd_dev_write_ends ==
    /\ d_seek # NOTHING /\ d_seek' = NOTHING
    /\ LET lba == d_seek[2] IN
       \/ /\ d_block' = [i \in 0..(SD_BYTES - 1) |-> <<"sd", lba, i>>]
          /\ d_lba' = lba /\ d_off' = 0 /\ d_loaded' = TRUE
       \/ SeekFails /\ UNCHANGED <<d_block, d_lba, d_off>>
    /\ UNCHANGED <<d_perms, d_echo, d_body>> /\ d_last' = NoAnswer

\* sd, channel 2: the offset within the block.
sd_dev_write_offset(c) ==
    /\ Free(c) /\ Reachable(c, "sd", "write", 2) /\ (c = KERNEL => ShellUsesSd) /\ d_loaded
    /\ d_off' \in 0..(SD_BYTES - 1)
    /\ UNCHANGED <<d_perms, d_echo, d_block, d_lba, d_loaded, d_seek, d_body>> /\ d_last' = NoAnswer

-----------------------------------------------------------------------------
(* Transfers. *)

LeastOf(a, b) == IF a < b THEN a ELSE b
Tell(d, ok, bytes, due) == d_last' = [device |-> d, ok |-> ok, bytes |-> bytes, due |-> due]

\* The program's bytes go through the bounce buffer; echo keeps them (net's are in Net).
device_xfer_out(c, d, n) ==
    /\ Free(c) /\ Reachable(c, d, "out", 0)
    /\ d_echo' = IF d = "echo" THEN [i \in 1..n |-> <<"program", c>>] ELSE d_echo
    /\ UNCHANGED <<d_perms, sdVs, d_body>> /\ d_last' = NoAnswer

sd_xfer_in(ch, n)   == IF ch # 0 \/ ~d_loaded \/ n > SD_BYTES - d_off THEN NOTHING
                       ELSE [i \in 1..n |-> d_block[d_off + i - 1]]
echo_xfer_in(ch, n) == IF ch # 0 \/ n > Len(d_echo) THEN NOTHING ELSE SubSeq(d_echo, 1, n)

netdev_rest == ZERO

netdev_xfer_in(ch, n) ==
    LET off == ch * XFER_MAX
        m   == LeastOf(n, d_body - off)
    IN  IF off >= d_body THEN NOTHING
        ELSE [i \in 1..n |-> IF i <= m THEN <<"body", off + i>> ELSE netdev_rest]

\* What device.c and netdev.c promise of a transfer: the next bytes of the block, the
\* bytes echoed, the bytes of the body at block * DEVICE_XFER_MAX with zeros after them.
Due(d, ch, n) ==
    CASE d = "sd" /\ ch = 0 /\ d_loaded /\ n <= SD_BYTES - d_off
            -> [i \in 1..n |-> <<"sd", d_lba, d_off + i - 1>>]
      [] d = "echo" /\ ch = 0 /\ n <= Len(d_echo) -> SubSeq(d_echo, 1, n)
      [] d = "net" /\ ch * XFER_MAX < d_body
            -> [i \in 1..n |-> IF ch * XFER_MAX + i <= d_body THEN <<"body", ch * XFER_MAX + i>> ELSE ZERO]
      [] OTHER -> NOTHING

device_xfer_in(c, d, ch, n) ==
    LET bytes == CASE d = "sd" -> sd_xfer_in(ch, n)
                   [] d = "echo" -> echo_xfer_in(ch, n)
                   [] d = "net" -> netdev_xfer_in(ch, n)
        ok    == Reachable(c, d, "in", ch) /\ bytes # NOTHING
    IN  /\ Free(c) /\ permitted(c, d) /\ (c = KERNEL /\ d = "sd" => ShellUsesSd)
        /\ Tell(d, ok, IF ok THEN bytes ELSE NOTHING, Due(d, ch, n))
        /\ d_off' = IF ok /\ d = "sd" THEN d_off + n ELSE d_off
        /\ UNCHANGED <<d_perms, d_echo, d_block, d_lba, d_loaded, d_seek, d_body>>

\* A page arrives (webfetch.c), whole or the first bytes of it.
PageArrives ==
    /\ d_body' \in 0..BodyMax /\ d_last' = NoAnswer
    /\ UNCHANGED <<d_perms, d_echo, sdVs>>

DeviceNext ==
    \/ PageArrives \/ sd_dev_write_ends
    \/ \E c \in DevApps : launch_entry(c) \/ retire_revokes(c) \/ shell_perms(c)
    \/ \E c \in DevCallers :
        \/ sd_dev_write_offset(c)
        \/ \E lba \in Lbas : sd_dev_write(c, lba)
        \/ \E n \in 1..XFER_MAX :
            \/ device_xfer_out(c, "echo", n)
            \/ \E d \in {"sd", "echo", "net"}, ch \in Channels : device_xfer_in(c, d, ch, n)

DeviceSpec == DeviceInit /\ [][DeviceNext]_devVars

-----------------------------------------------------------------------------
\* A transfer that is answered delivers the device's bytes: never part of a block whose
\* read failed, never what another program left in the bounce buffer (device.c, vm.c,
\* netdev.c: "zero-filled rather than left holding the bounce buffer's previous tenant").
BytesAreTheDevices == d_last.ok => d_last.bytes = d_last.due

(* What the code does not keep: the README tells each counterexample.         *)
\* "net.xfer_in(block, buf, len)    body bytes at block * DEVICE_XFER_MAX" (netdev.c): a
\* program that may use the device reads every block of the page it fetched.
BodyIsReadable == d_last.device = "net" /\ d_last.due # NOTHING => d_last.ok
=============================================================================
