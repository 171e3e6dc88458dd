# nat-os: a TLA+ model of the kernel

nat-os is a kernel for the ESP32: a preemptive scheduler on one core, a heap,
arenas in which bytecode programs run under a software-checked virtual machine,
a desktop and a shell that launch them, and drivers for the panel, touch, flash,
SD card, audio and the vendor's radio. The code modelled here is `src/kernel/`.

## What the system is made of

| part | state | operations | who calls it | what makes it correct |
|---|---|---|---|---|
| task table, scheduler (`task.c`) | per slot: state, priority, wait count, wake flag, deadline; `g_current` | create, schedule, sleep, arm, wake, block, unblock, set priority | every task; the level-3 vector after every interrupt | no task is lost, starved, woken early or left asleep |
| tick and dispatch (`timer.c`, `intr.c`) | `g_ticks`, next deadline, pending lines | `timer_isr`, `intr_dispatch`, rescue | the hardware; `task_yield` brings the tick forward | the clock advances once per interval |
| mutex (`mutex.c`) | owner, depth, wait mask, grant mask | lock, try, unlock | console, panel, bus, vendor bridge | exclusion, no lost wakeup, no lost lock |
| heap (`heap.c`) | block list, totals | alloc, free, check | arenas, frame buffer, drivers | blocks tile the region; no overlap, no leak |
| arenas, applications (`arena.c`, `app.c`) | arena table, slots, focus, viewports | create/destroy, start, tick, kill, retire | shell task, touch task (the desktop), app-host task | a stopped program leaves nothing behind |
| mailboxes (`ipc.c`) | one message per slot | send, receive, clear | programs through syscalls | mail reaches only its addressee |
| virtual machine (`vm.c`, `vmarg.c`) | registers, call stack, events, viewport | init, run, event poll and dispatch, syscalls | `app_tick` | confinement to the arena |
| device model (`device.c`) | permission bits per slot | grant, read, write | launch, retire, syscalls | no capability outlives its holder |
| touch (`touch.c`, `kmain.c`, `calib.c`) | run of samples, press, last tap, owner of the touch | sample, route, tap, close, calibrate | touch task | one tap does one thing, to what was under it |
| job queue (`job.c`) | one pending job | submit, service | UI, network task | one job at a time |
| persistent records (`store.c`, `flash.c`, ...) | record in RAM and in a sector | load, set, save, defer | many tasks, the panic path | a reset never yields a wrong record |
| WiFi adapter (`wifi_osi_impl.c`) | semaphores, queues, events, timers | the vendor driver's OS interface | driver tasks | the FreeRTOS contract the driver expects |
| vendor bridge (`blobcall.c`, `blob.c`, `phyinit.c`) | a recursive lock, saved depths, loader and calibration state | call, unlock all, relock, wait, load, calibrate | shell, net task, driver tasks | one context in vendor code; calibrated once |
| WiFi view (`wifiapp.c`) and its records | state, list, job, passphrases, keys | scan, ask, join, forget, toggle, sweep | touch task, net task | what it shows and keeps is what happened |
| MAC driver (`wifimac.c`) | descriptor list, transmit buffer, networks | bring up, receive, recycle, beacon, probe | hardware, receive task, shell | no frame lost or rewritten |
| network (`net.c`, `webfetch.c`, `netdev.c`) | frame ring, one fetch | enqueue, drain, start, callbacks, time-outs | driver, net task, lwIP, programs, browser | a reply is whole and its asker's own |
| browser (`browser.c`, `html.c`) | text, links, lines, selection, history | render, wrap, scroll, tap, back | display, touch, net task, shell | a tap follows the link that was shown |
| audio and video (`pcm.c`, `mp3.c`, `vplay.c`, `player.c`, `vidlist.c`) | DMA ring, one media job, requests | write, poll, play, stop, pause, show | media, display, touch task, shell | samples in order; stop means silence |
| SD and FAT (`sd.c`, `spi3.c`, `fat.c`) | engine state, card state, two sector caches, open files | read, retry, mount, open, read, seek, list | every reader, under one lock | a byte read is the byte on the card |
| panel (`display.c`), views (`desktop.c`, `raycast.c`) | draw lock, window, transfers; active view, dirty marks, framebuffer | fill, blit, text, read, panic; frame, open, close | display and touch task, programs | pixels land in their own window; the screen shows the state |
| text entry (`keyboard.c`, `notes.c`, `term.c`, `messages.c`) | letter being cycled, document, saved messages, key queue | tap, save, send, reset | touch task, programs | what is typed is what is kept |
| panic, watchdog (`panic.c`, `watchdog.c`) | depth of panics, record, breadcrumb, feed window | fault, nest, record, feed, report | everything | the next boot says what happened |
| two-wire bus (`i2c.c`) | two open-drain lines, the slave | start, byte, acknowledge, stop | devices, shell, audio | a transfer is whole or says it is not |

They meet in four ways: shared tables guarded by critical sections (level-3
masking: task table, mutex, heap, mailboxes), shared tables guarded by nothing
(arena and application tables, task creation, the job slot), the mutex, and
wakes from interrupt handlers. What is hard is what the timer can do between any
two instructions that are not masked, and what the wrapping tick counter does to
every deadline. `PROJECT.json` lists the components with their status, and the
hazards, each at its line.

## Modules

| module | models |
|---|---|
| `Task` | `task.c` and the tick: the table, selection with ageing, sleep, wake, create |
| `Mutex` | `mutex.c` on top of `Task`; the specification of tasks that use both |
| `MutexOrder` | `Mutex` with the arrival order of waiters as a history variable |
| `MCMutex` | values of the constants of `Mutex` for TLC |
| `Allocator` | what `heap.h` promises, without a list |
| `Heap` | `heap.c`, shown to implement `Allocator` |
| `Apps` | `app.c`, `arena.c`, `ipc.c`, the permission table, the per-slot state of `vm.c` |
| `MCApps` | symmetry for `Apps` |
| `Store`, `Sd`, `Fat`, `Notes`, `Device`, `I2c`, `Vm` | `store.c`/`flash.c`; `sd.c`/`spi3.c`; `fat.c`; `keyboard.c`/`notes.c`/`term.c`/`messages.c`; `device.c`; `i2c.c`; `vm.c`/`vmarg.c` |
| `MCStorage` | the bench of the seven above |
| `Pcm`, `Media`, `Display`, `View` | `pcm.c`/`mp3.c`/`vplay.c`/`audio.c`; `player.c`/`vidlist.c`/`mp3.c`; `display.c`; `desktop.c`/`raycast.c`/`kmain.c`'s display task |
| `MCMedia` | their bench |
| `Tick`, `Irq`, `Crash`, `Touch`, `Net`, `Browser` | `timer.c`; `intr.c` and its two clients; `panic.c`/`watchdog.c`/boot; `touch.c`/`kmain.c`'s touch task/`calib.c`; `net.c`/`webfetch.c`/`netdev.c`; `browser.c`/`html.c` |
| `MCKernel` | their bench |
| `WifiApp`, `Blob`, `OsiWait`, `OsiClock`, `Mac`, `Radio` | `wifiapp.c`/`job.c`/the records; `blobcall.c`/`blob_lock_w.c`; `wifi_osi_impl.c` (objects, then timers and time); `wifimac.c`; `blob.c`/`phyinit.c`/`bt.c`/`appcpu.c` |
| `MCRadio` | their bench |
| `Facts` | lemmas about naturals, finite sets and remainders that the proofs share |
| `MutexProofs` | theorems about `Task` and `Mutex`: the lock, the sleeps, the ageing |
| `HeapProofs` | theorems about `Heap`, the refinement of `Allocator` included |
| `AppsProofs` | theorems about `Apps` and `Browser` |
| `StorageProofs` | theorems about `Store`, `Notes`, `Device`, `Vm`, `Sd`, `Fat` |
| `KernelProofs` | theorems about `Tick`, `Irq`, `Crash`, `Touch`, `Net`, `I2c` |
| `MediaProofs` | theorems about `Media`, `View`, `Display`, `Pcm` |
| `RadioProofs` | theorems about `Blob`, `Radio`, `OsiClock`, `OsiWait`, `Mac`, `WifiApp` |

### Task and Mutex

One variable per field of `task_t` that the properties tell apart; `call` says
inside which blocking call a task is, `deadline` is `task_sleep_armed`'s local
(equal to `wake_tick` whenever that is read), `target` the slot an unmasked
`task_wake` or `task_create` is about to store to. `due` and `held` are history.

Granularity follows `critical.h`. A critical section is one step. The level-3
vector (`Level3`: `timer_isr` if pending, handlers, `task_schedule`) runs to
completion and is one step that may fall between any two steps of a task, with
or without an advance of the clock, because `task_yield` can bring the comparator
forward. What is not masked is split: `task_wake` from task context tests, then
stores; `task_create_with_stack` scans, then publishes. `task_yield` needs no
action: it makes an interrupt come sooner, and one may come at any time anyway;
so a task that has parked itself can run on, exactly as the comment in
`task_sleep_armed` describes.

The scan order of the selection loop is `ScanPosition`; the loop's result is
characterised by `Selected` instead of being replayed. The clock is modulo
`TICK_MOD` and every comparison is the code's signed difference. Register frames,
stack guards and counters are left out; `task_boost` and `task_unboost` have no
caller; the vendor pin is compiled out (`BLOB_PIN_DISABLE`).

### Heap and Allocator

`hdr` maps an address to the header read there, so a free of any pointer at all
reads what the code would read. `heap_alloc` is two steps, because the test
against `g_total` is outside the critical section. Sizes and addresses wrap at
`ADDR_MOD`. Payload bytes are assumed not to imitate the magic words.

### Apps

Nothing in `app.c` or `arena.c` is masked, so launch, retire and tick are
sequences of steps and `pc` says where each task is. `Preempts` chooses between
the machine (any switch between steps) and one call at a time. Programs are
identified by `tenant`, a history variable, so that what a slot holds can be
compared with whom it belongs to. At boot the self-test has used every slot but
the last; the last slot's arena field is still 0, and arena 0 belongs to the
kernel's own VM task. That difference matters to one of the findings.

### The components of the benches

Each of these modules is closed over what it shares with the rest: the tasks,
the hardware and the callers it meets are in it, so it has its own initial
predicate and next-state relation (`StoreNext`, `SdNext`, ...), and its state is
named with a prefix of its own so that modules can stand side by side.

* `Store`. A save is checksum, erase, program; power may fail or the controller
  time out inside either of the last two, and what is then in the sector is a mix
  of new and blank words. `StorePreempts` lets a second task in between.
* `Sd`, `Fat`. The card answers idle bytes, a token, the block, its CRC. The engine
  can fail, be spoilt by a register transfer and be given up for the rest of the
  boot; a call that lost the engine is retried once on the registers. `Fat` reads
  through two one-sector caches, any read may fail. The volume is a set of constants: the
  allocation table, the chain of one file and of the directory, the directory's entries.
* `Notes`. The key that is being cycled, the keyboard's own field, the note, the
  terminal line, the messages in memory and in flash.
* `Device`. The table with its channels and operations, permissions, the bounce
  buffer, the card's block and the page body; the shell as a second caller.
* `Vm`. The arena holds any bytes, so any instruction can be anywhere. Words wrap.
  What an access touches is computed on mathematical integers and compared.
* `I2c`. One step per line change of the master; the slave reacts to the edges and
  may hold the clock. Bytes have `BYTE_BITS` bits. `h_clean` says that the transaction
  began on a free bus and no step of it has timed out.
* `Pcm`, `Media`. The ring, the writer and the engine that never stops; and who
  asked the media task for what. `a_ear` is history: what the engine has played, and
  whether a sample was old, out of order or skipped.
* `Display`, `View`. A primitive is lock, three commands, pixels, unlock; pixels carry
  who sent them and where they were meant to go. `View` is the display task's loop,
  step by step, against everything that changes what it should draw.
* `Tick`, `Irq`. The comparator on a wrapping cycle counter; the line table with the
  unmasked read-modify-write of the enable register as two steps.
* `Crash`. Boot, run, panic, hang; the record, the breadcrumb, the next boot's report.
* `Touch`. One sample is one pass of the touch task.
* `Net`, `Browser`. The ring, the net task's drain, the fetch and its callbacks from
  lwIP (external: connections answer, err, or stay silent); the page as tokens, the
  rows the panel shows, taps that translate back.
* `WifiApp`. The view's handlers (touch task), the job and the sweep (net task), the
  access point that answers or does not, and three records.
* `Blob`, `OsiWait`, `OsiClock`. The lock around vendor code with its depth given up
  and restored; the objects vendor tasks wait on, as loops of one-tick sleeps; the
  timer pool, the service task, the microsecond clock.
* `Mac`, `Radio`. The list of descriptors with the hardware as the other reader (`h_list`,
  a history variable, is that list written out; the code only has the links); the loader, the calibration, the driver's states, Bluetooth's boot, the second core.

A bench (`MCStorage`, `MCMedia`, `MCKernel`, `MCRadio`) puts several of them into one
run. The variable `unit`, chosen in the initial state, says which of them moves;
the others stay where they booted. Nothing is lost by that, because no module reads
another's variables, and nothing is claimed about two of them together. `VIEW Moving`
tells TLC to compare states by the moving component only. Every invariant mentions
the variables of one module. Where components really interact they are in one
module: the tick with the scheduler (`Task`), the mutex with the tasks (`Mutex`),
mail, grants, arenas and views with the programs (`Apps`), the job queue and the
records with the WiFi view, the fetch with both its clients, the panic path with
the record and the watchdog, the sound ring with both its players.

## Runs

| run | bounds | shows |
|---|---|---|
| `mutex_lock` | 3 workers (1 created later) + idle, 2 priority levels, recursion 2, spurious wakes by a task and by an interrupt, priority changes below, in and above the range | exclusion, lock accounting, no lost wakeup, the ageing bound |
| `mutex_sleep` | 2 workers + idle, clock of 6 ticks, naps of 1 and 5 (5 exceeds the clamp and becomes 2), all priorities, one task waking the others | sleeps end, grants are taken, no short sleep, no late sleeper, no wake slept through, across the wrap |
| `heap` | 152 bytes, both ends misaligned, two callers, sizes 0, 1, odd, unsplittable, whole heap, wrapping | list integrity, no leak, refinement of `Allocator` |
| `apps` | 2 slots, 3 arenas, 2 programs, both consoles, one call at a time | arenas, memory, mail, grants and views accounted for |
| `storage` | one record slot, two boots, a forced save after two refusals; blocks of 7 bytes, batches of 4, up to 4 idle bytes; sectors of 2 bytes or entries, clusters of 2 sectors; a file of 11 bytes on 3 clusters out of order, a directory of 2 clusters with a long name, a broken one and an orphan fragment; one handle and one iterator; notes of 4 and messages of 2 characters; transfers of 2 bytes; words of 8 values in a 4-byte arena | a power cut never yields a false record; a byte read is the card's; a listing is exact; notes are kept; devices answer with their own bytes; programs stay inside, and events are invisible to the code they interrupt |
| `media` | a ring of 3 buffers of 2 samples, up to a whole lap between polls, a song of 5 samples, a video of 2 pictures; two drawers, 3-pixel lines, a panic at any point; one 3D column | samples are heard in order and on time; stop means silence; pixels land in their window; the launcher is current |
| `kernel` | a counter of 28 cycles, ticks of 4; 3 faults, a window of 2 ticks; presses of 2 samples, double taps within 4 ticks; a slave of 2-bit bytes, writes of 1 and 2 bytes, reads of up to 2; a ring of 2 frames, 2 fetches, 1 retry; rows of 2 columns, 2 rows, 2 pages | ticks count time; the tick line is kept; the first fault is reported and a hang caught; touches are deliberate; bus transfers are whole; replies are whole; taps follow what is shown |
| `radio` | 2 networks, 2 passphrases, records of one entry, a sweep of 2 channels; 3 tasks in vendor code; a queue of 2; 2 timers; a ring of 3 descriptors; two starters that take turns | a forgotten key is forgotten and a start is answered; one context in vendor code; handles hold; timers and time are true; frames are kept; one calibration |
| `create_race` | two creators | violated: both take one slot |
| `handoff_order` | three workers | violated: lowest id, not longest waiting |
| `apps_preempted` | one launcher and the app-host task, preemption | violated: arena leaked by an early retirement |
| `event_inheritance` | one launcher, no preemption | violated: a handler survives into the next program |

Why the bounds are enough. Four slots give an owner, a granted task, a waiter and
a task outside the lock. Two priority levels with `TASK_AGE_TICKS` of 2 let
ageing overtake; the exact bound is proved for all values. A clock of six ticks
has a half range of three, so sleeps start at every distance from the wrap. The wakes of
`mutex_sleep` come from a task, so that a preemption between `task_wake`'s test and
its store meets a sleep; wakes from an interrupt are in `mutex_lock`, and the
proofs cover both. Seven blocks fit the heap, so a free has free neighbours on
either side, both, or neither. Two
slots and three arenas are the shipped relation `ARENA_MAX = APP_MAX + 1`, and
three blocks let a freed one be reused by another program. Blocks and programs are
interchangeable, so `MCApps` declares them symmetric; only invariants are checked
under that symmetry.

In the benches: a save, a power cut and a second boot are one loss and one recovery.
A block longer than a batch, with idle bytes before it, makes a token fall anywhere
in a batch. A lap of the ring between two polls is the case its poll cannot see. A
counter of seven ticks wraps with the deadline on either side. Three faults nest
twice. Two fetches and a ring of two let an old connection meet a new reply, and a
full ring. A list of three descriptors has a first, a middle and a last. Words of
eight values over a four-byte arena wrap in every sum of an offset and a length. Records
of one entry make every second network evict the first; a sweep of two channels goes
on after the list it was filling has been cleared. `MaxFrames`, `MaxBoots`,
`MaxIdle`, `MaxTaps`, `MaxLate`, `MaxHeld`, `MaxFaults`, `MaxTries`, `MaxFetches`,
`MaxTokens`, `MaxSent`, `MaxTime`, `MaxPosts`, `MaxHeard`, `MaxBtBoots` and `MaxRead`
are bounds of the models and not of the code; a behaviour that reaches one stops,
which is why the benches do not look for deadlocks.

Seven constants choose an environment. The benches check the one the code's comments
reason from; with the other value the property named is violated, and the section
after the next tells how: `StorePreempts` (`RecordSurvives`), `DiagnosticsShare`
(`SectorsArrive`), `ShellUsesSd` (`BytesAreTheDevices`), `SemSlotsRecycled`
(`HandlesHold`), `TakeTurns` (`CalibratedOnce`), `TapsOutrunFrames` (`PageIsTrue`),
`ClockReaders` with the interrupt handler (`TimersAreTrue`).

`NobodyHalfRangeLate` is the one bound that limits behaviour: the clock does not
advance while some sleeper is a half range (248 days) past its deadline without
having run. No comparison of wrapping ticks can be right beyond it.

Fairness (`FairSpec`): the scheduler is entered again and again, with the clock
advancing when the bound allows it, because the comparator is always re-armed; and
a task that is given the CPU again and again inside a sleep or lock loop completes
a pass, because a pass is some dozens of cycles and a tick is 10 ms. Strong
fairness is used for passes, since a pass is disabled each time the task is
switched out. Nothing is assumed of tasks outside kernel loops: the most urgent
may never sleep and a holder may never unlock. That is why `GrantIsTaken` is about
granted locks and there is no property that every locker gets in. The benches check
safety only; what must end there (a start is answered, a hang is caught, a fetch
times out) is stated as a bound or as what must hold when the waiting is over.

## Findings

The four `violation` runs are disagreements between the code and what it says of
itself; `PROJECT.json` quotes both sides. Two of them (`create_race`,
`apps_preempted`) need a timer tick inside a window of unmasked code. The other
two do not. `apps_preempted` also explains why the `apps` run fixes `Preempts` to
FALSE: its properties are those of calls that do not overlap, which is how the
code's comments reason. Under preemption grants and mail have the same window.

## What the code does not keep

The modules of the benches also state, under the heading "What the code does not
keep", properties a reader would expect and TLC refutes. They are in no run; each
is one line to add to the bench's configuration, except that three need a larger
instance to fail: `BodyIsReadable` (`BodyMax = 9`), `LockIsGivenBack` (`MaxHeld = 2`)
and `BtBootsOnce` (`MaxBtBoots = 2`). In the order of the modules:

* `Store`: `NothingHalfBelieved`: the checksum covers the header and not the slots
  (`store.c:19`), so a record torn in its slots loads as valid. `FramesAreSaved`:
  `store_set_frames` does not mark the record dirty (`store.c:146`), so the periodic
  save (`kmain.c:1594`) returns without writing the count it has just set. With `StorePreempts` a slot changes between checksum and program.
* `WifiApp`: `JoinedIsTrue`: the access point can drop us between the connected callback
  and the end of the join job, and the view still says joined. `OffStaysOff`: with the
  switch turned off while the radio starts, a scan and an entered passphrase still hand
  a join job over, because those handlers do not look at the switch. `KeyMatchesPass` has three
  exceptions, in each of which a cached key does not fit the saved passphrase: forgetting
  a network does not reach a join job under way (`wifiapp.c:1228`); evicting a passphrase
  leaves its derived key; and a join is queued as a row number (`wifiapp.c:767`), so when
  the switch clears the list under a sweep that then refills it, the job tries and caches
  the passphrase of the network that was in the row under the one that is. A sweep of one
  channel cannot show the third: it came out of the proof, whose invariant failed at
  `ToggleRadio`.
* `Sd`: with `DiagnosticsShare`, the shell's `spidma` and `spitest` run inside a read.
  A DMA failure in the stop command leaves the card streaming (`sd.c:630`).
* `Fat`: a cluster chain whose link cannot be read ends like a file that ends
  (`fat.c:186`); a mount from the shell clears the volume without the lock.
* `Pcm`, `Media`: `pcm stop` during a song leaves `queue` looping on a stopped ring
  until the job is stopped (`mp3.c:316`); a stop pressed as a song ends is ignored.
* `Blob`: `WaitingLetsOthersIn`: a driver task holds the lock twice, once for its own
  entry and once through the call, and the adapter's waits release one level, so it
  still owns the lock while it waits. The
  identity a windowed wait uses is a global that is announced before the lock is
  taken back.
* `OsiWait`: with `SemSlotsRecycled` a semaphore starts with the recursion count of
  the mutex that had its slot. The bridge puts the third argument of a call into the
  register of the fourth, so a queue's `to_front` is the sender's time-out.
* `OsiClock`: `NotEarly`: a delay is said to be rounded up to a tick and is truncated
  (`wifi_osi_impl.c:855`). With the interrupt handler as a second reader the clock
  goes backwards.
* `Mac`: `BufferIsNotRewritten`: a frame given up after `TX_MAX` ticks may still be on
  the air when its buffer is filled again (`wifimac.c:993`).
* `Radio`: `BtBootsOnce` (`bt.c:488`): the state stays idle until the first boot
  task ends, so a second `bt` after the shell's wait timed out starts another.
  `CaptureIsSafe`: the second core has read the buffer's pointer when the trace is
  disarmed and the buffer freed (`appcpu.c:86`). Without `TakeTurns` two starters calibrate.
* `Tick`: `RescueRearms`: when a yield pulled the comparator forward and the match passed
  while masked, the rescue on leaving the section tests the deadline, which is still
  ahead, and leaves the comparator in the past; the PHY's own critical section has no
  rescue at all. `Irq`: `EitherOrderWorks`: a line enabled
  before its handler is set asserts for ever and no task runs.
* `Crash`: `RecordedIsReported`: a fault before the record is loaded is written over a
  record without a good magic or checksum; the panic screen says it was recorded and
  the next boot rejects it. `HangIsReported`: the breadcrumb is printed only when a fault
  record exists (`kmain.c:2103`), so a watchdog reset with no earlier fault prints nothing.
* `Touch`: `ClosingSelectsNothing`: after the corner contact has closed a program, the next
  sample of the same contact is a new press for the launcher and moves its selection.
* `Net`: `OneContext`: the stack is said to be entered from one context (`webfetch.h:69`), and
  the shell's `dhcp` enters it while the net task runs its timers. `Device`:
  `BodyIsReadable`: the net device has four channels, so of a page only the first
  4 * `DEVICE_XFER_MAX` bytes can be read (`netdev.c:36`).
* `Browser`: `LinksAreApart`: a break removes trailing spaces a link already covers
  (`html.c:69`), so a later link starts before the earlier one's end. `ScrollIsWithin`:
  a page that is rendered again and gets shorter leaves the scroll offset beyond its
  end, a blank view (`browser.c:283`).
* `Display`: `OneSpanIsLost`: a DMA time-out drops its span while the window stays open,
  so the following pixels of that window land displaced (`display.c:788`).
* `View`: `LockIsGivenBack`: `fb on` typed in the middle of a frame drawn column by
  column makes the frame end without the unlock it owes (`raycast.c:479`); the panel
  then stays with the display task. `BufferIsOurs`: `fb off` frees the buffer a frame
  is still writing. `BarIsDrawn`: the title bar is asked for before the region is
  cleared (`desktop.c:752`). `CrossIsVisible`: a frame in flight paints over the
  calibration cross.
* `I2c`: `BusRecovers`: after a time-out the stop condition does not free a slave that
  is driving the data line, and nothing clocks it out.
* `Notes`: a note longer than a message is cut without a word (`messages.c:101`), and a
  save that fails has already dropped the oldest message.

## Proofs

Seven modules, over the lemmas of `Facts`, prove 38 of the 40 properties of the passing
runs, all that are not liveness, and `TypeOK` of `Mutex`, for every value of the constants that the named
assumptions of the component modules admit. Where a theorem needs one of the
environments listed under Runs, its statement says so (`ASSUME ~Preempts`).
Each rests on an inductive invariant: what is proved of it is that the initial states
have it, that every action keeps it, one lemma or step per action, and that it implies
the property.

The lock and the sleeps (`MutexProofs`):

* `TypeCorrect`: `TypeOK` is inductive as it stands, so it is in no run.
* `MutualExclusion`, `LockNeverLost`, `BlockedIsListed`, `ParkedStaysInside` and
  `WakesAreKept` come from one invariant, `LockInv`. None of the five is inductive
  alone. Exclusion needs that a granted task is still inside `mutex_lock` (otherwise it
  could lock again and count a recursion), which needs that nothing but
  `mutex_lock` ends call "lock", which needs that no slot is recreated under a
  live task. `TableInv` ties `call` to `state` and says that the running task, if
  it has parked itself, is not yet due and has no wake recorded: this is what
  keeps it in the loop until the armed tick arrives. These theorems assume
  `SingleCreator`: at most one task creates tasks at run time. Without it
  `create_race` is a counterexample.
* `WaitIsBounded` rests on `AgeInv`. Once a task has waited
  `LEVELS * AGE_TICKS` entries, whoever is chosen over it must have waited at least
  `AGE_TICKS` itself, so it is not one of the tasks that ran recently; after `k`
  more entries `k` different tasks have run, and there are only `TASK_MAX - 2`
  others. It needs `TASK_AGE_TICKS >= TASK_MAX - 2` (30 against 11 in the shipped
  build) beside the `_Static_assert` of `task.h`.
* `SleepersArePunctual` and `NoSleepIsShort` rest on `SleepInv`: the deadline is
  the clock plus `due`, modulo the range, and `due` stays within half of it, which
  makes the signed comparison exact. Same assumption on creators.

The heap (`HeapProofs`):

* `HeapIsSound`. `HeapInv` says that the headers form a chain from the first address of
  the region to its end, each block ending where its successor begins, that no two
  neighbours are free, and that `g_total` and `g_used` are the sums over the chain and
  over its used blocks. The sums are folds; the lemmas about them say what a split, a
  join and a change of one header do to a sum. A size that passes the test outside the
  critical section is at most the region, so aligning it does not wrap.
  `HeapAssumption` has what the linker script guarantees: `_heap_start` is not the null
  address and rounding it up does not wrap.
* `HeapImplementsAllocator`: under the mapping in `Heap`, an allocation is the
  allocator's, on a stretch that overlaps no live one (from the chain), a free of a live
  block its release, and every other call, a free of any other pointer included, a
  refusal or no step.

Programs (`AppsProofs`), all four under `~Preempts`:

* `AppsInv` says at most one task is inside a call, and describes the tables at each
  step of that call (`Doing`): which arenas and blocks are accounted for by the running
  programs, which one by the call itself, and what of the slot has been cleared.
  `ArenasStayAccounted`, `ProgramsRunInOwnMemory`, `NothingIsInherited` and
  `ViewsStayAgreed` are what it says when no call is under way or when the interpreter
  runs. With preemption `apps_preempted` is a counterexample.

The pages (`AppsProofs` too):

* `PageStaysTrue`, under `~TapsOutrunFrames`. `BrowserInv`: once everything that changed
  has been drawn, the link a place maps back to is the one drawn there (`ShownKept`); while
  something is selected it is what the first tap saw (`SelectedKept`); and the text never
  has a break behind a blank or another break (`ReaderGood`). That every letter of such a page is then on exactly one row no wider than the panel is
  `RowsGood`, by induction from the end of the text: the layout and the loop over the
  document are recursive functions, so the lemmas first show that they exist
  (`SetInduction` on the set of lengths for which a function with those equations does)
  and then that the rows from any offset on cover the letters behind it once.
* `AnyDocumentIsReadable`: the same of the reader alone, over every sequence of tokens and
  not only the pages in `Bodies`.

Records, notes, devices and the interpreter (`StorageProofs`):

* `RecordsSurvive`, under `~StorePreempts`. `StoreInv` follows the sector through a save:
  blank after the erase, the record after the last chunk. The checksum is in the last
  chunk, so a sector cut short is refused.
* `NotesAreKept`. While nothing was full, the note is the one meant and the letter being
  cycled is its last; otherwise a tap would replace another.
* `TransfersAreTheDevices`, under `~ShellUsesSd`. What is loaded is the block the cursor
  names unless a seek is under way, and a seek is one program's.
* `ProgramsStayInside`, `EventsAreTransparent`. The bounds checks of `vm.c` and `vmarg.c`
  are lemmas over all words: an access they let through touches only bytes of the
  arena, though the sum of offset and length may wrap. A handler's return addresses lie
  above those of the code it interrupted, which no return inside it can reach.
* `SectorsAlwaysArrive`, under `~DiagnosticsShare`. `SdInv` says where the stream is at
  each point of a read: between the CRC of one block and the token of the next, or
  behind a token whose first bytes were carried over (`TokenAt`); as many bytes into the
  block as came with its token (`DataAt`). The lemmas place every byte of the stream
  (`ByteIs`) and show that the rounding to a word takes up to three bytes past the CRC,
  which are idle or the next block's token and its first two (`OverIs`): hence
  `SD_BLOCK_SIZE >= 2` in `SdAssumption`; it is 512. `Delivered` says which blocks are in
  the caller's buffer and which one still waits in staging, where two blocks in a row use
  different buffers. An attempt fails only when it cost the engine, which happens at
  most once a call, or by the card's fault (`FailureKept`).
* `FilesReadBack`. `FatInv`: each cache holds the sector its tag names (`CachesOK`); an open
  file none of whose reads has failed is at the cluster of its chain that its position lies
  in, where a position at the end of a cluster belongs to that one, and a seek under way is as many links short of
  its target as it has still to follow (`FilesOK`); an iterator has
  returned exactly the files of the entries behind it, and the name it holds is the run of
  matching fragments that ends there (`ItersOK`). `FatAssumption` describes a sound volume
  of any size: the two chains are chains of the table, the size lies within the file's, the
  entries fill the directory's clusters.

The kernel's clock, lines, faults, touches and replies (`KernelProofs`):

* `ClockIsTime`. The deadline is never more than an interval ahead nor longer gone than
  the last tick, and the cycles not yet counted make up an interval with what is left.
  `TickAssumption` asks that two intervals fit the watchdog's window and that window,
  with an interval, half the counter.
* `TickLineKept`. The property is inductive with its types: both halves of the unmasked
  read and write leave the tick's bit as it is, because they are the tick's own or of
  another line.
* `FaultsAlwaysSurface`. The promised fault is in flash from its record to its report;
  a hung system has been fed at most for the window and the pin it hung under
  (`Unfed`).
* `TouchesAreDeliberate`. A contact that has acted is as long as a press, and is where it
  cannot act again.
* `RepliesAreWhole`. The frames waiting are numbered from the tail on without a gap,
  modulo the ring (`Filled`); one task drains, across the handover (`Turn`); every
  connection that can bring bytes is the last fetch's (`Ours`), until an old
  connection's error has hit a newer one.
* `TransfersAreWhole`. `InStep` relates the two ends at every step of a clean transaction:
  given the operation, its step and the bit the master clocks (`Together`), it says what
  the slave is doing, the bits it has of the current byte, the bytes it has got or sent
  before, and who may hold the data line. For every address, byte width, buffer and
  read count of `I2cAssumption`.

Media, views and the panel (`MediaProofs`):

* `PlayerAlwaysObeys`. While a stop is to be obeyed, the job in hand is a stopped one and
  no task is on its way to start another.
* `LauncherStaysCurrent`. While nothing under way ends by marking the launcher dirty, the
  panel is right as far as the frame being painted has got.
* `PixelsStayInTheirWindow`. The draw lock is with whoever is inside a primitive or a
  batch, and its depth counts the two (`LockKept`); the controller's stream, the line
  buffer and what the engine still has to send are that task's (`StreamKept`), or the
  panic screen's.
* `SoundIsAsDecoded`, for every ring, song, video and lateness. While nothing has gone wrong
  (`Clean`: running, no underrun, no blind gap, not cut from the shell), what has been
  written since the start is one stream, a ring of silence, samples `base + 1` to `base + m`
  and `z` more of silence (`StreamOK`). The ring holds the last `Ring` positions of it; the
  writer's index and the engine's, which are known modulo the ring only, agree with the
  counts; what was heard is a prefix of it; and what the loop still has to write continues
  it. A poll less than a lap after the last counts exactly the buffers that passed, which is
  why the gap test of `pcm_poll` is needed.

The radio (`RadioProofs`):

* `VendorCodeExclusive`. `LockKnown` says, of each task, that it has the lock at the depth
  it believes, except while it is away in a wait, when what it gave up is remembered
  under its own name.
* `PhyCalibratedOnce`, under `TakeTurns`. The flag is set before the calibration and the
  image is in place for whoever calibrates.
* `TimersStayTrue`, while one task reads the clock. A timer has one slot; a reading is
  bounded by the pair of tick and cycle count in force.
* `HandlesAlwaysHold`, under `~SemSlotsRecycled`. Holds, count, owner and depth of a mutex
  are tied together (`SemInv`); the ring, unrolled, is the line of messages sent and not
  received, or a permutation of it once senders have waited (`QueueInv`).
* `FramesAlwaysKept`. The links spell out `h_list` (`Threaded`), which with the descriptor
  in hand names every descriptor once (`AllThere`); its first entries hold the frames
  that follow the last one read (`FilledUpTo`); and the hardware is at the first empty
  one, or has stopped behind the last full one, where the driver will restart it
  (`HwFollows`).
* `JoinsKeepFaith`. Unless one of the three exceptions has happened, every cached key has
  a saved passphrase that it fits, and a join that is queued or taken will find in its
  row a network whose passphrase is `g_pass`, or whose key is cached already
  (`FaithKept`); the latter is the connected network, which the view lists by itself.
  `StartKept` says that while a start is outstanding there is no list, no sweep and no
  connection.

Induction over numbers and finite sets is done in its set form: `LeastNat`,
`SetInduction` and `SubsetInduction` of `Facts` derive it from the well-foundedness of
finite subsets, with a set in the place of a predicate.

Only model-checked: the two liveness properties, `SleepEnds` and `GrantIsTaken`, which need
the fairness of `FairSpec` and are out of the prover's reach. That what the violation runs
show can happen is TLC's to show, too.

## Plan

The modules of the first plan are written and their safety properties proved. Next, in
this order:

1. Compositions across benches: `Store` under the panic path of `Crash` (the record
   written while a save is under way), `Blob` under `OsiWait` (a wait gives the lock
   up), `Touch` in front of `View`.
2. Liveness in the benches: a fetch ends, a start is answered, a save is made, under
   fairness of the net task, the service task and the tick.

## Not modelled

* Register windows, stack switching and the boot assembly (`window.S`, `vectors.S`,
  `start.S`, `appcpu.S`): machine state below the level of the models. The faults they
  can cause are the arbitrary faults of `Crash`.
* Rendering, fonts, colours, layout, console text and the shell's reports: output
  that no component reads. Of the shell's commands, those that change state are
  actions of the component they change; the diagnostics that print, and the register
  experiments for the radio bring-up, are left out.
* Numeric code: the MP3 decoder, the picture conversion, the ray caster's geometry,
  calibration arithmetic, the HMAC of the key derivation. None of it branches on
  shared state.
* Peripheral register sequences without a protocol (`adc.c`, `uart.c`, `clock.c`,
  `efuse.c`), the card's identification and the speed probes of `spi3.c`.
* The parsing of 802.11 and HCI frames in `wifimac.c` and `bt.c`: it prints or fills a
  table; the table and its limit are in `Mac`.
* `tcpsrv.c` (an echo server for tests), `wincollide.c`, `wpareport.c`, `htmltest.c`
  (diagnostics), the host tools, lwIP and the vendor's libraries.
