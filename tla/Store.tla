------------------------------- MODULE Store --------------------------------
(* The persistent record of store.c in one flash sector (flash.c): the save as *)
(* checksum, erase, program, with preemption between the three and a power cut  *)
(* or a controller timeout inside any of them.                                  *)
EXTENDS Integers, FiniteSets

CONSTANTS
    SlotVals,           \* what a program may store
    STORE_DEFER_MAX,    \* refusals before a save is forced
    StorePreempts,      \* TRUE: a tick may fall inside store_save
    MaxFrames, MaxBoots \* bounds on the two counters

\* 132 bytes are programmed 60 at a time: the header, all but two of the slots,
\* those two with the checksum behind them.
Slots  == {"mid", "last"}   \* one slot of each of the last two chunks
Header == {"boots", "frames", "fault", "cal"}
Chunks == 1 .. 3
Fields == Header \cup Slots \cup {"sum"}
ChunkOf(f) == IF f \in Header THEN 1 ELSE IF f = "mid" THEN 2 ELSE 3

ASSUME StoreAssumption ==
    /\ SlotVals \subseteq Nat
    /\ STORE_DEFER_MAX \in Nat \ {0} /\ StorePreempts \in BOOLEAN
    /\ MaxFrames \in Nat /\ MaxBoots \in Nat

BLANK == -1     \* erased
MIXED == -2     \* bits of two records, or of one half erased

VARIABLES
    g_rec,          \* the record in RAM
    s_flash,        \* the sector
    g_dirty,
    g_defer_run,
    g_refuse,       \* a predicate that says no is registered
    s_on,           \* who may run: "off", "boot", "run", "panic"
    s_pc,           \* how far each caller is inside store_save
    s_ok,           \* history: the last store_save to end returned 0
    s_head          \* history: the header store_save last programmed to the end

stVars == <<g_rec, s_flash, g_dirty, g_defer_run, g_refuse, s_on, s_pc, s_ok, s_head>>

\* "display": the render loop's periodic save; "apps": a program's commit through
\* the store device; "touch": the end of a calibration.
Callers == {"boot", "display", "apps", "touch", "panic"}
MayRun(c) == CASE s_on = "boot"  -> c = "boot"
               [] s_on = "run"   -> c \in {"display", "apps", "touch"}
               [] s_on = "panic" -> c = "panic"
               [] OTHER          -> FALSE
Saving(c) == s_pc[c] # "idle"
\* With StorePreempts FALSE nothing of the store runs while a save is under way.
Idle(c) == /\ MayRun(c) /\ ~Saving(c)
           /\ StorePreempts \/ \A d \in Callers : ~Saving(d)

checksum(r) == r["boots"] + r["frames"] + r["fault"] + r["cal"]

Defaults == [f \in Fields |-> 0]
\* Mutant: the checksum is not compared.
Accepts_unsummed(fl) == \A f \in Header : fl[f] >= 0

Accepts(fl) == /\ \A f \in Header : fl[f] >= 0
               /\ fl["sum"] = checksum(fl)

StoreInit ==
    /\ g_rec = Defaults /\ s_flash = [f \in Fields |-> BLANK]
    /\ g_dirty = FALSE /\ g_defer_run = 0 /\ g_refuse = FALSE
    /\ s_on = "off" /\ s_pc = [c \in Callers |-> "idle"]
    /\ s_ok = FALSE /\ s_head = [f \in Header |-> BLANK]

\* kmain: store_load, or its defaults branch, then store_count_boot.
store_load ==
    /\ s_on = "off"
    /\ \E r \in {Defaults} \cup (IF Accepts(s_flash) THEN {s_flash} ELSE {}) :
         /\ r["boots"] < MaxBoots
         /\ g_rec' = [r EXCEPT !["boots"] = @ + 1]
    /\ s_on' = "boot"
    /\ UNCHANGED <<s_flash, g_dirty, g_defer_run, g_refuse, s_pc, s_ok, s_head>>

-----------------------------------------------------------------------------
(* store_save *)

\* The first line of store_save, on the record as the caller left it.
BeginSave(c, r) ==
    /\ g_rec' = [r EXCEPT !["sum"] = checksum(r)]
    /\ s_pc' = [s_pc EXCEPT ![c] = "summed"]

SaveFails(c) == /\ s_pc' = [s_pc EXCEPT ![c] = "idle"]
                /\ s_ok' = FALSE
                /\ s_on' = IF c = "boot" THEN "run" ELSE s_on
                /\ UNCHANGED <<g_rec, g_dirty, g_defer_run, g_refuse, s_head>>

\* An erase that is cut short leaves some chunks as they were.
HalfErased(kept) == [f \in Fields |-> IF ChunkOf(f) \in kept THEN s_flash[f] ELSE MIXED]

flash_erase_sector(c) ==
    /\ MayRun(c) /\ s_pc[c] = "summed"
    /\ \/ /\ s_flash' = [f \in Fields |-> BLANK]
          /\ s_pc' = [s_pc EXCEPT ![c] = "erased"]
          /\ UNCHANGED <<g_rec, g_dirty, g_defer_run, g_refuse, s_on, s_ok, s_head>>
       \* WREN failed, or the chip stayed busy past the timeout
       \/ /\ s_flash' = s_flash \/ s_flash' = [f \in Fields |-> BLANK]
          /\ SaveFails(c)

\* Programming can only clear bits: over anything but an erased cell or the same
\* value it leaves bits of both.
spi1_xfer(old, new) == IF old \in {BLANK, new} THEN new ELSE MIXED

\* The first n chunks of the record in RAM programmed, in address order.
Programmed(n) == [f \in Fields |-> IF ChunkOf(f) <= n THEN spi1_xfer(s_flash[f], g_rec[f])
                                                      ELSE s_flash[f]]
flash_write(c) ==
    /\ MayRun(c) /\ s_pc[c] = "erased"
    /\ \/ /\ s_flash' = Programmed(3)
          /\ s_pc' = [s_pc EXCEPT ![c] = "written"]
          /\ s_head' = [f \in Header |-> g_rec[f]]
          /\ UNCHANGED <<g_rec, g_dirty, g_defer_run, g_refuse, s_on, s_ok>>
       \/ \E n \in 0 .. 2 : s_flash' = Programmed(n) /\ SaveFails(c)

store_save(c) ==
    /\ MayRun(c) /\ s_pc[c] = "written"
    /\ g_dirty' = FALSE /\ s_ok' = TRUE
    /\ s_pc' = [s_pc EXCEPT ![c] = "idle"]
    /\ s_on' = IF c = "boot" THEN "run" ELSE s_on
    /\ UNCHANGED <<g_rec, s_flash, g_defer_run, g_refuse, s_head>>

-----------------------------------------------------------------------------
(* Who saves, and when *)

BootSave == /\ s_on = "boot" /\ Idle("boot") /\ BeginSave("boot", g_rec)
            /\ UNCHANGED <<s_flash, g_dirty, g_defer_run, g_refuse, s_on, s_ok, s_head>>

\* Once a minute the render loop adds its frames and asks for a save.
store_save_if_allowed ==
    LET r == [g_rec EXCEPT !["frames"] = @ + 1] IN
    /\ Idle("display") /\ g_rec["frames"] < MaxFrames
    /\ \/ /\ ~g_dirty
          /\ g_rec' = r /\ UNCHANGED <<g_defer_run, s_pc>>
       \/ /\ g_dirty /\ g_refuse /\ g_defer_run + 1 < STORE_DEFER_MAX
          /\ g_defer_run' = g_defer_run + 1
          /\ g_rec' = r /\ UNCHANGED s_pc
       \/ /\ g_dirty /\ ~(g_refuse /\ g_defer_run + 1 < STORE_DEFER_MAX)
          /\ g_defer_run' = 0 /\ BeginSave("display", r)
    /\ UNCHANGED <<s_flash, g_dirty, g_refuse, s_on, s_ok, s_head>>

\* storetest registers its predicate and takes it away again.
store_set_may_save == /\ s_on = "run" /\ Idle("apps")
                      /\ g_refuse' = ~g_refuse
                      /\ UNCHANGED <<g_rec, s_flash, g_dirty, g_defer_run, s_on, s_pc, s_ok, s_head>>

store_slot_set(s, v) ==
    /\ Idle("apps")
    /\ g_rec' = [g_rec EXCEPT ![s] = v]
    /\ g_dirty' = (g_dirty \/ g_rec[s] # v)
    /\ UNCHANGED <<s_flash, g_defer_run, g_refuse, s_on, s_pc, s_ok, s_head>>

\* A write to the commit channel saves now.
store_dev_write ==
    /\ Idle("apps") /\ BeginSave("apps", g_rec)
    /\ UNCHANGED <<s_flash, g_dirty, g_defer_run, g_refuse, s_on, s_ok, s_head>>

calib_persist ==
    /\ Idle("touch") /\ g_rec["cal"] = 0
    /\ BeginSave("touch", [g_rec EXCEPT !["cal"] = 1])
    /\ UNCHANGED <<s_flash, g_dirty, g_defer_run, g_refuse, s_on, s_ok, s_head>>

\* A panic masks interrupts for good: whatever was being saved stays where it is.
store_record_fault ==
    /\ s_on = "run" /\ s_on' = "panic"
    /\ StorePreempts \/ \A d \in Callers : ~Saving(d)
    /\ BeginSave("panic", [g_rec EXCEPT !["fault"] = 1])
    /\ UNCHANGED <<s_flash, g_dirty, g_defer_run, g_refuse, s_ok, s_head>>

PowerCut ==
    /\ s_on # "off" /\ s_on' = "off"
    /\ \/ s_flash' = s_flash
       \/ /\ \E c \in Callers : MayRun(c) /\ s_pc[c] = "summed"
          /\ \E kept \in SUBSET Chunks : s_flash' = HalfErased(kept)
       \/ /\ \E c \in Callers : MayRun(c) /\ s_pc[c] = "erased"
          /\ \E n \in 0 .. 2 : s_flash' = Programmed(n)
    /\ g_rec' = Defaults /\ g_dirty' = FALSE /\ g_defer_run' = 0 /\ g_refuse' = FALSE
    /\ s_pc' = [c \in Callers |-> "idle"] /\ s_ok' = FALSE
    /\ UNCHANGED s_head

StoreNext == \/ store_load \/ BootSave \/ store_save_if_allowed \/ store_set_may_save
             \/ \E s \in Slots, v \in SlotVals : store_slot_set(s, v)
             \/ store_dev_write \/ calib_persist \/ store_record_fault \/ PowerCut
             \/ \E c \in Callers : flash_erase_sector(c) \/ flash_write(c) \/ store_save(c)

StoreSpec == StoreInit /\ [][StoreNext]_stVars

-----------------------------------------------------------------------------
(* Properties *)

NoSaveUnderWay == s_on = "run" /\ \A c \in Callers : ~Saving(c)

\* The counters, the fault and the calibration of a record store_load would accept
\* are those of the record last programmed to its end: no power cut and no failed
\* erase makes it believe a header nobody saved.
HeaderIsWhole == Accepts(s_flash) => [f \in Header |-> s_flash[f]] = s_head

\* After a store_save that returned 0 the sector holds an acceptable record, and
\* whatever slot differs from it is announced by store_dirty.
SavedIsDurable ==
    (NoSaveUnderWay /\ s_ok) =>
        /\ Accepts(s_flash)
        /\ (\E s \in Slots : s_flash[s] # g_rec[s]) => g_dirty

\* The record across saves, failures and resets (store.c): the fields its checksum
\* covers are whole, and what a save reported is what the next boot loads.
RecordSurvives == HeaderIsWhole /\ SavedIsDurable

(* What the code does not keep: the README tells each counterexample.         *)
\* store.h: a record torn by a reset is rejected rather than half-believed. A
\* record store_load would accept has no field of an erased or mixed chunk.
NothingHalfBelieved == Accepts(s_flash) => \A f \in Fields : s_flash[f] >= 0

\* kmain.c: the periodic call is store_save with an extra branch. When it has
\* returned without a refusal, the frames it was called to save are in the sector.
FramesAreSaved ==
    [][ (store_save_if_allowed /\ s_ok /\ ~g_refuse /\ s_pc' = s_pc)
           => s_flash'["frames"] = g_rec'["frames"] ]_stVars
=============================================================================
