--------------------------- MODULE StorageProofs ----------------------------
(***************************************************************************)
(* Proofs about what programs keep and where they run: the records in flash,*)
(* the notes, the bytes of a device, the virtual machine's arenas and windows,*)
(* the event handlers, the blocks of the card and the files on it.         *)
(***************************************************************************)
EXTENDS Store, Notes, Device, Vm, Sd, Fat, Facts, SequenceTheorems, TLAPS

-----------------------------------------------------------------------------
(* The persistent record, when nothing runs inside store_save.              *)

Cells == Nat \cup {BLANK, MIXED}

\* A record in RAM: the slots of one that was loaded may be of a torn chunk, the header not.
Records == {r \in [Fields -> Cells] : \A f \in Header : r[f] \in Nat}

StoreTyped ==
    /\ g_rec \in Records
    /\ s_flash \in [Fields -> Cells]
    /\ g_dirty \in BOOLEAN /\ s_ok \in BOOLEAN
    /\ s_on \in {"off", "boot", "run", "panic"}
    /\ s_pc \in [Callers -> {"idle", "summed", "erased", "written"}]

\* Where the sector stands while one caller is inside store_save, and after it.
StoreInv ==
    /\ StoreTyped
    /\ \A c, d \in Callers : Saving(c) /\ Saving(d) => c = d
    /\ \A c \in Callers : Saving(c) => MayRun(c) /\ g_rec["sum"] = checksum(g_rec)
    /\ \A c \in Callers : s_pc[c] = "erased" => s_flash = [f \in Fields |-> BLANK]
    /\ \A c \in Callers : s_pc[c] = "written" => s_flash = g_rec
    /\ HeaderIsWhole
    /\ SavedIsDurable
    /\ s_on \in {"off", "boot"} => ~s_ok

LEMMA StoreFields ==
    /\ Header \subseteq Fields /\ Slots \subseteq Fields /\ "sum" \in Fields
    /\ "boots" \in Header /\ "frames" \in Header /\ "fault" \in Header /\ "cal" \in Header
    /\ \A f \in Fields : f \in Header \/ f \in Slots \/ f = "sum"
    /\ "sum" \notin Header /\ "sum" \notin Slots
    /\ \A f \in Header : f \notin Slots /\ ChunkOf(f) = 1
    /\ ChunkOf("sum") = 3 /\ \A f \in Fields : ChunkOf(f) \in Chunks
  BY DEF Fields, Header, Slots, ChunkOf, Chunks

\* The checksum of a header that is there is a number, and depends on the header alone.
LEMMA ChecksumOf ==
    ASSUME NEW r, \A f \in Header : r[f] \in Nat
    PROVE  checksum(r) \in Nat
  BY StoreFields DEF checksum

LEMMA ChecksumSame ==
    ASSUME NEW r, NEW q, \A f \in Header : r[f] = q[f]
    PROVE  checksum(r) = checksum(q)
  BY StoreFields DEF checksum

\* A sector without its last chunk is not accepted.
LEMMA UnsummedRefused ==
    ASSUME NEW fl, fl \in [Fields -> Cells], fl["sum"] \notin Nat
    PROVE  ~Accepts(fl)
  <1>1. SUFFICES ASSUME Accepts(fl) PROVE FALSE
    OBVIOUS
  <1>2. \A f \in Header : fl[f] \in Nat
    BY <1>1, StoreFields DEF Accepts, Cells, BLANK, MIXED
  <1>3. checksum(fl) \in Nat
    BY <1>2, ChecksumOf
  <1> QED
    BY <1>1, <1>3 DEF Accepts

\* Nor is one without its first.
LEMMA HeadlessRefused ==
    ASSUME NEW fl, NEW f \in Header, fl[f] \in {BLANK, MIXED}
    PROVE  ~Accepts(fl)
  BY DEF Accepts, BLANK, MIXED

LEMMA BlankRefused == ~Accepts([f \in Fields |-> BLANK])
  BY StoreFields DEF Accepts, BLANK

\* A save that has begun: the caller is the only one, the record is summed.
LEMMA SaveBegins ==
    ASSUME StoreInv, NEW c \in Callers, \A d \in Callers : ~Saving(d), NEW r \in Records,
           BeginSave(c, r), UNCHANGED <<s_flash, s_head, s_ok, g_dirty>>,
           s_on' \in {"off", "boot", "run", "panic"}, MayRun(c)', s_on = "boot" => s_on' = "boot",
           s_on' = "boot" => s_on = "boot"
    PROVE  StoreInv'
  <1>1. /\ g_rec' = [r EXCEPT !["sum"] = checksum(r)]
        /\ s_pc' = [s_pc EXCEPT ![c] = "summed"] /\ StoreTyped
    BY DEF BeginSave, StoreInv
  <1>2. \A f \in Header : r[f] \in Nat /\ g_rec'[f] = r[f]
    BY <1>1, StoreFields DEF Records
  <1>3. checksum(r) \in Nat /\ checksum(g_rec') = checksum(r)
    BY <1>2, ChecksumOf, ChecksumSame
  <1>4. g_rec' \in Records /\ g_rec'["sum"] = checksum(g_rec')
    <2>1. g_rec' \in [Fields -> Cells]
      BY <1>1, <1>3, StoreFields DEF Records, Cells
    <2>2. g_rec'["sum"] = checksum(g_rec')
      BY <1>1, <1>3, StoreFields DEF Records
    <2> QED
      BY <1>2, <2>1, <2>2 DEF Records
  <1>5. StoreTyped'
    BY <1>1, <1>4 DEF StoreTyped
  <1>6. s_pc'[c] = "summed" /\ \A d \in Callers \ {c} : s_pc'[d] = "idle"
    BY <1>1 DEF StoreTyped, Saving
  <1>7. HeaderIsWhole'
    BY DEF StoreInv, HeaderIsWhole
  <1>8. SavedIsDurable'
    BY <1>6 DEF SavedIsDurable, NoSaveUnderWay, Saving
  <1>9. MayRun(c)' => s_on' # "off"
    BY DEF MayRun
  <1> QED
    BY <1>4, <1>5, <1>6, <1>7, <1>8, <1>9 DEF StoreInv, Saving

\* A save that has ended with the sector at fl: nobody is inside any more.
LEMMA SaveEnds ==
    ASSUME StoreInv, NEW c \in Callers, Saving(c),
           s_pc' = [s_pc EXCEPT ![c] = "idle"], s_on' = IF c = "boot" THEN "run" ELSE s_on,
           UNCHANGED <<g_rec, s_head>>, s_flash' \in [Fields -> Cells], HeaderIsWhole',
           g_dirty' \in BOOLEAN, s_ok' \in BOOLEAN,
           s_ok' => Accepts(s_flash') /\ \A s \in Slots : s_flash'[s] = g_rec[s]
    PROVE  StoreInv'
  <1>1. StoreTyped /\ MayRun(c) /\ \A d \in Callers : Saving(d) => d = c
    BY DEF StoreInv
  <1>2. s_on' \in {"run", "panic"}
    BY <1>1 DEF MayRun, StoreTyped, Callers
  <1>3. StoreTyped'
    BY <1>1, <1>2 DEF StoreTyped
  <1>4. \A d \in Callers : s_pc'[d] = "idle"
    BY <1>1 DEF StoreTyped, Saving
  <1>5. SavedIsDurable'
    BY DEF SavedIsDurable
  <1> QED
    BY <1>2, <1>3, <1>4, <1>5 DEF StoreInv, Saving

LEMMA StoreErases ==
    ASSUME StoreInv, NEW c \in Callers, flash_erase_sector(c)
    PROVE  StoreInv'
  <1>1. StoreTyped /\ MayRun(c) /\ s_pc[c] = "summed" /\ Saving(c) /\ g_rec["sum"] = checksum(g_rec)
        /\ HeaderIsWhole /\ \A d \in Callers : Saving(d) => d = c
    BY DEF StoreInv, flash_erase_sector, Saving
  <1>2. [f \in Fields |-> BLANK] \in [Fields -> Cells]
    BY DEF Cells
  <1>3. ASSUME s_flash' = [f \in Fields |-> BLANK] PROVE HeaderIsWhole'
    BY <1>3, BlankRefused DEF HeaderIsWhole
  <1>4. CASE s_flash' = [f \in Fields |-> BLANK] /\ s_pc' = [s_pc EXCEPT ![c] = "erased"]
             /\ UNCHANGED <<g_rec, g_dirty, g_defer_run, g_refuse, s_on, s_ok, s_head>>
    <2>1. StoreTyped'
      BY <1>1, <1>2, <1>4 DEF StoreTyped
    <2>2. s_pc'[c] = "erased" /\ \A d \in Callers \ {c} : s_pc'[d] = "idle"
      BY <1>1, <1>4 DEF StoreTyped, Saving
    <2>3. SavedIsDurable'
      BY <2>2 DEF SavedIsDurable, NoSaveUnderWay, Saving
    <2>4. MayRun(c)'
      BY <1>1, <1>4 DEF MayRun
    <2>5. s_on' \in {"off", "boot"} => ~s_ok'
      BY <1>4 DEF StoreInv
    <2> QED
      BY <1>1, <1>3, <1>4, <2>1, <2>2, <2>3, <2>4, <2>5 DEF StoreInv, Saving
  <1>5. CASE (s_flash' = s_flash \/ s_flash' = [f \in Fields |-> BLANK]) /\ SaveFails(c)
    <2>1. HeaderIsWhole'
      BY <1>1, <1>3, <1>5 DEF HeaderIsWhole, SaveFails
    <2> QED
      BY <1>1, <1>2, <1>5, <2>1, SaveEnds DEF SaveFails, StoreTyped
  <1> QED
    BY <1>4, <1>5 DEF flash_erase_sector

\* What has been programmed into an erased sector.
LEMMA ProgramsBlank ==
    ASSUME StoreTyped, s_flash = [f \in Fields |-> BLANK], NEW n \in 0 .. 3
    PROVE  /\ Programmed(n) = [f \in Fields |-> IF ChunkOf(f) <= n THEN g_rec[f] ELSE BLANK]
           /\ Programmed(n) \in [Fields -> Cells]
           /\ n = 3 => Programmed(n) = g_rec
           /\ n < 3 => ~Accepts(Programmed(n))
  <1>1. \A f \in Fields : spi1_xfer(s_flash[f], g_rec[f]) = g_rec[f]
    BY DEF spi1_xfer
  <1>2. Programmed(n) = [f \in Fields |-> IF ChunkOf(f) <= n THEN g_rec[f] ELSE BLANK]
    BY <1>1 DEF Programmed
  <1>3. Programmed(n) \in [Fields -> Cells]
    BY <1>2 DEF StoreTyped, Cells, Records
  <1>4. n = 3 => Programmed(n) = g_rec
    BY <1>2, StoreFields DEF StoreTyped, Chunks, Records
  <1>5. ASSUME n < 3 PROVE ~Accepts(Programmed(n))
    <2>1. Programmed(n)["sum"] = BLANK
      BY <1>2, <1>5, StoreFields
    <2> QED
      BY <1>3, <2>1, UnsummedRefused DEF BLANK
  <1> QED
    BY <1>2, <1>3, <1>4, <1>5

LEMMA StoreWrites ==
    ASSUME StoreInv, NEW c \in Callers, flash_write(c)
    PROVE  StoreInv'
  <1>1. StoreTyped /\ MayRun(c) /\ s_pc[c] = "erased" /\ Saving(c) /\ g_rec["sum"] = checksum(g_rec)
        /\ s_flash = [f \in Fields |-> BLANK] /\ \A d \in Callers : Saving(d) => d = c
    BY DEF StoreInv, flash_write, Saving
  <1>2. CASE s_flash' = Programmed(3) /\ s_pc' = [s_pc EXCEPT ![c] = "written"]
             /\ s_head' = [f \in Header |-> g_rec[f]]
             /\ UNCHANGED <<g_rec, g_dirty, g_defer_run, g_refuse, s_on, s_ok>>
    <2>1. s_flash' = g_rec
      BY <1>1, <1>2, ProgramsBlank
    <2>2. StoreTyped'
      BY <1>1, <1>2, <2>1 DEF StoreTyped, Records
    <2>3. s_pc'[c] = "written" /\ \A d \in Callers \ {c} : s_pc'[d] = "idle"
      BY <1>1, <1>2 DEF StoreTyped, Saving
    <2>4. HeaderIsWhole'
      BY <1>2, <2>1 DEF HeaderIsWhole
    <2>5. SavedIsDurable'
      BY <2>3 DEF SavedIsDurable, NoSaveUnderWay, Saving
    <2>6. MayRun(c)'
      BY <1>1, <1>2 DEF MayRun
    <2>7. s_on' \in {"off", "boot"} => ~s_ok'
      BY <1>2 DEF StoreInv
    <2> QED
      BY <1>1, <1>2, <2>1, <2>2, <2>3, <2>4, <2>5, <2>6, <2>7 DEF StoreInv, Saving
  <1>3. ASSUME NEW n \in 0 .. 2, s_flash' = Programmed(n), SaveFails(c) PROVE StoreInv'
    <2>1. s_flash' \in [Fields -> Cells] /\ ~Accepts(s_flash')
      BY <1>1, <1>3, ProgramsBlank
    <2> QED
      BY <1>1, <1>3, <2>1, SaveEnds DEF SaveFails, StoreTyped, HeaderIsWhole
  <1> QED
    BY <1>2, <1>3 DEF flash_write

LEMMA StoreReturns ==
    ASSUME StoreInv, NEW c \in Callers, store_save(c)
    PROVE  StoreInv'
  <1>1. StoreTyped /\ MayRun(c) /\ s_pc[c] = "written" /\ Saving(c) /\ g_rec["sum"] = checksum(g_rec)
        /\ s_flash = g_rec /\ HeaderIsWhole
    BY DEF StoreInv, store_save, Saving
  <1>2. Accepts(s_flash)
    BY <1>1, StoreFields DEF Accepts, StoreTyped, Records
  <1>3. HeaderIsWhole'
    BY <1>1 DEF HeaderIsWhole, store_save
  <1> QED
    BY <1>1, <1>2, <1>3, SaveEnds DEF store_save, StoreTyped

\* The power goes: whatever is in the sector by then is the last whole header or refused.
LEMMA StoreCut ==
    ASSUME StoreInv, PowerCut
    PROVE  StoreInv'
  <1>1. StoreTyped /\ HeaderIsWhole
    BY DEF StoreInv
  <1>2. /\ s_on' = "off" /\ g_rec' = Defaults /\ g_dirty' = FALSE /\ s_ok' = FALSE
        /\ s_pc' = [c \in Callers |-> "idle"] /\ s_head' = s_head
    BY DEF PowerCut
  <1>3. s_flash' \in [Fields -> Cells] /\ HeaderIsWhole'
    <2>1. CASE s_flash' = s_flash
      BY <1>1, <1>2, <2>1 DEF HeaderIsWhole, StoreTyped
    <2>2. ASSUME NEW kept \in SUBSET Chunks, s_flash' = HalfErased(kept)
          PROVE  s_flash' \in [Fields -> Cells] /\ HeaderIsWhole'
      <3>1. s_flash' \in [Fields -> Cells]
        BY <1>1, <2>2 DEF HalfErased, StoreTyped, Cells
      <3>2. CASE 1 \notin kept
        <4>1. s_flash'["boots"] = MIXED
          BY <2>2, <3>2, StoreFields DEF HalfErased
        <4>2. ~Accepts(s_flash')
          BY <4>1, HeadlessRefused, StoreFields
        <4> QED
          BY <3>1, <4>2 DEF HeaderIsWhole
      <3>3. CASE 3 \notin kept
        <4>1. s_flash'["sum"] = MIXED
          BY <2>2, <3>3, StoreFields DEF HalfErased
        <4>2. ~Accepts(s_flash')
          BY <3>1, <4>1, UnsummedRefused DEF MIXED
        <4> QED
          BY <3>1, <4>2 DEF HeaderIsWhole
      <3>4. CASE 1 \in kept /\ 3 \in kept
        <4>1. s_flash'["sum"] = s_flash["sum"] /\ \A f \in Header : s_flash'[f] = s_flash[f]
          BY <2>2, <3>4, StoreFields DEF HalfErased
        <4>2. checksum(s_flash') = checksum(s_flash)
          BY <4>1, ChecksumSame
        <4>3. Accepts(s_flash') => Accepts(s_flash)
          BY <4>1, <4>2 DEF Accepts
        <4>4. [f \in Header |-> s_flash'[f]] = [f \in Header |-> s_flash[f]]
          BY <4>1
        <4> QED
          BY <1>1, <1>2, <3>1, <4>3, <4>4 DEF HeaderIsWhole
      <3> QED
        BY <3>2, <3>3, <3>4
    <2>3. ASSUME NEW c \in Callers, s_pc[c] = "erased", NEW n \in 0 .. 2, s_flash' = Programmed(n)
          PROVE  s_flash' \in [Fields -> Cells] /\ HeaderIsWhole'
      <3>1. s_flash = [f \in Fields |-> BLANK]
        BY <2>3 DEF StoreInv
      <3> QED
        BY <1>1, <2>3, <3>1, ProgramsBlank DEF HeaderIsWhole
    <2> QED
      BY <2>1, <2>2, <2>3 DEF PowerCut
  <1>4. g_rec' \in Records
    BY <1>2, StoreFields DEF Defaults, Records, Cells
  <1>5. StoreTyped'
    BY <1>2, <1>3, <1>4 DEF StoreTyped
  <1>6. \A c \in Callers : s_pc'[c] = "idle"
    BY <1>2
  <1> QED
    BY <1>2, <1>3, <1>5, <1>6 DEF StoreInv, Saving, SavedIsDurable

\* The record changes in RAM between saves.
LEMMA StoreChanges ==
    ASSUME StoreInv, \A d \in Callers : ~Saving(d), g_rec' \in Records, g_dirty' \in BOOLEAN,
           s_on' \in {"off", "boot", "run", "panic"}, UNCHANGED <<s_flash, s_pc, s_ok, s_head>>,
           s_on' = s_on \/ (s_on = "off" /\ s_on' = "boot"),
           s_on = "run" /\ s_ok => \/ g_dirty'
                                   \/ ~g_dirty /\ \A s \in Slots : g_rec'[s] = g_rec[s]
    PROVE  StoreInv'
  <1>1. StoreTyped'
    BY DEF StoreInv, StoreTyped
  <1>2. \A d \in Callers : s_pc'[d] = "idle" /\ ~Saving(d)'
    BY DEF Saving
  <1>3. HeaderIsWhole'
    BY DEF StoreInv, HeaderIsWhole
  <1>4. SavedIsDurable'
    BY <1>2 DEF StoreInv, SavedIsDurable, NoSaveUnderWay
  <1>5. s_on' \in {"off", "boot"} => ~s_ok'
    BY DEF StoreInv
  <1> QED
    BY <1>1, <1>2, <1>3, <1>4, <1>5 DEF StoreInv

LEMMA StoreInitInv ==
    ASSUME StoreInit
    PROVE  StoreInv
  <1>1. StoreTyped
    BY StoreFields DEF StoreInit, StoreTyped, Defaults, Cells, Records
  <1>2. ~Accepts(s_flash)
    BY BlankRefused DEF StoreInit
  <1> QED
    BY <1>1, <1>2 DEF StoreInit, StoreInv, Saving, HeaderIsWhole, SavedIsDurable, NoSaveUnderWay

LEMMA StoreStep ==
    ASSUME ~StorePreempts, StoreInv, [StoreNext]_stVars
    PROVE  StoreInv'
  <1>0. StoreTyped /\ (s_on \in {"off", "boot"} => ~s_ok)
    BY DEF StoreInv
  <1>1. \A c \in Callers : Idle(c) => MayRun(c) /\ \A d \in Callers : ~Saving(d)
    BY DEF Idle
  <1>2. CASE store_load
    <2>1. PICK r \in {Defaults} \cup (IF Accepts(s_flash) THEN {s_flash} ELSE {}) :
            g_rec' = [r EXCEPT !["boots"] = @ + 1]
      BY <1>2 DEF store_load
    <2>2. Defaults \in Records
      BY StoreFields DEF Defaults, Cells, Records
    <2>3. ASSUME Accepts(s_flash) PROVE s_flash \in Records
      BY <1>0, <2>3, StoreFields DEF Accepts, StoreTyped, Records, Cells, BLANK, MIXED
    <2>4. r \in Records
      BY <2>1, <2>2, <2>3
    <2>5. g_rec' \in Records
      BY <2>1, <2>4, StoreFields DEF Records, Cells
    <2>6. /\ s_on = "off" /\ s_on' = "boot"
          /\ UNCHANGED <<s_flash, g_dirty, g_defer_run, g_refuse, s_pc, s_ok, s_head>>
      BY <1>2 DEF store_load
    <2>7. \A d \in Callers : ~Saving(d)
      BY <2>6 DEF StoreInv, MayRun
    <2> QED
      BY <1>0, <2>5, <2>6, <2>7, StoreChanges DEF StoreTyped
  <1>3. CASE BootSave
    <2>1. MayRun("boot")' /\ \A d \in Callers : ~Saving(d)
      BY <1>1, <1>3 DEF BootSave, MayRun, Callers
    <2> QED
      BY <1>0, <1>3, <2>1, SaveBegins DEF BootSave, StoreTyped, Callers
  <1>4. CASE store_save_if_allowed
    <2> DEFINE r == [g_rec EXCEPT !["frames"] = @ + 1]
    <2>1. /\ Idle("display") /\ UNCHANGED <<s_flash, g_dirty, g_refuse, s_on, s_ok, s_head>>
          /\ \/ g_rec' = r /\ s_pc' = s_pc
             \/ g_dirty /\ BeginSave("display", r)
      BY <1>4 DEF store_save_if_allowed
    <2>2. r \in Records /\ \A s \in Slots : r[s] = g_rec[s]
      BY <1>0, StoreFields DEF StoreTyped, Records, Cells
    <2> HIDE DEF r
    <2>3. /\ \A d \in Callers : ~Saving(d)
          /\ s_on = "run" /\ MayRun("display")' /\ "display" \in Callers
      BY <1>0, <1>1, <2>1 DEF MayRun, Callers, StoreTyped
    <2>4. CASE g_rec' = r /\ s_pc' = s_pc
      BY <1>0, <2>1, <2>2, <2>3, <2>4, StoreChanges DEF StoreTyped
    <2>5. CASE BeginSave("display", r)
      BY <1>0, <2>1, <2>2, <2>3, <2>5, SaveBegins DEF StoreTyped
    <2> QED
      BY <2>1, <2>4, <2>5
  <1>5. CASE store_set_may_save
    BY <1>0, <1>1, <1>5, StoreChanges DEF store_set_may_save, StoreTyped, Callers
  <1>6. ASSUME NEW s \in Slots, NEW v \in SlotVals, store_slot_set(s, v) PROVE StoreInv'
    <2>1. /\ Idle("apps") /\ g_rec' = [g_rec EXCEPT ![s] = v]
          /\ g_dirty' = (g_dirty \/ g_rec[s] # v)
          /\ UNCHANGED <<s_flash, g_defer_run, g_refuse, s_on, s_pc, s_ok, s_head>>
      BY <1>6 DEF store_slot_set
    <2>2. v \in Nat /\ g_dirty' \in BOOLEAN
      BY <2>1, StoreAssumption
    <2>3. g_rec' \in Records
      BY <1>0, <2>1, <2>2, StoreFields DEF StoreTyped, Records, Cells
    <2>4. \A d \in Callers : ~Saving(d)
      BY <1>1, <2>1 DEF Callers
    <2>5. ~g_dirty' => ~g_dirty /\ \A x \in Slots : g_rec'[x] = g_rec[x]
      BY <1>0, <2>1, StoreFields DEF StoreTyped, Records
    <2> QED
      BY <1>0, <2>1, <2>2, <2>3, <2>4, <2>5, StoreChanges DEF StoreTyped
  <1>7. CASE store_dev_write
    <2>1. MayRun("apps")' /\ s_on = "run" /\ "apps" \in Callers /\ \A d \in Callers : ~Saving(d)
      BY <1>0, <1>1, <1>7 DEF store_dev_write, MayRun, Callers, StoreTyped
    <2> QED
      BY <1>0, <1>7, <2>1, SaveBegins DEF store_dev_write, StoreTyped
  <1>8. CASE calib_persist
    <2> DEFINE r == [g_rec EXCEPT !["cal"] = 1]
    <2>1. MayRun("touch")' /\ s_on = "run" /\ "touch" \in Callers /\ \A d \in Callers : ~Saving(d)
      BY <1>0, <1>1, <1>8 DEF calib_persist, MayRun, Callers, StoreTyped
    <2>2. r \in Records
      BY <1>0, StoreFields DEF StoreTyped, Records, Cells
    <2>3. BeginSave("touch", r) /\ UNCHANGED <<s_flash, g_dirty, s_on, s_ok, s_head>>
      BY <1>8 DEF calib_persist
    <2> HIDE DEF r
    <2> QED
      BY <1>0, <2>1, <2>2, <2>3, SaveBegins DEF StoreTyped
  <1>9. CASE store_record_fault
    <2> DEFINE r == [g_rec EXCEPT !["fault"] = 1]
    <2>1. /\ s_on = "run" /\ s_on' = "panic" /\ \A d \in Callers : ~Saving(d)
          /\ BeginSave("panic", r) /\ UNCHANGED <<s_flash, g_dirty, s_ok, s_head>>
      BY <1>9 DEF store_record_fault
    <2>2. r \in Records
      BY <1>0, StoreFields DEF StoreTyped, Records, Cells
    <2> HIDE DEF r
    <2>3. MayRun("panic")' /\ "panic" \in Callers
      BY <2>1 DEF MayRun, Callers
    <2> QED
      BY <2>1, <2>2, <2>3, SaveBegins
  <1>10. ASSUME UNCHANGED stVars PROVE StoreInv'
    BY <1>10 DEF stVars, StoreInv, StoreTyped, Saving, MayRun, HeaderIsWhole, SavedIsDurable, NoSaveUnderWay
  <1> QED
    BY <1>2, <1>3, <1>4, <1>5, <1>6, <1>7, <1>8, <1>9, <1>10, StoreCut, StoreErases, StoreWrites,
       StoreReturns DEF StoreNext

\* The record across saves, failures and resets, for any values, any number of refusals and any
\* number of boots, if no task runs inside another's save (store.c): a header store_load accepts is
\* one that was programmed to its end, and what a save reported is in the sector.
THEOREM RecordsSurvive ==
    ASSUME ~StorePreempts
    PROVE  StoreSpec => []RecordSurvives
  <1>1. StoreInit => StoreInv
    BY StoreInitInv
  <1>2. StoreInv /\ [StoreNext]_stVars => StoreInv'
    BY StoreStep
  <1>3. StoreInv => RecordSurvives
    BY DEF StoreInv, RecordSurvives
  <1> QED
    BY <1>1, <1>2, <1>3, PTL DEF StoreSpec

-----------------------------------------------------------------------------
(* Notes.                                                                   *)

Chars == LetterKeys \X Letters
Whole == {q \in Seq(Chars) : q # <<>>}

\* The live letter is the last of the note, at the letter the keyboard shows.
LiveIsLast(live, index, text) ==
    live # NOKEY => text # <<>> /\ text[Len(text)] = <<live, index>>

\* While nothing has been full, the note is the one meant and the key that is live is the key its
\* writer tapped last; no note that was saved is empty, so none looks like erased flash.
NoteInv ==
    /\ k_len \in Nat /\ k_index \in Letters /\ n_text \in Seq(Chars) /\ h_saved \in Seq(Whole)
    /\ h_full \in BOOLEAN /\ h_lost \in BOOLEAN
    /\ h_full = FALSE => n_text = h_text
    /\ h_full = FALSE /\ e_view = "compose" => k_live = h_key /\ LiveIsLast(k_live, k_index, n_text)
    /\ h_lost = FALSE => g_store = h_saved /\ n_flash = h_saved

LEMMA NoteNumbers == /\ KB_TEXT_MAX \in Nat /\ NOTES_MAX \in Nat /\ INPUT_MAX \in Nat
                     /\ MSG_MAX \in Nat /\ MSG_MAX > 0 /\ MSG_LEN \in Nat /\ MSG_LEN > 0
  BY NotesAssumption

LEMMA NextLetter ==
    /\ Cardinality(Letters) = 2
    /\ \A i \in Letters : (i + 1) % Cardinality(Letters) \in Letters
  <1>1. Cardinality(Letters) = 2
    <2>1. Cardinality(0 .. 1) = IF 0 > 1 THEN 0 ELSE 1 - 0 + 1
      BY FS_Interval, 0 \in Int, 1 \in Int
    <2> QED
      BY <2>1 DEF Letters
  <1>2. \A i \in 0 .. 1 : (i + 1) % 2 \in 0 .. 1
    OBVIOUS
  <1> QED
    BY <1>1, <1>2 DEF Letters

\* An empty note has no live letter.
LEMMA NoNote == <<>> \in Seq(Chars) /\ <<>> \in Seq(Whole)
  BY EmptySeq

LEMMA ShorterIsNote ==
    ASSUME NEW text \in Seq(Chars)
    PROVE  Shorter(text) \in Seq(Chars)
  <1>1. CASE text = <<>>
    BY <1>1 DEF Shorter
  <1>2. CASE text # <<>>
    <2>1. Len(text) \in Nat /\ \A i \in 1 .. Len(text) : text[i] \in Chars
      BY LenProperties, ElementOfSeq
    <2>2. \A i \in 1 .. Len(text) - 1 : text[i] \in Chars
      BY <2>1
    <2>3. Len(text) - 1 \in Int /\ 1 \in Int
      BY <2>1
    <2>4. SubSeq(text, 1, Len(text) - 1) \in Seq(Chars)
      BY <2>2, <2>3, SubSeqProperties
    <2> QED
      BY <1>2, <2>4 DEF Shorter
  <1> QED
    BY <1>1, <1>2

LEMMA ClipIsWhole ==
    ASSUME NEW text \in Whole
    PROVE  Clip(text) \in Whole
  <1> DEFINE m == IF Len(text) < MSG_LEN THEN Len(text) ELSE MSG_LEN
  <1>1. text \in Seq(Chars) /\ text # <<>>
    BY DEF Whole
  <1>2. Len(text) \in Nat /\ Len(text) # 0 /\ \A i \in 1 .. Len(text) : text[i] \in Chars
    BY <1>1, EmptySeq, LenProperties, ElementOfSeq
  <1>3. m \in Nat /\ m > 0 /\ m <= Len(text)
    BY <1>2, NoteNumbers
  <1> HIDE DEF m
  <1>4. \A i \in 1 .. m : text[i] \in Chars
    BY <1>2, <1>3
  <1>5. SubSeq(text, 1, m) \in Seq(Chars) /\ Len(SubSeq(text, 1, m)) = m
    BY <1>3, <1>4, SubSeqProperties
  <1>6. SubSeq(text, 1, m) # <<>>
    BY <1>3, <1>5, EmptySeq
  <1> QED
    BY <1>5, <1>6 DEF Clip, Whole, m

LEMMA NewestIsNotes ==
    ASSUME NEW list \in Seq(Whole), NEW text \in Whole
    PROVE  Newest(Append(list, text)) \in Seq(Whole)
  <1>1. Append(list, text) \in Seq(Whole) /\ Append(list, text) # <<>>
    BY AppendProperties
  <1>2. Tail(Append(list, text)) \in Seq(Whole)
    BY <1>1, HeadTailProperties
  <1> QED
    BY <1>1, <1>2 DEF Newest

LEMMA SavedIsLoadable ==
    ASSUME NEW list \in Seq(Whole)
    PROVE  list # UNLOADABLE
  <1>1. SUFFICES ASSUME list = <<<<>>>> PROVE FALSE
    BY DEF UNLOADABLE
  <1>2. Len(list) = 1 /\ list[1] = <<>>
    BY <1>1
  <1>3. list[1] \in Whole
    BY <1>2, ElementOfSeq
  <1> QED
    BY <1>2, <1>3 DEF Whole

\* A letter in the note pad.
LEMMA LetterIsMeant ==
    ASSUME NoteInv, NEW k \in LetterKeys, NotesLetter(k)
    PROVE  NoteInv'
  <1>1. /\ keyboard_letter(k) /\ e_view' = e_view
        /\ UNCHANGED <<g_store, n_flash, h_saved, h_lost>>
    BY DEF NotesLetter
  <1>5. k_len' \in Nat
    BY <1>1 DEF keyboard_letter, NoteInv
  <1>2. k_index' \in Letters
    BY <1>1, NextLetter DEF keyboard_letter, NoteInv, Letters
  <1>3. CASE e_view # "compose"
    <2>1. UNCHANGED <<n_text, h_text, h_key, h_full>>
      BY <1>3 DEF NotesLetter
    <2> QED
      BY <1>1, <1>2, <1>3, <1>5, <2>1 DEF NoteInv
  <1>4. CASE e_view = "compose"
    <2> DEFINE ch == <<k, k_index'>>
    <2>1. /\ n_text' = Edited(n_text, k, NOTES_MAX) /\ h_text' = Meant(k) /\ h_key' = k
          /\ h_full' = (h_full \/ k_len + 1 >= KB_TEXT_MAX \/ Len(n_text) + 1 >= NOTES_MAX)
      BY <1>4 DEF NotesLetter
    <2>2. ch \in Chars
      BY <1>2 DEF Chars
    <2>3. n_text \in Seq(Chars) /\ Len(n_text) \in Nat /\ (Len(n_text) > 0 => Len(n_text) \in 1 .. Len(n_text))
      BY LenProperties DEF NoteInv
    <2>4. Append(n_text, ch) \in Seq(Chars)
      BY <2>2, <2>3, AppendProperties
    <2>5. Len(n_text) > 0 => [n_text EXCEPT ![Len(n_text)] = ch] \in Seq(Chars)
      BY <2>2, <2>3, ExceptSeq
    <2>6. n_text' \in Seq(Chars)
      BY <2>1, <2>3, <2>4, <2>5 DEF Edited
    <2>7. h_full' \in BOOLEAN
      BY <2>1
    <2>8. ASSUME h_full' = FALSE
          PROVE  n_text' = h_text' /\ k_live' = k /\ LiveIsLast(k, k_index', n_text')
      <3>1. h_full = FALSE /\ ~(k_len + 1 >= KB_TEXT_MAX) /\ ~(Len(n_text) + 1 >= NOTES_MAX)
        BY <2>1, <2>8 DEF NoteInv
      <3>2. n_text = h_text /\ k_live = h_key /\ LiveIsLast(k_live, k_index, n_text)
        BY <1>4, <3>1 DEF NoteInv
      <3>3. k # NOKEY
        BY DEF LetterKeys, NOKEY
      <3>4. CASE k = k_live
        <4>1. k_index' = (k_index + 1) % Cardinality(Letters) /\ k_live' = k
          BY <1>1, <3>4 DEF keyboard_letter
        <4>2. n_text # <<>> /\ n_text[Len(n_text)] = <<k, k_index>>
          BY <3>2, <3>3, <3>4 DEF LiveIsLast
        <4>3. Len(n_text) > 0 /\ Len(n_text) \in 1 .. Len(n_text)
          BY <2>3, <4>2, EmptySeq
        <4>4. n_text' = [n_text EXCEPT ![Len(n_text)] = ch]
          BY <2>1, <3>4, <4>3 DEF Edited, Action
        <4>5. h_text' = [n_text EXCEPT ![Len(n_text)] = <<k, (<<k, k_index>>[2] + 1) % Cardinality(Letters)>>]
          BY <2>1, <3>2, <3>4, <4>2 DEF Meant
        <4>6. h_text' = n_text'
          BY <4>1, <4>4, <4>5
        <4>7. Len(n_text') = Len(n_text) /\ n_text'[Len(n_text)] = ch
          BY <2>2, <2>3, <4>3, <4>4, ExceptSeq
        <4>8. n_text' # <<>>
          BY <4>3, <4>7, EmptySeq
        <4> QED
          BY <4>1, <4>6, <4>7, <4>8 DEF LiveIsLast
      <3>5. CASE k # k_live
        <4>0. k_len + 1 < KB_TEXT_MAX /\ Len(n_text) + 1 < NOTES_MAX
          BY <2>3, <3>1, NoteNumbers DEF NoteInv
        <4>1. k_index' = 0 /\ k_live' = k
          BY <1>1, <3>5, <4>0 DEF keyboard_letter
        <4>2. n_text' = Append(n_text, ch)
          BY <2>1, <3>5, <4>0 DEF Edited, Action
        <4>3. h_text' = Append(n_text, <<k, 0>>)
          BY <2>1, <3>2, <3>5, <4>0 DEF Meant
        <4>4. n_text' # <<>> /\ n_text'[Len(n_text')] = ch
          BY <2>2, <2>3, <4>2, AppendProperties
        <4> QED
          BY <4>1, <4>2, <4>3, <4>4 DEF LiveIsLast
      <3> QED
        BY <3>4, <3>5
    <2> QED
      BY <1>1, <1>2, <1>5, <2>1, <2>6, <2>7, <2>8 DEF NoteInv
  <1> QED
    BY <1>3, <1>4

\* A save succeeds or is counted as lost.
LEMMA SaveIsKept ==
    ASSUME NoteInv, NotesSubmit
    PROVE  NoteInv'
  <1>1. k_live' = NOKEY /\ h_key' = NOKEY /\ UNCHANGED <<k_len, k_index, e_view, h_full>>
    BY DEF NotesSubmit, end_cycle
  <1>2. LiveIsLast(k_live', k_index', n_text')
    BY <1>1 DEF LiveIsLast
  <1>3. CASE UNCHANGED <<g_store, n_flash, n_text, h_text, h_saved, h_lost>>
    BY <1>1, <1>2, <1>3 DEF NoteInv
  <1>4. CASE n_text # <<>> /\ msg_save(n_text)
    <2>1. n_text \in Whole
      BY <1>4 DEF NoteInv, Whole
    <2>2. Newest(Append(h_saved, Clip(n_text))) \in Seq(Whole)
      BY <2>1, ClipIsWhole, NewestIsNotes DEF NoteInv
    <2>3. CASE /\ g_store' = Newest(Append(g_store, Clip(n_text))) /\ n_flash' = g_store'
               /\ h_saved' = Newest(Append(h_saved, Clip(n_text)))
               /\ n_text' = <<>> /\ h_text' = <<>> /\ UNCHANGED h_lost
      BY <1>1, <1>2, <2>2, <2>3, NoNote DEF NoteInv
    <2>4. CASE h_lost' = TRUE /\ UNCHANGED <<h_saved, n_text, h_text>>
      BY <1>1, <1>2, <2>4 DEF NoteInv
    <2> QED
      BY <1>4, <2>3, <2>4 DEF msg_save
  <1> QED
    BY <1>3, <1>4 DEF NotesSubmit

\* For any sizes of the texts, of the record and of the queue, and any number of taps: the note
\* reads as its writer tapped it while nothing was full, and unless a save failed the record in
\* memory and in flash is what was reported saved (keyboard.c, notes.c, messages.c).
THEOREM NotesAreKept == NotesSpec => []NoteIsKept
  <1>1. NotesInit => NoteInv
    <2> SUFFICES ASSUME NotesInit PROVE NoteInv
      OBVIOUS
    <2>1. k_len \in Nat /\ k_index \in Letters
      BY DEF NotesInit, Letters
    <2>3. h_full \in BOOLEAN /\ h_lost \in BOOLEAN
      BY DEF NotesInit
    <2>2. LiveIsLast(k_live, k_index, n_text)
      BY DEF NotesInit, LiveIsLast
    <2> QED
      BY <2>1, <2>2, <2>3, NoNote DEF NotesInit, NoteInv
  <1>2. NoteInv /\ [NotesNext]_noteVars => NoteInv'
    <2> SUFFICES ASSUME NoteInv, [NotesNext]_noteVars PROVE NoteInv'
      OBVIOUS
    <2>1. CASE NotesBackspace
      <3>1. /\ k_live' = NOKEY /\ h_key' = NOKEY /\ n_text' = Shorter(n_text) /\ h_text' = Shorter(h_text)
            /\ UNCHANGED <<k_index, e_view, g_store, n_flash, h_saved, h_full, h_lost>>
        BY <2>1 DEF NotesBackspace, end_cycle
      <3>2. k_len' \in Nat
        BY <2>1 DEF NotesBackspace, NoteInv
      <3> QED
        BY <3>1, <3>2, ShorterIsNote DEF NoteInv, LiveIsLast
    <2>2. CASE NotesHeader
      BY <2>2 DEF NotesHeader, keyboard_reset, NoteInv, LiveIsLast
    <2>3. CASE msg_load
      <3>1. /\ k_live' = NOKEY /\ h_key' = NOKEY /\ n_text' = <<>> /\ h_text' = <<>> /\ k_index' = 0 /\ k_len' = 0
            /\ h_full' = FALSE /\ UNCHANGED <<n_flash, h_saved, h_lost>>
            /\ g_store' = IF n_flash = UNLOADABLE THEN <<>> ELSE n_flash
        BY <2>3 DEF msg_load
      <3>2. h_lost = FALSE => g_store' = h_saved
        BY <3>1, SavedIsLoadable DEF NoteInv
      <3>3. 0 \in Letters
        BY DEF Letters
      <3> QED
        BY <3>1, <3>2, <3>3, NoNote DEF NoteInv, LiveIsLast
    <2>4. ASSUME NEW k \in LetterKeys, TermLetter(k) PROVE NoteInv'
      <3>1. k_index' \in Letters
        BY <2>4, NextLetter DEF TermLetter, Action, NoteInv, Letters
      <3>2. k_len' \in Nat
        BY <2>4 DEF TermLetter, NoteInv
      <3> QED
        BY <2>4, <3>1, <3>2 DEF TermLetter, NoteInv
    <2>5. CASE TermBackspace
      BY <2>5 DEF TermBackspace, end_cycle, NoteInv
    <2>6. CASE TermSubmit
      BY <2>6 DEF TermSubmit, end_cycle, NoteInv
    <2>7. CASE term_key_pop
      BY <2>7 DEF term_key_pop, kbVars, NoteInv
    <2>8. CASE keyboard_tick
      <3>1. /\ k_live' = NOKEY /\ h_key' = NOKEY
            /\ UNCHANGED <<k_len, k_index, e_view, n_text, h_text, g_store, n_flash, h_saved, h_full, h_lost>>
        BY <2>8 DEF keyboard_tick, end_cycle
      <3> QED
        BY <3>1 DEF NoteInv, LiveIsLast
    <2>9. ASSUME NEW v \in {"compose", "terminal"}, OpenEditor(v) PROVE NoteInv'
      BY <2>9 DEF OpenEditor, keyboard_reset, NoteInv, LiveIsLast
    <2>10. CASE UNCHANGED noteVars
      BY <2>10 DEF noteVars, kbVars, NoteInv
    <2> QED
      BY <2>1, <2>2, <2>3, <2>4, <2>5, <2>6, <2>7, <2>8, <2>9, <2>10, LetterIsMeant, SaveIsKept DEF NotesNext
  <1>3. NoteInv => NoteIsKept
    BY DEF NoteInv, NoteIsKept
  <1> QED
    BY <1>1, <1>2, <1>3, PTL DEF NotesSpec

-----------------------------------------------------------------------------
(* Devices.                                                                 *)

\* What is loaded is the block the cursor names, unless a seek is under way; a seek is a
\* program's, and while it lasts no program asks anything.
DevInv ==
    /\ d_seek # NOTHING => d_seek[1] # KERNEL
    /\ d_seek = NOTHING /\ d_loaded =>
           \A i \in 0 .. (SD_BYTES - 1) : d_block[i] = <<"sd", d_lba, i>>
    /\ d_off \in 0 .. SD_BYTES /\ d_body \in Nat
    /\ d_last.ok => d_last.bytes = d_last.due

LEMMA DevNumbers == XFER_MAX \in Nat /\ XFER_MAX > 0 /\ SD_BYTES \in Nat /\ SD_BYTES > 0 /\ BodyMax \in Nat
  BY DeviceAssumption

\* A transfer of the card's bytes, of what was echoed, of a page's bytes: what it delivers, when
\* it delivers anything, is what is due.
LEMMA TransferIsDue ==
    ASSUME DevInv, ~ShellUsesSd, NEW c \in DevCallers, NEW d \in {"sd", "echo", "net"},
           NEW ch \in Channels, NEW n \in 1 .. XFER_MAX, device_xfer_in(c, d, ch, n)
    PROVE  DevInv'
  <1> DEFINE bytes == CASE d = "sd" -> sd_xfer_in(ch, n)
                        [] d = "echo" -> echo_xfer_in(ch, n)
                        [] d = "net" -> netdev_xfer_in(ch, n)
             ok    == Reachable(c, d, "in", ch) /\ bytes # NOTHING
  <1>1. /\ Free(c) /\ (c = KERNEL => d # "sd")
        /\ d_last' = [device |-> d, ok |-> ok, bytes |-> IF ok THEN bytes ELSE NOTHING,
                      due |-> Due(d, ch, n)]
        /\ d_off' = IF ok /\ d = "sd" THEN d_off + n ELSE d_off
        /\ UNCHANGED <<d_block, d_lba, d_loaded, d_seek, d_body>>
    BY DEF device_xfer_in, Tell
  <1>2. n \in Nat /\ n > 0
    BY DevNumbers
  <1>3. CASE d = "sd" /\ ok
    <2>1. bytes = sd_xfer_in(ch, n)
      BY <1>3
    <2>2. /\ ch = 0 /\ d_loaded /\ ~(n > SD_BYTES - d_off)
          /\ bytes = [i \in 1 .. n |-> d_block[d_off + i - 1]]
      BY <1>3, <2>1 DEF sd_xfer_in
    <2>3. d_off \in Int /\ 0 <= d_off /\ d_off <= SD_BYTES /\ n <= SD_BYTES - d_off
      BY <1>2, <2>2, DevNumbers DEF DevInv
    <2>4. d_seek = NOTHING
      BY <1>1, <1>3 DEF DevInv, Free
    <2>5. ASSUME NEW i \in 1 .. n
          PROVE  d_block[d_off + i - 1] = <<"sd", d_lba, d_off + i - 1>>
      <3>1. d_off + i - 1 \in 0 .. (SD_BYTES - 1)
        BY <1>2, <2>3, DevNumbers
      <3> QED
        BY <2>2, <2>4, <3>1 DEF DevInv
    <2>6. Due(d, ch, n) = [i \in 1 .. n |-> <<"sd", d_lba, d_off + i - 1>>]
      BY <1>3, <2>2, <2>3 DEF Due
    <2>7. bytes = Due(d, ch, n)
      BY <2>2, <2>5, <2>6
    <2>8. d_off + n \in 0 .. SD_BYTES
      BY <1>2, <2>3, DevNumbers
    <2> QED
      BY <1>1, <1>3, <2>7, <2>8 DEF DevInv
  <1>4. CASE d = "echo" /\ ok
    <2>1. bytes = echo_xfer_in(ch, n)
      BY <1>4
    <2>2. ch = 0 /\ ~(n > Len(d_echo)) /\ bytes = SubSeq(d_echo, 1, n)
      BY <1>4, <2>1 DEF echo_xfer_in
    <2>3. Due(d, ch, n) = SubSeq(d_echo, 1, n)
      BY <1>4, <2>2 DEF Due
    <2> QED
      BY <1>1, <1>4, <2>2, <2>3 DEF DevInv
  <1>5. CASE d = "net" /\ ok
    <2>1. bytes = netdev_xfer_in(ch, n)
      BY <1>5
    <2> DEFINE off == ch * XFER_MAX
               m   == LeastOf(n, d_body - off)
    <2>2. off \in Int /\ d_body \in Int
      BY DevNumbers DEF Channels, DevInv
    <2>3. /\ ~(off >= d_body)
          /\ bytes = [i \in 1 .. n |-> IF i <= m THEN <<"body", off + i>> ELSE ZERO]
      BY <1>5, <2>1 DEF netdev_xfer_in, netdev_rest
    <2>4. Due(d, ch, n) = [i \in 1 .. n |-> IF off + i <= d_body THEN <<"body", off + i>> ELSE ZERO]
      <3>1. off < d_body
        BY <2>2, <2>3
      <3> QED
        BY <1>5, <3>1 DEF Due
    <2> HIDE DEF off
    <2>5. ASSUME NEW i \in 1 .. n PROVE i <= m <=> off + i <= d_body
      BY <1>2, <2>2 DEF LeastOf
    <2> HIDE DEF m
    <2>6. bytes = Due(d, ch, n)
      BY <2>3, <2>4, <2>5
    <2> QED
      BY <1>1, <1>5, <2>6 DEF DevInv
  <1>6. CASE ~ok
    BY <1>1, <1>6 DEF DevInv
  <1> QED
    BY <1>3, <1>4, <1>5, <1>6

\* For any programs, transfer sizes, blocks and pages: as long as the shell leaves the card
\* alone while programs run, a transfer that is answered delivers the device's bytes
\* (device.c, netdev.c).
THEOREM TransfersAreTheDevices ==
    ASSUME ~ShellUsesSd
    PROVE  DeviceSpec => []BytesAreTheDevices
  <1>1. DeviceInit => DevInv
    BY DevNumbers DEF DeviceInit, DevInv, NoAnswer
  <1>2. DevInv /\ [DeviceNext]_devVars => DevInv'
    <2> SUFFICES ASSUME DevInv, [DeviceNext]_devVars PROVE DevInv'
      OBVIOUS
    <2>1. CASE PageArrives
      BY <2>1 DEF PageArrives, DevInv, NoAnswer, sdVs
    <2>2. CASE sd_dev_write_ends
      BY <2>2, DevNumbers DEF sd_dev_write_ends, SeekFails, DevInv, NoAnswer
    <2>3. ASSUME NEW c \in DevApps, launch_entry(c) \/ retire_revokes(c) \/ shell_perms(c) PROVE DevInv'
      BY <2>3 DEF launch_entry, retire_revokes, shell_perms, device_grant, DevInv, NoAnswer, sdVs
    <2>4. ASSUME NEW c \in DevCallers, sd_dev_write_offset(c) PROVE DevInv'
      BY <2>4, DevNumbers DEF sd_dev_write_offset, DevInv, NoAnswer
    <2>5. ASSUME NEW c \in DevCallers, NEW lba \in Lbas, sd_dev_write(c, lba) PROVE DevInv'
      BY <2>5 DEF sd_dev_write, DevInv, NoAnswer, NOTHING
    <2>6. ASSUME NEW c \in DevCallers, NEW n \in 1 .. XFER_MAX, device_xfer_out(c, "echo", n) PROVE DevInv'
      BY <2>6 DEF device_xfer_out, DevInv, NoAnswer, sdVs
    <2>7. CASE UNCHANGED devVars
      BY <2>7 DEF devVars, sdVs, DevInv
    <2> QED
      BY <2>1, <2>2, <2>3, <2>4, <2>5, <2>6, <2>7, TransferIsDue DEF DeviceNext
  <1>3. DevInv => BytesAreTheDevices
    BY DEF DevInv, BytesAreTheDevices
  <1> QED
    BY <1>1, <1>2, <1>3, PTL DEF DeviceSpec

-----------------------------------------------------------------------------
(* The virtual machine's bounds.                                            *)

LEMMA VmNumbers ==
    /\ WordRange \in Nat /\ WordRange > 0
    /\ VmSize \in Nat /\ VmSize < WordRange
    /\ VM_INSN_BYTES \in Nat /\ VM_INSN_BYTES > 0 /\ VM_INSN_BYTES < WordRange
    /\ PanelW \in Nat /\ PanelW < WordRange /\ PanelH \in Nat
    /\ ViewX \in Nat /\ ViewW \in Nat /\ ViewX + ViewW <= PanelW
    /\ VM_STR_MAX \in Nat /\ VM_CALL_DEPTH \in Nat
  BY VmAssumption DEF Words

\* A word is its own remainder.
LEMMA WrapIsWord == /\ \A n \in Int : 0 <= n /\ n < WordRange => Wrap(n) = n
                    /\ \A n \in Int : Wrap(n) \in Words
  BY ModTurn, VmNumbers DEF Wrap, Words

\* What the bounds check lets through lies in the arena, whatever the words: the sum it
\* avoids is the one that would wrap.
LEMMA InBounds ==
    ASSUME NEW off \in Words, NEW len \in Nat, vm_in_bounds(off, len)
    PROVE  Outside(Reach(off, len)) = {}
  <1>1. off \in Nat /\ off + len <= VmSize
    BY VmNumbers DEF vm_in_bounds, Words
  <1>2. ASSUME NEW i \in 0 .. (len - 1) PROVE Wrap(off + i) \in 0 .. (VmSize - 1)
    BY <1>1, VmNumbers, WrapIsWord
  <1> QED
    BY <1>2 DEF Outside, Reach

\* A text that is checked a byte at a time.
LEMMA TextInBounds ==
    ASSUME NEW off \in Words, NEW n \in Nat, StringRead(off, n)
    PROVE  Outside(Reach(off, n)) = {}
  <1>1. ASSUME NEW i \in 0 .. (n - 1) PROVE Wrap(off + i) \in 0 .. (VmSize - 1)
    <2>1. Wrap(off + i) \in Words
      BY WrapIsWord, VmNumbers DEF Words
    <2> QED
      BY <2>1, VmNumbers DEF StringRead, vm_in_bounds, Words
  <1> QED
    BY <1>1 DEF Outside, Reach

\* Columns that start x into the viewport and end before it does.
LEMMA InView ==
    ASSUME NEW x \in Nat, NEW w \in Nat, x + w <= ViewW
    PROVE  OffView(Columns(Wrap(ViewX + x), w)) = {}
  <1>1. ASSUME NEW i \in 0 .. (w - 1)
        PROVE  x + i \in 0 .. (ViewW - 1) /\ Wrap(Wrap(ViewX + x) + i) = Wrap(ViewX + (x + i))
    <2>1. Wrap(ViewX + x) = ViewX + x
      BY VmNumbers, WrapIsWord
    <2> QED
      BY <2>1, VmNumbers
  <1> QED
    BY <1>1 DEF OffView, Columns

LEMMA FillInView == ASSUME NEW x \in Words, NEW w \in Words PROVE OffView(vp_fill(x, w)) = {}
  <1> DEFINE cw == IF w > ViewW - x THEN ViewW - x ELSE w
  <1>1. CASE x >= ViewW
    BY <1>1 DEF vp_fill, OffView
  <1>2. CASE x < ViewW
    <2>1. x \in Nat /\ cw \in Nat /\ x + cw <= ViewW
      BY <1>2, VmNumbers DEF Words
    <2>2. vp_fill(x, w) \in {{}, Columns(Wrap(ViewX + x), cw)}
      BY DEF vp_fill
    <2>3. OffView(Columns(Wrap(ViewX + x), cw)) = {}
      BY <2>1, InView
    <2>4. OffView({}) = {}
      BY DEF OffView
    <2> QED
      BY <2>2, <2>3, <2>4
  <1> QED
    BY <1>1, <1>2, VmNumbers DEF Words

LEMMA TextInView ==
    ASSUME NEW x \in Words, NEW len \in Nat, NEW scale \in 1 .. 2
    PROVE  OffView(vp_text(x, len, scale)) = {}
  <1> DEFINE room == (ViewW - x) \div scale
             n    == IF len < room THEN len ELSE room
  <1>1. CASE x >= ViewW
    BY <1>1 DEF vp_text, OffView
  <1>2. CASE x < ViewW
    <2>1. x \in Nat /\ ViewW - x \in Nat /\ ViewW \in Nat
      BY <1>2, VmNumbers DEF Words
    <2>2. room \in Nat /\ room * scale <= ViewW - x
      <3>1. CASE scale = 1
        BY <2>1, <3>1
      <3>2. CASE scale = 2
        BY <2>1, <3>2
      <3> QED
        BY <3>1, <3>2
    <2> HIDE DEF room
    <2>3. n * scale \in Nat /\ x + n * scale <= ViewW
      <3>1. CASE scale = 1
        BY <2>1, <2>2, <3>1
      <3>2. CASE scale = 2
        BY <2>1, <2>2, <3>2
      <3> QED
        BY <3>1, <3>2
    <2>4. vp_text(x, len, scale) = Columns(Wrap(ViewX + x), n * scale)
      BY <1>2, <2>1 DEF vp_text, room
    <2> QED
      BY <2>1, <2>3, <2>4, InView
  <1> QED
    BY <1>1, <1>2, VmNumbers DEF Words

\* A place in a picture of w by h comes before its end.
LEMMA Picture ==
    ASSUME NEW w \in Nat, NEW h \in Nat, NEW r \in 0 .. (h - 1), NEW c \in 0 .. (w - 1)
    PROVE  r * w + c \in Nat /\ r * w + c < w * h
  <1>1. r * w \in Nat /\ (r + 1) * w = r * w + w
    OBVIOUS
  <1>2. (r + 1) * w <= h * w
    OBVIOUS
  <1>3. w * h \in Nat /\ h * w = w * h
    OBVIOUS
  <1> QED
    BY <1>1, <1>2, <1>3

LEMMA BlitInside ==
    ASSUME NEW off \in Words, NEW x \in Words, NEW w \in 1 .. PanelW, NEW h \in 1 .. PanelH,
           vmarg_items(off, w * h, 2, PanelW * PanelH, 2), x < ViewW,
           NEW cw, cw = IF w > ViewW - x THEN ViewW - x ELSE w
    PROVE  /\ Outside(BlitBytes(off, w, h, cw)) = {}
           /\ OffView(Columns(Wrap(ViewX + x), cw)) = {}
  <1>1. x \in Nat /\ w \in Nat /\ h \in Nat /\ off \in Nat /\ cw \in Nat /\ cw <= w /\ x + cw <= ViewW
    BY VmNumbers DEF Words
  <1> DEFINE count == w * h
  <1>2. count \in Nat
    BY <1>1
  <1>3. count <= (WordRange - 1) \div 2 /\ vmarg_span(off, Wrap(count * 2), 2)
    BY DEF vmarg_items
  <1>a. \A r \in 0 .. (h - 1), c \in 0 .. (w - 1) : r * w + c \in Nat /\ r * w + c < count
    BY <1>1, Picture
  <1> HIDE DEF count
  <1>4. count * 2 \in Nat /\ count * 2 < WordRange
    BY <1>2, <1>3, VmNumbers
  <1>5. Wrap(count * 2) = count * 2
    BY <1>4, WrapIsWord
  <1>6. off + count * 2 <= VmSize
    <2>1. vm_in_bounds(off, count * 2)
      BY <1>3, <1>5 DEF vmarg_span
    <2> QED
      BY <1>1, <1>4, <2>1, VmNumbers DEF vm_in_bounds
  <1>7. ASSUME NEW r \in 0 .. (h - 1), NEW c \in 0 .. (cw - 1)
        PROVE  Outside(Reach(Wrap(off + 2 * (r * w + c)), 2)) = {}
    <2> DEFINE p == r * w + c
    <2>1. c \in 0 .. (w - 1)
      BY <1>1
    <2>2. p \in Nat /\ p < count
      BY <1>a, <2>1
    <2> HIDE DEF p
    <2>3. off + 2 * p \in Nat /\ off + 2 * p + 2 <= VmSize
      BY <1>1, <1>2, <1>6, <2>2, VmNumbers
    <2>4. Wrap(off + 2 * p) = off + 2 * p
      BY <2>3, VmNumbers, WrapIsWord
    <2>5. off + 2 * p \in Words /\ vm_in_bounds(off + 2 * p, 2)
      BY <2>3, VmNumbers DEF Words, vm_in_bounds
    <2>6. Outside(Reach(Wrap(off + 2 * p), 2)) = {}
      BY <2>4, <2>5, InBounds
    <2> QED
      BY <2>6 DEF p
  <1>8. OffView(Columns(Wrap(ViewX + x), cw)) = {}
    BY <1>1, InView
  <1>9. ASSUME NEW r \in 0 .. (h - 1), NEW c \in 0 .. (cw - 1),
               NEW b \in Reach(Wrap(off + 2 * (r * w + c)), 2)
        PROVE  b \in 0 .. (VmSize - 1)
    BY <1>7 DEF Outside
  <1>10. ASSUME NEW b \in BlitBytes(off, w, h, cw) PROVE b \in 0 .. (VmSize - 1)
    <2>1. PICK r \in 0 .. (h - 1), c \in 0 .. (cw - 1) : b \in Reach(Wrap(off + 2 * (r * w + c)), 2)
      BY DEF BlitBytes
    <2> QED
      BY <1>9, <2>1
  <1> QED
    BY <1>8, <1>10 DEF Outside

\* What runs in a handler stands on what it interrupted: the return addresses below the
\* handler's own are the ones the program had, with the place to come back to on top.
InHandler ==
    \E call \in Seq(Words) :
        /\ h_context = <<v_call[v_handler_sp + 1], call, v_saved>>
        /\ v_handler_sp = Len(call) /\ Len(call) < Len(v_call)
        /\ \A i \in 1 .. Len(call) : v_call[i] = call[i]

VmInv ==
    /\ StaysInside
    /\ v_handler \in [Events -> Words] /\ v_pending \subseteq Events
    /\ v_pc \in Words /\ v_call \in Seq(Words) /\ v_in_handler \in BOOLEAN
    /\ v_in_handler => InHandler

LEMMA VmInitInv == VmInit => VmInv
  <1> SUFFICES ASSUME VmInit PROVE VmInv
    OBVIOUS
  <1>1. 0 \in Words
    BY VmNumbers DEF Words
  <1>2. v_in_handler = FALSE /\ v_call \in Seq(Words)
    BY DEF VmInit
  <1> QED
    BY <1>1, <1>2 DEF VmInit, VmInv, StaysInside, Events

\* What a fault, an instruction that only computes, or a jump leaves alone.
LEMMA VmKeeps ==
    ASSUME VmInv, UNCHANGED <<v_call, v_in_handler, v_handler_sp, v_saved, h_context>>,
           v_pc' \in Words, UNCHANGED <<v_handler, v_pending>>, h_outside' = {}
    PROVE  VmInv'
  <1>1. v_in_handler => InHandler'
    BY DEF InHandler, VmInv
  <1> QED
    BY <1>1 DEF VmInv, StaysInside

\* A step that ends the instruction or faults, and reached nothing outside.
LEMMA VmEnds ==
    ASSUME VmInv, vm_raise \/ \E f : Advances(f),
           UNCHANGED <<v_handler, v_pending>>, NEW bad, bad = {},
           h_outside' = h_outside \/ Reaches(bad)
    PROVE  VmInv'
  <1>1. Next4 \in Words /\ v_pc \in Words
    BY VmNumbers, WrapIsWord DEF Next4, VmInv, Words
  <1>2. v_pc' \in Words /\ UNCHANGED <<v_call, v_in_handler, v_handler_sp, v_saved, h_context>>
    BY <1>1 DEF vm_raise, Advances
  <1>3. h_outside' = {}
    BY DEF Reaches, VmInv, StaysInside
  <1> QED
    BY <1>2, <1>3, VmKeeps

LEMMA VmComputes == ASSUME VmInv, BadPc \/ Computes \/ vm_halt \/ Jumps PROVE VmInv'
  <1>1. CASE BadPc \/ Computes
    BY <1>1, VmEnds DEF BadPc, Computes
  <1>2. CASE vm_halt \/ Jumps
    <2>1. v_pc' \in Words /\ h_outside' = {} /\ UNCHANGED <<v_handler, v_pending>>
          /\ UNCHANGED <<v_call, v_in_handler, v_handler_sp, v_saved, h_context>>
      BY <1>2 DEF vm_halt, Jumps, Aligned, VmInv, StaysInside
    <2> QED
      BY <2>1, VmKeeps
  <1> QED
    BY <1>1, <1>2

LEMMA VmCalls == ASSUME VmInv, vm_call PROVE VmInv'
  <1>1. CASE Len(v_call) >= VM_CALL_DEPTH
    BY <1>1, VmEnds DEF vm_call
  <1>2. CASE ~(Len(v_call) >= VM_CALL_DEPTH)
    <2>1. /\ v_call' = Append(v_call, Next4) /\ v_pc' \in Words /\ Next4 \in Words
          /\ UNCHANGED <<v_in_handler, v_handler_sp, v_saved, h_context, v_handler, v_pending, h_outside>>
      BY <1>2, VmNumbers, WrapIsWord DEF vm_call, Aligned, Next4, VmInv, Words
    <2>2. v_call \in Seq(Words) /\ v_call' \in Seq(Words) /\ Len(v_call') = Len(v_call) + 1
          /\ \A i \in 1 .. Len(v_call) : v_call'[i] = v_call[i]
      BY <2>1 DEF VmInv
    <2>3. v_in_handler => InHandler'
      <3> SUFFICES ASSUME v_in_handler PROVE InHandler'
        OBVIOUS
      <3>1. PICK call \in Seq(Words) :
                /\ h_context = <<v_call[v_handler_sp + 1], call, v_saved>>
                /\ v_handler_sp = Len(call) /\ Len(call) < Len(v_call)
                /\ \A i \in 1 .. Len(call) : v_call[i] = call[i]
        BY DEF VmInv, InHandler
      <3>2. Len(call) \in Nat /\ Len(v_call) \in Nat
        BY <2>2
      <3>3. v_call'[v_handler_sp + 1] = v_call[v_handler_sp + 1] /\ Len(call) < Len(v_call')
            /\ \A i \in 1 .. Len(call) : v_call'[i] = call[i]
        <4>1. v_handler_sp + 1 \in 1 .. Len(v_call) /\ 1 .. Len(call) \subseteq 1 .. Len(v_call)
          BY <3>1, <3>2
        <4> QED
          BY <2>2, <3>1, <3>2, <4>1
      <3> QED
        BY <2>1, <3>1, <3>3 DEF InHandler
    <2> QED
      BY <2>1, <2>2, <2>3 DEF VmInv, StaysInside
  <1> QED
    BY <1>1, <1>2

\* A return within the handler leaves what it stands on; the one that leaves it finds
\* the interrupted program as it was.
LEMMA VmReturns ==
    ASSUME VmInv, vm_ret
    PROVE  VmInv' /\ (v_in_handler /\ ~v_in_handler' => <<v_pc', v_call', v_file'>> = h_context)
  <1> DEFINE sp == Len(v_call) - 1
  <1>1. CASE v_call = <<>>
    <2>1. vm_raise /\ UNCHANGED <<v_handler, v_pending, h_outside>>
      BY <1>1 DEF vm_ret
    <2> QED
      BY <2>1, VmEnds DEF vm_raise
  <1>2. CASE v_call # <<>>
    <2>1. /\ v_pc' = v_call[Len(v_call)] /\ v_call' = SubSeq(v_call, 1, sp)
          /\ v_file' = IF LeavesHandler(sp) THEN v_saved ELSE v_file
          /\ v_in_handler' = (v_in_handler /\ ~LeavesHandler(sp))
          /\ h_context' = IF LeavesHandler(sp) THEN NOCONTEXT ELSE h_context
          /\ UNCHANGED <<v_handler_sp, v_saved, v_handler, v_pending, h_outside>>
      BY <1>2 DEF vm_ret
    <2>2. /\ v_call \in Seq(Words) /\ Len(v_call) \in Nat /\ sp \in Nat
          /\ v_call' \in Seq(Words) /\ Len(v_call') = sp /\ v_pc' \in Words
          /\ \A i \in 1 .. sp : v_call'[i] = v_call[i]
      <3>1. v_call \in Seq(Words) /\ Len(v_call) \in Nat /\ Len(v_call) # 0
        BY <1>2, EmptySeq DEF VmInv
      <3>2. sp \in Nat /\ sp <= Len(v_call) /\ Len(v_call) \in 1 .. Len(v_call)
        BY <3>1
      <3>3. v_call[Len(v_call)] \in Words
        BY <3>1, <3>2
      <3>4. \A i \in 1 .. sp : v_call[i] \in Words
        BY <3>1, <3>2
      <3>5. /\ SubSeq(v_call, 1, sp) \in Seq(Words) /\ Len(SubSeq(v_call, 1, sp)) = sp
            /\ \A i \in 1 .. sp : SubSeq(v_call, 1, sp)[i] = v_call[i]
        <4> HIDE DEF sp
        <4>1. 1 \in Int /\ sp \in Int /\ sp - 1 + 1 = sp /\ (IF 1 <= sp THEN sp - 1 + 1 ELSE 0) = sp
          BY <3>2
        <4>2. /\ SubSeq(v_call, 1, sp) \in Seq(Words)
              /\ Len(SubSeq(v_call, 1, sp)) = IF 1 <= sp THEN sp - 1 + 1 ELSE 0
              /\ \A i \in 1 .. sp - 1 + 1 : SubSeq(v_call, 1, sp)[i] = v_call[1 + i - 1]
          BY <3>4, <4>1, SubSeqProperties
        <4>3. \A i \in 1 .. sp : 1 + i - 1 = i
          BY <3>2
        <4> QED
          BY <4>1, <4>2, <4>3
      <3> QED
        BY <2>1, <3>1, <3>2, <3>3, <3>5
    <2>3. CASE ~v_in_handler
      BY <2>1, <2>2, <2>3 DEF VmInv, StaysInside
    <2>4. CASE v_in_handler
      <3>1. PICK call \in Seq(Words) :
                /\ h_context = <<v_call[v_handler_sp + 1], call, v_saved>>
                /\ v_handler_sp = Len(call) /\ Len(call) < Len(v_call)
                /\ \A i \in 1 .. Len(call) : v_call[i] = call[i]
        BY <2>4 DEF VmInv, InHandler
      <3>2. Len(call) \in Nat
        OBVIOUS
      <3>3. CASE sp = v_handler_sp
        <4>1. ~v_in_handler' /\ v_file' = v_saved
          BY <2>1, <2>4, <3>3 DEF LeavesHandler
        <4>2. v_call' = call
          <5>1. Len(v_call') = Len(call) /\ \A i \in 1 .. Len(v_call') : v_call'[i] = call[i]
            BY <2>2, <3>1, <3>2, <3>3
          <5> QED
            BY <2>2, <5>1, SeqEqual
        <4>3. v_pc' = v_call[v_handler_sp + 1]
          BY <2>1, <2>2, <3>3
        <4> QED
          BY <2>1, <2>2, <3>1, <4>1, <4>2, <4>3 DEF VmInv, StaysInside
      <3>4. CASE sp # v_handler_sp
        <4>1. v_in_handler' /\ h_context' = h_context
          BY <2>1, <2>4, <3>4 DEF LeavesHandler
        <4>2. /\ Len(call) < Len(v_call') /\ v_call'[v_handler_sp + 1] = v_call[v_handler_sp + 1]
              /\ \A i \in 1 .. Len(call) : v_call'[i] = call[i]
          BY <2>2, <3>1, <3>2, <3>4
        <4>3. InHandler'
          BY <2>1, <3>1, <4>1, <4>2 DEF InHandler
        <4> QED
          BY <2>1, <2>2, <4>1, <4>3 DEF VmInv, StaysInside
      <3> QED
        BY <3>3, <3>4
    <2> QED
      BY <2>3, <2>4 DEF VmInv
  <1> QED
    BY <1>1, <1>2

LEMMA VmReaches ==
    ASSUME VmInv, LoadOrStore \/ vm_puts \/ vm_fill \/ vm_text \/ vm_blit \/ vm_touch
                  \/ vm_device \/ vm_send_recv
    PROVE  VmInv'
  <1>a. Outside({}) = {} /\ OffView({}) = {} /\ {} \cup {} = {}
    BY DEF Outside, OffView
  <1>1. CASE LoadOrStore
    <2>1. PICK off \in Words, f \in Files, len \in {1, VM_INSN_BYTES} :
            IF vm_in_bounds(off, len) /\ off % len = 0
            THEN Advances(f) /\ Reaches(Outside(Reach(off, len)))
            ELSE vm_raise /\ UNCHANGED h_outside
      BY <1>1 DEF LoadOrStore
    <2>2. len \in Nat
      BY VmNumbers
    <2> QED
      BY <1>1, <2>1, <2>2, InBounds, VmEnds DEF LoadOrStore
  <1>2. CASE vm_puts
    <2>1. PICK off \in Words, n \in 1 .. VmSize :
            IF StringRead(off, n)
            THEN (vm_raise \/ Advances(v_file)) /\ Reaches(Outside(Reach(off, n)))
            ELSE vm_raise /\ UNCHANGED h_outside
      BY <1>2 DEF vm_puts
    <2> QED
      <3>1. n \in Nat
        BY VmNumbers
      <3>2. CASE StringRead(off, n)
        BY <1>2, <2>1, <3>1, <3>2, TextInBounds, VmEnds DEF vm_puts
      <3>3. CASE ~StringRead(off, n)
        BY <1>2, <2>1, <3>3, VmEnds DEF vm_puts
      <3> QED
        BY <3>2, <3>3
  <1>3. CASE vm_fill
    BY <1>3, FillInView, VmEnds DEF vm_fill
  <1>4. CASE vm_text
    <2>1. PICK off \in Words, n \in 1 .. (VM_STR_MAX - 1), x \in Words, scale \in 1 .. 2 :
            IF StringRead(off, n)
            THEN /\ Advances(v_file)
                 /\ Reaches(Outside(Reach(off, n)) \cup OffView(vp_text(x, n, scale)))
            ELSE vm_raise /\ UNCHANGED h_outside
      BY <1>4 DEF vm_text
    <2>2. n \in Nat
      BY VmNumbers
    <2>3. OffView(vp_text(x, n, scale)) = {}
      BY <2>2, TextInView
    <2>4. StringRead(off, n) => Outside(Reach(off, n)) \cup OffView(vp_text(x, n, scale)) = {}
      BY <2>2, <2>3, <1>a, TextInBounds
    <2> QED
      BY <1>4, <2>1, <2>4, VmEnds DEF vm_text
  <1>5. CASE vm_blit
    <2>1. PICK off \in Words, x \in Words, w \in 1 .. PanelW, h \in 1 .. PanelH, f \in Files :
            LET cw == IF w > ViewW - x THEN ViewW - x ELSE w
            IN  IF vmarg_items(off, w * h, 2, PanelW * PanelH, 2)
                THEN /\ Advances(f)
                     /\ Reaches(IF x < ViewW THEN Outside(BlitBytes(off, w, h, cw))
                                                  \cup OffView(Columns(Wrap(ViewX + x), cw))
                                             ELSE {})
                ELSE vm_raise /\ UNCHANGED h_outside
      BY <1>5 DEF vm_blit
    <2> DEFINE cw == IF w > ViewW - x THEN ViewW - x ELSE w
    <2>2. CASE vmarg_items(off, w * h, 2, PanelW * PanelH, 2)
      <3>1. x < ViewW => Outside(BlitBytes(off, w, h, cw)) = {}
                         /\ OffView(Columns(Wrap(ViewX + x), cw)) = {}
        BY <2>2, BlitInside
      <3> HIDE DEF cw
      <3> DEFINE bad == IF x < ViewW THEN Outside(BlitBytes(off, w, h, cw))
                                          \cup OffView(Columns(Wrap(ViewX + x), cw))
                                     ELSE {}
      <3>2. bad = {}
        BY <1>a, <3>1
      <3>3. Advances(f) /\ Reaches(bad)
        BY <2>1, <2>2 DEF cw
      <3> HIDE DEF bad
      <3> QED
        BY <1>5, <3>2, <3>3, VmEnds DEF vm_blit
    <2>3. CASE ~vmarg_items(off, w * h, 2, PanelW * PanelH, 2)
      BY <1>5, <2>1, <2>3, VmEnds DEF vm_blit
    <2> QED
      BY <2>2, <2>3
  <1>6. CASE vm_touch
    <2>1. PICK x \in 0 .. (PanelW - 1) :
            Reaches(IF x >= ViewX /\ Wrap(x - ViewX) < ViewW THEN OffView(Columns(x, 1)) ELSE {})
      BY <1>6 DEF vm_touch
    <2>2. ASSUME x >= ViewX, Wrap(x - ViewX) < ViewW PROVE OffView(Columns(x, 1)) = {}
      <3>1. x - ViewX \in Nat /\ x - ViewX < WordRange /\ ViewX + (x - ViewX) = x /\ x < WordRange
        BY <2>2, VmNumbers
      <3>2. Wrap(x - ViewX) = x - ViewX /\ Wrap(x) = x
        BY <3>1, WrapIsWord
      <3>3. (x - ViewX) + 1 <= ViewW
        BY <2>2, <3>1, <3>2, VmNumbers
      <3> QED
        BY <3>1, <3>2, <3>3, InView
    <2> QED
      BY <1>6, <2>1, <2>2, VmEnds DEF vm_touch
  <1>7. CASE vm_device
    <2>1. PICK off \in Words, len \in 1 .. VM_STR_MAX :
            IF vmarg_span(off, len, 1) THEN Advances(v_file) /\ Reaches(Outside(Reach(off, len)))
                                       ELSE vm_raise /\ UNCHANGED h_outside
      BY <1>7 DEF vm_device
    <2> QED
      <3>1. len \in Nat
        BY VmNumbers
      <3>2. CASE vmarg_span(off, len, 1)
        BY <1>7, <2>1, <3>1, <3>2, InBounds, VmEnds DEF vm_device, vmarg_span
      <3>3. CASE ~vmarg_span(off, len, 1)
        BY <1>7, <2>1, <3>3, VmEnds DEF vm_device
      <3> QED
        BY <3>2, <3>3
  <1>8. CASE vm_send_recv
    <2>1. PICK off \in Words, len \in 1 .. VmSize :
            Reaches(IF vm_in_bounds(off, len) THEN Outside(Reach(off, len)) ELSE {})
      BY <1>8 DEF vm_send_recv
    <2> QED
      BY <1>8, <2>1, InBounds, VmEnds DEF vm_send_recv
  <1> QED
    BY <1>1, <1>2, <1>3, <1>4, <1>5, <1>6, <1>7, <1>8

LEMMA VmEvents ==
    ASSUME VmInv, NEW e \in Events, vm_sys_event(e) \/ vm_event_poll(e)
    PROVE  VmInv'
  <1>1. CASE vm_event_poll(e)
    <2>1. UNCHANGED <<v_pc, v_call, v_in_handler, v_handler_sp, v_saved, h_context>>
      BY <1>1 DEF vm_event_poll, machine
    <2> QED
      BY <1>1, <2>1 DEF vm_event_poll, VmInv, StaysInside, InHandler
  <1>2. CASE vm_sys_event(e)
    <2>1. PICK off \in Words :
            \/ /\ off = 0 /\ v_handler' = [v_handler EXCEPT ![e] = 0] /\ v_pending' = v_pending \ {e}
               /\ \E f \in Files : Advances(f)
            \/ /\ off # 0 /\ v_handler' = [v_handler EXCEPT ![e] = off] /\ UNCHANGED v_pending
               /\ \E f \in Files : Advances(f)
            \/ vm_raise /\ UNCHANGED <<v_handler, v_pending>>
      BY <1>2 DEF vm_sys_event
    <2>2. /\ h_outside' = {} /\ v_pc' \in Words
          /\ UNCHANGED <<v_call, v_in_handler, v_handler_sp, v_saved, h_context>>
      BY <1>2, <2>1, VmNumbers, WrapIsWord
         DEF vm_sys_event, vm_raise, Advances, Next4, VmInv, StaysInside, Words
    <2>3. v_in_handler => InHandler'
      BY <2>2 DEF InHandler, VmInv
    <2>4. /\ v_handler' \in [Events -> Words] /\ v_pending' \subseteq Events
          /\ \A d \in v_pending' : v_handler'[d] # 0
      BY <2>1, VmNumbers DEF VmInv, StaysInside, Words
    <2> QED
      BY <2>2, <2>3, <2>4 DEF VmInv, StaysInside
  <1> QED
    BY <1>1, <1>2

LEMMA VmDispatches == ASSUME VmInv, vm_event_dispatch PROVE VmInv'
  <1> DEFINE e == IF "tick" \in v_pending THEN "tick" ELSE "key"
  <1>1. /\ e \in Events /\ ~v_in_handler /\ v_in_handler' = TRUE
        /\ v_saved' = v_file /\ v_handler_sp' = Len(v_call) /\ v_call' = Append(v_call, v_pc)
        /\ v_pc' = v_handler[e] /\ v_pending' = v_pending \ {e}
        /\ h_context' = <<v_pc, v_call, v_file>> /\ UNCHANGED <<v_handler, h_outside>>
    BY DEF vm_event_dispatch, Events
  <1>2. /\ v_call \in Seq(Words) /\ v_call' \in Seq(Words) /\ Len(v_call) \in Nat
        /\ Len(v_call') = Len(v_call) + 1 /\ v_call'[Len(v_call) + 1] = v_pc
        /\ \A i \in 1 .. Len(v_call) : v_call'[i] = v_call[i]
    BY <1>1 DEF VmInv
  <1>3. InHandler'
    BY <1>1, <1>2 DEF InHandler
  <1> HIDE DEF e
  <1> QED
    BY <1>1, <1>2, <1>3 DEF VmInv, StaysInside

LEMMA VmStep ==
    VmInv /\ [VmNext]_vmVars =>
        VmInv' /\ (v_in_handler /\ ~v_in_handler' => <<v_pc', v_call', v_file'>> = h_context)
  <1> SUFFICES ASSUME VmInv, [VmNext]_vmVars
               PROVE  VmInv' /\ (v_in_handler /\ ~v_in_handler'
                                    => <<v_pc', v_call', v_file'>> = h_context)
    OBVIOUS
  <1>1. CASE vm_ret
    BY <1>1, VmReturns
  <1>2. CASE BadPc \/ Computes \/ vm_halt \/ Jumps
    BY <1>2, VmComputes DEF BadPc, Computes, vm_halt, Jumps, Advances, vm_raise
  <1>3. CASE vm_call
    BY <1>3, VmCalls DEF vm_call, vm_raise
  <1>4. CASE LoadOrStore \/ vm_puts \/ vm_fill \/ vm_text \/ vm_blit \/ vm_touch
             \/ vm_device \/ vm_send_recv
    <2>1. v_in_handler' = v_in_handler
      BY <1>4 DEF LoadOrStore, vm_puts, vm_fill, vm_text, vm_blit, vm_touch, vm_device,
                  vm_send_recv, Advances, vm_raise
    <2> QED
      BY <1>4, <2>1, VmReaches
  <1>5. CASE \E e \in Events : vm_sys_event(e) \/ vm_event_poll(e)
    <2>1. v_in_handler' = v_in_handler
      BY <1>5 DEF vm_sys_event, vm_event_poll, machine, Advances, vm_raise
    <2> QED
      BY <1>5, <2>1, VmEvents
  <1>6. CASE vm_event_dispatch
    BY <1>6, VmDispatches DEF vm_event_dispatch
  <1>7. CASE UNCHANGED vmVars
    BY <1>7 DEF vmVars, machine, VmInv, StaysInside, InHandler
  <1> QED
    BY <1>1, <1>2, <1>3, <1>4, <1>5, <1>6, <1>7 DEF VmNext

\* For every word size, arena, panel and viewport, nothing a program computes reaches a
\* byte outside its arena or a column outside its viewport, and no event is pending
\* without a handler (vm.c, vmarg.c).
THEOREM ProgramsStayInside == VmSpec => []StaysInside
  <1>1. VmInit => VmInv
    BY VmInitInv
  <1>2. VmInv /\ [VmNext]_vmVars => VmInv'
    BY VmStep
  <1>3. VmInv => StaysInside
    BY DEF VmInv
  <1> QED
    BY <1>1, <1>2, <1>3, PTL DEF VmSpec

\* The code an event interrupts cannot tell that its handler ran: the place, the return
\* addresses and the registers are the ones it had (vm.c, RET and vm_event_dispatch).
THEOREM EventsAreTransparent == VmSpec => HandlerIsTransparent
  <1>1. VmInit => VmInv
    BY VmInitInv
  <1>2. VmInv /\ [VmNext]_vmVars => VmInv'
    BY VmStep
  <1>3. VmInv /\ [VmNext]_vmVars
        => [v_in_handler /\ ~v_in_handler' => <<v_pc', v_call', v_file'>> = h_context]_vmVars
    BY VmStep
  <1> QED
    BY <1>1, <1>2, <1>3, PTL DEF VmSpec, HandlerIsTransparent

-----------------------------------------------------------------------------
(* Reading the card (Sd.tla).                                               *)

LEMMA SdNumbers ==
    /\ SD_BLOCK_SIZE \in Nat /\ SD_BLOCK_SIZE >= 2 /\ Batch \in Nat /\ Batch > 0
    /\ Batch <= SD_BLOCK_SIZE /\ MaxIdle \in Nat /\ DiagnosticsShare \in BOOLEAN
  BY SdAssumption

LEMMA DivOf ==
    ASSUME NEW m \in Int, m > 0, NEW q \in Int, NEW r \in 0 .. m - 1
    PROVE  (m * q + r) \div m = q
  OBVIOUS

\* The card's stream, of the card's mode and delays: the bytes from one token to the
\* next, where a block's token is, and what is read from a place on.
Span(gap) == 1 + SD_BLOCK_SIZE + 2 + gap
Mark(lat, gap, b) == lat + Span(gap) * b
ByteOf(card, lat, gap, p) ==
    LET q == p - lat
        u == q \div Span(gap)
        r == q % Span(gap)
    IN  IF card = "idle" \/ q < 0 \/ (card = "single" /\ u > 0) THEN FF
        ELSE IF r = 0 THEN TOK
        ELSE IF r <= SD_BLOCK_SIZE THEN Data(u, r - 1)
        ELSE IF r <= SD_BLOCK_SIZE + 2 THEN CRC ELSE FF
BytesOf(card, lat, gap, p, n) == [i \in 1 .. n |-> ByteOf(card, lat, gap, p + i - 1)]

\* The first k bytes of a block.
Piece(b, k) == [i \in 1 .. k |-> Data(b, i - 1)]
\* n bytes of a block from its byte k on.
From(b, k, n) == [i \in 1 .. n |-> Data(b, k + i - 1)]

LEMMA SpanIs == ASSUME NEW gap \in Nat
                PROVE  Span(gap) \in Nat /\ Span(gap) = SD_BLOCK_SIZE + 3 + gap /\ Span(gap) > 0
  BY SdNumbers DEF Span

LEMMA NextSpan == ASSUME NEW lat \in Nat, NEW gap \in Nat, NEW b \in Nat
                  PROVE  /\ Mark(lat, gap, b) \in Nat /\ Mark(lat, gap, b) >= lat
                         /\ Mark(lat, gap, b + 1) = Mark(lat, gap, b) + SD_BLOCK_SIZE + 3 + gap
                         /\ Mark(lat, gap, 0) = lat
  <1> DEFINE s == Span(gap)
  <1>1. s \in Nat /\ s = SD_BLOCK_SIZE + 3 + gap
    BY SpanIs
  <1> HIDE DEF s
  <1>2. s * b \in Nat /\ s * (b + 1) = s * b + s /\ s * 0 = 0
    BY <1>1
  <1> QED
    BY <1>1, <1>2, SdNumbers DEF Mark, s

\* A block's bytes follow its token.
LEMMA ByteIs ==
    ASSUME NEW card \in {"single", "multi"}, NEW lat \in Nat, NEW gap \in Nat, NEW b \in Nat,
           NEW r \in 0 .. Span(gap) - 1
    PROVE  ByteOf(card, lat, gap, Mark(lat, gap, b) + r) =
               IF card = "single" /\ b > 0 THEN FF
               ELSE IF r = 0 THEN TOK
               ELSE IF r <= SD_BLOCK_SIZE THEN Data(b, r - 1)
               ELSE IF r <= SD_BLOCK_SIZE + 2 THEN CRC ELSE FF
  <1> DEFINE s == Span(gap)
             p == Mark(lat, gap, b) + r
  <1>1. s \in Nat /\ s > 0 /\ r \in 0 .. s - 1
    BY SpanIs
  <1>2. p - lat = s * b + r
    <2>1. s * b \in Int
      BY <1>1
    <2> QED
      BY <1>1, <2>1 DEF Mark
  <1> HIDE DEF s, p
  <1>3. (p - lat) \div s = b /\ (p - lat) % s = r
    BY <1>1, <1>2, DivOf, ModOf
  <1>4. ~(p - lat < 0)
    <2>1. s * b \in Nat
      BY <1>1
    <2> QED
      BY <1>1, <1>2, <2>1
  <1>5. ByteOf(card, lat, gap, p) =
               IF card = "single" /\ b > 0 THEN FF
               ELSE IF r = 0 THEN TOK
               ELSE IF r <= SD_BLOCK_SIZE THEN Data(b, r - 1)
               ELSE IF r <= SD_BLOCK_SIZE + 2 THEN CRC ELSE FF
    BY <1>3, <1>4 DEF ByteOf, s
  <1> QED
    BY <1>5 DEF p

\* Before the first token the card is idle.
LEMMA ByteBefore ==
    ASSUME NEW card, NEW lat \in Nat, NEW gap, NEW p \in Int, p < lat
    PROVE  ByteOf(card, lat, gap, p) = FF
  BY DEF ByteOf

\* Between blocks, behind one's CRC and before the other's token, or before the first.
Waits(lat, gap, b, pos) ==
    /\ pos \in Nat /\ pos <= Mark(lat, gap, b)
    /\ b = 0 => pos = 0
    /\ b > 0 => pos >= Mark(lat, gap, b - 1) + SD_BLOCK_SIZE + 3

Marks(card, lat, gap, pos) ==
    {p \in pos .. pos + 2 * MaxIdle + Span(gap) :
        ByteOf(card, lat, gap, p) # FF /\ \A q \in pos .. p - 1 : ByteOf(card, lat, gap, q) = FF}

LEMMA NextToken ==
    ASSUME NEW card \in {"single", "multi"}, NEW lat \in 0 .. MaxIdle, NEW gap \in 0 .. MaxIdle,
           NEW b \in Nat, b = 0 \/ card = "multi", NEW pos, Waits(lat, gap, b, pos)
    PROVE  /\ Marks(card, lat, gap, pos) = {Mark(lat, gap, b)}
           /\ ByteOf(card, lat, gap, Mark(lat, gap, b)) = TOK
  <1> DEFINE m == Mark(lat, gap, b)
  <1>0. lat \in Nat /\ gap \in Nat /\ m \in Nat /\ m >= lat /\ Span(gap) \in Nat
        /\ Span(gap) = SD_BLOCK_SIZE + 3 + gap /\ MaxIdle \in Nat /\ lat <= MaxIdle /\ gap <= MaxIdle
        /\ pos \in Nat /\ pos <= m /\ SD_BLOCK_SIZE \in Nat
    BY SdNumbers, NextSpan, SpanIs DEF Waits
  <1>1. ByteOf(card, lat, gap, m) = TOK
    <2>1. 0 \in 0 .. Span(gap) - 1 /\ m + 0 = m
      BY <1>0
    <2>2. ByteOf(card, lat, gap, m + 0) = TOK
      BY <1>0, <2>1, ByteIs
    <2> QED
      BY <2>1, <2>2
  <1>2. TOK # FF
    BY DEF TOK, FF
  <1>3. m <= pos + MaxIdle
    <2>1. CASE b = 0
      BY <1>0, <2>1, NextSpan DEF Waits
    <2>2. CASE b > 0
      <3>1. PICK c \in Nat : b = c + 1 /\ b - 1 = c
        BY <2>2
      <3>2. Mark(lat, gap, c + 1) = Mark(lat, gap, c) + SD_BLOCK_SIZE + 3 + gap /\ Mark(lat, gap, c) \in Nat
        <4>1. lat \in Nat /\ gap \in Nat /\ c \in Nat
          BY <1>0, <3>1
        <4> QED
          BY <4>1, NextSpan, ZenonT(60)
      <3>3. pos >= Mark(lat, gap, c) + SD_BLOCK_SIZE + 3
        BY <2>2, <3>1 DEF Waits
      <3> QED
        BY <1>0, <3>1, <3>2, <3>3
    <2> QED
      BY <2>1, <2>2
  <1>4. ASSUME NEW q \in pos .. m - 1 PROVE ByteOf(card, lat, gap, q) = FF
    <2>1. CASE b = 0
      <3>1. q < lat /\ q \in Int
        BY <1>0, <2>1, NextSpan
      <3> QED
        BY <1>0, <3>1, ByteBefore
    <2>2. CASE b > 0
      <3>1. PICK c \in Nat : b = c + 1 /\ b - 1 = c
        BY <2>2
      <3> DEFINE r == q - Mark(lat, gap, c)
      <3>0. Mark(lat, gap, c + 1) = Mark(lat, gap, c) + SD_BLOCK_SIZE + 3 + gap /\ Mark(lat, gap, c) \in Nat
        <4>1. lat \in Nat /\ gap \in Nat /\ c \in Nat
          BY <1>0, <3>1
        <4> QED
          BY <4>1, NextSpan, ZenonT(60)
      <3>2. m = Mark(lat, gap, c) + SD_BLOCK_SIZE + 3 + gap /\ Mark(lat, gap, c) \in Nat
        BY <3>0, <3>1
      <3>3. q \in Int /\ q >= Mark(lat, gap, c) + SD_BLOCK_SIZE + 3
        <4>1. pos >= Mark(lat, gap, c) + SD_BLOCK_SIZE + 3
          BY <2>2, <3>1 DEF Waits
        <4> QED
          BY <1>0, <3>2, <4>1
      <3>4. r \in 0 .. Span(gap) - 1 /\ r > SD_BLOCK_SIZE + 2 /\ Mark(lat, gap, c) + r = q
        BY <1>0, <3>2, <3>3
      <3> HIDE DEF r
      <3>5. r # 0 /\ ~(r <= SD_BLOCK_SIZE) /\ ~(r <= SD_BLOCK_SIZE + 2)
        BY <1>0, <3>4
      <3>6. ByteOf(card, lat, gap, Mark(lat, gap, c) + r) = FF
        <4>1. lat \in Nat /\ gap \in Nat /\ c \in Nat /\ r \in 0 .. Span(gap) - 1
          BY <1>0, <3>1, <3>4
        <4> QED
          BY <3>5, <4>1, ByteIs
      <3> QED
        BY <3>4, <3>6
    <2> QED
      BY <2>1, <2>2
  <1> HIDE DEF m
  <1>5. m \in pos .. pos + 2 * MaxIdle + Span(gap)
    BY <1>0, <1>3
  <1>6. ASSUME NEW p \in Marks(card, lat, gap, pos) PROVE p = m
    <2>1. /\ p \in pos .. pos + 2 * MaxIdle + Span(gap) /\ ByteOf(card, lat, gap, p) # FF
          /\ \A q \in pos .. p - 1 : ByteOf(card, lat, gap, q) = FF
      BY DEF Marks
    <2>2. p \in Int /\ p >= pos
      BY <1>0, <2>1
    <2>3. ~(p < m)
      <3>1. p < m => p \in pos .. m - 1
        BY <1>0, <2>2
      <3> QED
        BY <1>4, <2>1, <3>1
    <2>4. ~(m < p)
      <3>1. m < p => m \in pos .. p - 1
        BY <1>0, <2>2
      <3> QED
        BY <1>1, <1>2, <2>1, <3>1
    <2> QED
      BY <1>0, <2>2, <2>3, <2>4
  <1>7. m \in Marks(card, lat, gap, pos)
    BY <1>1, <1>2, <1>4, <1>5 DEF Marks
  <1> QED
    BY <1>1, <1>6, <1>7 DEF m

\* The card sends this block.
BlockComes(card, lat, gap, b) ==
    /\ card \in {"single", "multi"} /\ lat \in Nat /\ gap \in Nat /\ b \in Nat
    /\ b = 0 \/ card = "multi"

\* What is read behind a token is the block.
LEMMA BytesAre ==
    ASSUME NEW card, NEW lat, NEW gap, NEW b, BlockComes(card, lat, gap, b),
           NEW k \in 0 .. SD_BLOCK_SIZE, NEW n \in Nat
    PROVE  \A i \in 1 .. n : k + i <= SD_BLOCK_SIZE =>
               BytesOf(card, lat, gap, Mark(lat, gap, b) + 1 + k, n)[i] = Data(b, k + i - 1)
  <1> SUFFICES ASSUME NEW i \in 1 .. n, k + i <= SD_BLOCK_SIZE
               PROVE  BytesOf(card, lat, gap, Mark(lat, gap, b) + 1 + k, n)[i] = Data(b, k + i - 1)
    OBVIOUS
  <1>0. /\ card \in {"single", "multi"} /\ lat \in Nat /\ gap \in Nat /\ b \in Nat
        /\ ~(card = "single" /\ b > 0)
    BY DEF BlockComes
  <1>1. /\ SD_BLOCK_SIZE \in Nat /\ Span(gap) \in Nat /\ Span(gap) = SD_BLOCK_SIZE + 3 + gap
        /\ Mark(lat, gap, b) \in Nat
    BY <1>0, SdNumbers, SpanIs, NextSpan
  <1>2. /\ k + i \in 0 .. Span(gap) - 1 /\ k + i # 0 /\ k + i <= SD_BLOCK_SIZE
        /\ Mark(lat, gap, b) + 1 + k + i - 1 = Mark(lat, gap, b) + (k + i)
    BY <1>0, <1>1
  <1>3. ByteOf(card, lat, gap, Mark(lat, gap, b) + (k + i)) = Data(b, (k + i) - 1)
    BY <1>0, <1>2, ByteIs
  <1> QED
    BY <1>2, <1>3 DEF BytesOf

\* The token and what its batch brings with it.
BatchEnd(pos, p) == pos + Batch * ((p - pos) \div Batch + 1)

LEMMA BatchIs ==
    ASSUME NEW pos \in Nat, NEW p \in Nat, pos <= p
    PROVE  BatchEnd(pos, p) \in Nat /\ BatchEnd(pos, p) - p - 1 \in 0 .. SD_BLOCK_SIZE
  <1> DEFINE x == p - pos
             d == x \div Batch
             r == x % Batch
  <1>1. x \in Nat /\ Batch \in Nat /\ Batch > 0 /\ Batch <= SD_BLOCK_SIZE /\ SD_BLOCK_SIZE \in Nat
    BY SdNumbers
  <1>2. d \in Int /\ r \in Int /\ 0 <= r /\ r < Batch /\ x = Batch * d + r
    BY <1>1, DivMod, DivModType
  <1> HIDE DEF d, r
  <1>3. Batch * d \in Int /\ Batch * (d + 1) = Batch * d + Batch
    BY <1>1, <1>2
  <1>4. BatchEnd(pos, p) = pos + Batch * (d + 1)
    BY DEF BatchEnd, d
  <1> QED
    BY <1>1, <1>2, <1>3, <1>4

LEMMA TokenBrings ==
    ASSUME NEW card, NEW lat, NEW gap, NEW b, BlockComes(card, lat, gap, b),
           NEW k \in 0 .. SD_BLOCK_SIZE
    PROVE  BytesOf(card, lat, gap, Mark(lat, gap, b) + 1, k) = Piece(b, k)
  <1>0. /\ card \in {"single", "multi"} /\ lat \in Nat /\ gap \in Nat /\ b \in Nat
        /\ ~(card = "single" /\ b > 0)
    BY DEF BlockComes
  <1>1. /\ SD_BLOCK_SIZE \in Nat /\ Mark(lat, gap, b) \in Nat /\ 0 \in 0 .. SD_BLOCK_SIZE /\ k \in Nat
        /\ Mark(lat, gap, b) + 1 + 0 = Mark(lat, gap, b) + 1
    BY <1>0, SdNumbers, NextSpan
  <1>2. ASSUME NEW i \in 1 .. k
        PROVE  ByteOf(card, lat, gap, Mark(lat, gap, b) + 1 + i - 1) = Data(b, i - 1)
    <2>1. Span(gap) \in Nat /\ Span(gap) = SD_BLOCK_SIZE + 3 + gap
      BY <1>0, SpanIs
    <2>2. /\ i \in 0 .. Span(gap) - 1 /\ i # 0 /\ i <= SD_BLOCK_SIZE
          /\ Mark(lat, gap, b) + 1 + i - 1 = Mark(lat, gap, b) + i
      BY <1>0, <1>1, <2>1
    <2>3. ByteOf(card, lat, gap, Mark(lat, gap, b) + i) = Data(b, i - 1)
      BY <1>0, <2>2, ByteIs
    <2> QED
      BY <2>2, <2>3
  <1> QED
    BY <1>2 DEF BytesOf, Piece

\* The rest of a block.
LEMMA RestIs ==
    ASSUME NEW card, NEW lat, NEW gap, NEW b, BlockComes(card, lat, gap, b),
           NEW k \in 0 .. SD_BLOCK_SIZE, NEW n \in Nat, SD_BLOCK_SIZE - k <= n
    PROVE  SubSeq(BytesOf(card, lat, gap, Mark(lat, gap, b) + 1 + k, n), 1, SD_BLOCK_SIZE - k)
               = From(b, k, SD_BLOCK_SIZE - k)
  <1> DEFINE buf == BytesOf(card, lat, gap, Mark(lat, gap, b) + 1 + k, n)
             m == SD_BLOCK_SIZE - k
  <1>1. m \in Nat /\ m <= n /\ SD_BLOCK_SIZE \in Nat
    BY SdNumbers
  <1>2. \A i \in 1 .. m : buf[i] = Data(b, k + i - 1)
    <2>1. \A j \in 1 .. n : k + j <= SD_BLOCK_SIZE => buf[j] = Data(b, k + j - 1)
      BY BytesAre
    <2> TAKE i \in 1 .. m
    <2>2. i \in 1 .. n /\ k + i <= SD_BLOCK_SIZE
      BY <1>1
    <2> HIDE DEF m, buf
    <2> QED
      BY <2>1, <2>2
  <1>3. SubSeq(buf, 1, m) = [i \in 1 .. (m - 1 + 1) |-> buf[i + 1 - 1]]
    BY <1>1
  <1> HIDE DEF buf, m
  <1>4. SubSeq(buf, 1, m) = [i \in 1 .. m |-> buf[i]]
    BY <1>1, <1>3
  <1> QED
    BY <1>2, <1>4 DEF From, buf, m

LEMMA PieceMore ==
    ASSUME NEW b, NEW k \in 0 .. SD_BLOCK_SIZE
    PROVE  Piece(b, k) \o From(b, k, SD_BLOCK_SIZE - k) = Piece(b, SD_BLOCK_SIZE)
  <1> DEFINE S == {Data(b, i - 1) : i \in 1 .. SD_BLOCK_SIZE}
             m == SD_BLOCK_SIZE - k
             s == Piece(b, k)
             t == From(b, k, m)
             all == Piece(b, SD_BLOCK_SIZE)
  <1>1. k \in Nat /\ m \in Nat /\ SD_BLOCK_SIZE \in Nat /\ k + m = SD_BLOCK_SIZE
    BY SdNumbers
  <1>2. \A i \in 1 .. SD_BLOCK_SIZE : Data(b, i - 1) \in S
    OBVIOUS
  <1> HIDE DEF S, m
  <1>3. /\ all \in Seq(S) /\ Len(all) = SD_BLOCK_SIZE
        /\ \A i \in 1 .. SD_BLOCK_SIZE : all[i] = Data(b, i - 1)
    BY <1>1, <1>2 DEF Piece
  <1>4. s \in Seq(S) /\ Len(s) = k /\ \A i \in 1 .. k : s[i] = Data(b, i - 1)
    BY <1>1, <1>2 DEF Piece
  <1>5. t \in Seq(S) /\ Len(t) = m /\ \A i \in 1 .. m : t[i] = Data(b, k + i - 1)
    <2>1. \A i \in 1 .. m : Data(b, k + i - 1) \in S
      <3> TAKE i \in 1 .. m
      <3>1. k + i \in 1 .. SD_BLOCK_SIZE
        BY <1>1
      <3> QED
        BY <1>2, <3>1
    <2> QED
      BY <1>1, <2>1 DEF From
  <1> HIDE DEF s, t, all
  <1>6. /\ s \o t \in Seq(S) /\ Len(s \o t) = SD_BLOCK_SIZE
        /\ \A i \in 1 .. SD_BLOCK_SIZE : (s \o t)[i] = IF i <= k THEN s[i] ELSE t[i - k]
    BY <1>1, <1>4, <1>5, ConcatProperties
  <1>7. ASSUME NEW i \in 1 .. SD_BLOCK_SIZE PROVE (s \o t)[i] = Data(b, i - 1)
    <2>1. CASE i <= k
      <3>1. i \in 1 .. k
        BY <1>1, <2>1
      <3> QED
        BY <1>4, <1>6, <2>1, <3>1
    <2>2. CASE ~(i <= k)
      <3>1. i - k \in 1 .. m /\ k + (i - k) - 1 = i - 1
        BY <1>1, <2>2
      <3>2. t[i - k] = Data(b, k + (i - k) - 1)
        BY <1>5, <3>1
      <3> QED
        BY <1>6, <2>2, <3>1, <3>2
    <2> QED
      BY <2>1, <2>2
  <1>8. s \o t = all
    BY <1>3, <1>6, <1>7, SeqEqual
  <1> QED
    BY <1>8 DEF s, t, all, m

LEMMA RoundedIs ==
    ASSUME NEW n \in Nat
    PROVE  Rounded(n) \in Nat /\ n <= Rounded(n) /\ Rounded(n) <= n + 3
  BY DEF Rounded, WORD

\* Behind the CRC of a block: idle bytes, then the next block if the card sends one.
LEMMA Beyond ==
    ASSUME NEW card, NEW lat, NEW gap, NEW b, BlockComes(card, lat, gap, b), NEW i \in 1 .. 3
    PROVE  ByteOf(card, lat, gap, Mark(lat, gap, b) + SD_BLOCK_SIZE + 2 + i) =
               IF i <= gap \/ card = "single" THEN FF
               ELSE IF i = gap + 1 THEN TOK ELSE Data(b + 1, i - gap - 2)
  <1>0. /\ card \in {"single", "multi"} /\ lat \in Nat /\ gap \in Nat /\ b \in Nat
        /\ ~(card = "single" /\ b > 0)
    BY DEF BlockComes
  <1>1. /\ SD_BLOCK_SIZE \in Nat /\ SD_BLOCK_SIZE >= 2
        /\ Span(gap) \in Nat /\ Span(gap) = SD_BLOCK_SIZE + 3 + gap
    BY <1>0, SdNumbers, SpanIs
  <1>2. Mark(lat, gap, b) \in Nat /\ Mark(lat, gap, b + 1) = Mark(lat, gap, b) + SD_BLOCK_SIZE + 3 + gap
    BY <1>0, NextSpan
  <1>3. CASE i <= gap
    <2> DEFINE r == SD_BLOCK_SIZE + 2 + i
    <2>1. /\ r \in 0 .. Span(gap) - 1 /\ r # 0 /\ ~(r <= SD_BLOCK_SIZE) /\ ~(r <= SD_BLOCK_SIZE + 2)
          /\ Mark(lat, gap, b) + SD_BLOCK_SIZE + 2 + i = Mark(lat, gap, b) + r
      BY <1>0, <1>1, <1>2, <1>3
    <2> HIDE DEF r
    <2>2. ByteOf(card, lat, gap, Mark(lat, gap, b) + r) = FF
      BY <1>0, <2>1, ByteIs
    <2> QED
      BY <1>3, <2>1, <2>2
  <1>4. CASE ~(i <= gap)
    <2> DEFINE r == i - gap - 1
               c == b + 1
    <2>1. /\ r \in 0 .. Span(gap) - 1 /\ r <= SD_BLOCK_SIZE /\ (r = 0 <=> i = gap + 1)
          /\ r - 1 = i - gap - 2
          /\ Mark(lat, gap, b) + SD_BLOCK_SIZE + 2 + i = Mark(lat, gap, c) + r
          /\ c \in Nat /\ c > 0
      BY <1>0, <1>1, <1>2, <1>4
    <2>2. c = b + 1
      OBVIOUS
    <2> HIDE DEF r, c
    <2>3. ByteOf(card, lat, gap, Mark(lat, gap, c) + r) =
              IF card = "single" THEN FF ELSE IF r = 0 THEN TOK ELSE Data(c, r - 1)
      BY <1>0, <2>1, ByteIs
    <2>4. (IF card = "single" THEN FF ELSE IF r = 0 THEN TOK ELSE Data(c, r - 1)) =
              IF i <= gap \/ card = "single" THEN FF
              ELSE IF i = gap + 1 THEN TOK ELSE Data(b + 1, i - gap - 2)
      BY <1>4, <2>1, <2>2
    <2> QED
      BY <2>1, <2>3, <2>4
  <1> QED
    BY <1>3, <1>4

OverOf(have, buf) ==
    LET past == SubSeq(buf, SD_BLOCK_SIZE - have + 3, Len(buf))
        hits == {i \in DOMAIN past : past[i] = TOK}
    IN  IF hits = {} THEN <<>>
        ELSE LET i == CHOOSE i \in hits : \A j \in hits : i <= j
             IN  <<SubSeq(past, i + 1, Len(past))>>

\* The rest of a block, its CRC and up to three bytes more have been read.
RestRead(card, lat, gap, b, have, l, buf) ==
    /\ BlockComes(card, lat, gap, b) /\ have \in 0 .. SD_BLOCK_SIZE /\ l \in 0 .. 3
    /\ buf = BytesOf(card, lat, gap, Mark(lat, gap, b) + 1 + have, SD_BLOCK_SIZE - have + 2 + l)

\* What lies past the CRC.
LEMMA PastIs ==
    ASSUME NEW card, NEW lat, NEW gap, NEW b, NEW have, NEW l, NEW buf,
           RestRead(card, lat, gap, b, have, l, buf)
    PROVE  SubSeq(buf, SD_BLOCK_SIZE - have + 3, Len(buf)) =
               [i \in 1 .. l |-> IF i <= gap \/ card = "single" THEN FF
                                 ELSE IF i = gap + 1 THEN TOK ELSE Data(b + 1, i - gap - 2)]
  <1> DEFINE rest == SD_BLOCK_SIZE - have
             m == Mark(lat, gap, b)
             n == rest + 2 + l
  <1>0. gap \in Nat /\ lat \in Nat /\ b \in Nat /\ l \in 0 .. 3 /\ have \in 0 .. SD_BLOCK_SIZE
        /\ BlockComes(card, lat, gap, b)
    BY DEF BlockComes, RestRead
  <1>1a. m \in Nat
    BY <1>0, NextSpan
  <1> HIDE DEF m
  <1>1. /\ rest \in Nat /\ m \in Nat /\ l \in Nat /\ n \in Nat /\ SD_BLOCK_SIZE \in Nat /\ have \in Nat
        /\ n = rest + 2 + l /\ SD_BLOCK_SIZE = rest + have
    BY <1>0, <1>1a, SdNumbers
  <1> HIDE DEF rest, n
  <1>2. buf = [i \in 1 .. n |-> ByteOf(card, lat, gap, m + 1 + have + i - 1)]
    BY DEF BytesOf, RestRead, n, rest, m
  <1>3. Len(buf) = n
    BY <1>1, <1>2
  <1>4. SubSeq(buf, rest + 3, n) = [i \in 1 .. (n - (rest + 3) + 1) |-> buf[i + (rest + 3) - 1]]
    BY <1>1
  <1>5. n - (rest + 3) + 1 = l
    BY <1>1
  <1>6. ASSUME NEW i \in 1 .. l
        PROVE  buf[i + (rest + 3) - 1] = IF i <= gap \/ card = "single" THEN FF
                                         ELSE IF i = gap + 1 THEN TOK ELSE Data(b + 1, i - gap - 2)
    <2>1. /\ i \in 1 .. 3 /\ i + (rest + 3) - 1 \in 1 .. n
          /\ m + 1 + have + (i + (rest + 3) - 1) - 1 = m + SD_BLOCK_SIZE + 2 + i
      BY <1>0, <1>1
    <2>2. buf[i + (rest + 3) - 1] = ByteOf(card, lat, gap, m + SD_BLOCK_SIZE + 2 + i)
      BY <1>2, <2>1
    <2> QED
      BY <1>0, <2>1, <2>2, Beyond DEF m
  <1>7. SubSeq(buf, rest + 3, n) = [i \in 1 .. l |-> buf[i + (rest + 3) - 1]]
    BY <1>4, <1>5
  <1> QED
    BY <1>3, <1>6, <1>7 DEF rest

LEMMA OverIs ==
    ASSUME NEW card, NEW lat, NEW gap, NEW b, NEW have, NEW l, NEW buf,
           RestRead(card, lat, gap, b, have, l, buf)
    PROVE  OverOf(have, buf) = IF card = "single" \/ l <= gap THEN <<>> ELSE <<Piece(b + 1, l - gap - 1)>>
  <1> DEFINE past == SubSeq(buf, SD_BLOCK_SIZE - have + 3, Len(buf))
             hits == {i \in DOMAIN past : past[i] = TOK}
  <1>0. gap \in Nat /\ b \in Nat /\ l \in Nat
    BY DEF BlockComes, RestRead
  <1>1. past = [i \in 1 .. l |-> IF i <= gap \/ card = "single" THEN FF
                                 ELSE IF i = gap + 1 THEN TOK ELSE Data(b + 1, i - gap - 2)]
    BY PastIs
  <1>2. OverOf(have, buf) = IF hits = {} THEN <<>>
                            ELSE LET i == CHOOSE i \in hits : \A j \in hits : i <= j
                                 IN  <<SubSeq(past, i + 1, Len(past))>>
    BY DEF OverOf
  <1> HIDE DEF past
  <1>3. FF # TOK /\ \A c, i : Data(c, i) # TOK
    BY DEF FF, TOK, Data
  <1>4. CASE card = "single" \/ l <= gap
    <2>1. ASSUME NEW i \in 1 .. l PROVE past[i] # TOK
      <3>1. i <= gap \/ card = "single"
        BY <1>0, <1>4
      <3> QED
        BY <1>1, <1>3, <3>1
    <2>2. DOMAIN past = 1 .. l
      BY <1>1
    <2>3. hits = {}
      BY <2>1, <2>2
    <2> QED
      BY <1>2, <1>4, <2>3
  <1>5. CASE ~(card = "single" \/ l <= gap)
    <2> DEFINE t == gap + 1
    <2>1. t \in 1 .. l /\ t \in Int /\ ~(t <= gap)
      BY <1>0, <1>5
    <2>2. \A i \in 1 .. l : past[i] = TOK <=> i = t
      <3> TAKE i \in 1 .. l
      <3>1. CASE i <= gap
        <4>1. i # t
          BY <1>0, <3>1
        <4> QED
          BY <1>1, <1>3, <3>1, <4>1
      <3>2. CASE ~(i <= gap)
        <4>1. past[i] = IF i = t THEN TOK ELSE Data(b + 1, i - gap - 2)
          BY <1>1, <1>5, <3>2
        <4> QED
          BY <1>3, <4>1
      <3> QED
        BY <3>1, <3>2
    <2>3. DOMAIN past = 1 .. l /\ Len(past) = l
      BY <1>0, <1>1
    <2> HIDE DEF t
    <2>4. hits = {t}
      BY <2>1, <2>2, <2>3
    <2>5. (CHOOSE i \in hits : \A j \in hits : i <= j) = t
      BY <2>1, <2>4
    <2> HIDE DEF hits
    <2>6. OverOf(have, buf) = <<SubSeq(past, t + 1, l)>>
      BY <1>2, <2>3, <2>4, <2>5
    <2>7. SubSeq(past, t + 1, l) = [i \in 1 .. (l - (t + 1) + 1) |-> past[i + (t + 1) - 1]]
      BY <1>0, <2>1
    <2>8. l - (t + 1) + 1 = l - gap - 1
      BY <1>0 DEF t
    <2>9. ASSUME NEW i \in 1 .. l - gap - 1 PROVE past[i + (t + 1) - 1] = Data(b + 1, i - 1)
      <3> DEFINE j == i + (t + 1) - 1
      <3>1. j \in 1 .. l /\ ~(j <= gap) /\ j # gap + 1 /\ j - gap - 2 = i - 1
        BY <1>0, <1>5 DEF t
      <3> HIDE DEF j
      <3>2. past[j] = Data(b + 1, j - gap - 2)
        BY <1>1, <1>5, <3>1
      <3> QED
        BY <3>1, <3>2 DEF j
    <2>10. SubSeq(past, t + 1, l) = [i \in 1 .. l - gap - 1 |-> past[i + (t + 1) - 1]]
      BY <2>7, <2>8
    <2>11. SubSeq(past, t + 1, l) = Piece(b + 1, l - gap - 1)
      BY <2>9, <2>10 DEF Piece
    <2> QED
      BY <1>5, <2>6, <2>11
  <1> QED
    BY <1>4, <1>5

-----------------------------------------------------------------------------
\* The token of a block: behind what was read, or read already and the block's first
\* bytes with it.
TokenAt(lat, gap, b, pos, pend) ==
    \/ pend = <<>> /\ Waits(lat, gap, b, pos)
    \/ \E k \in 0 .. SD_BLOCK_SIZE : pend = <<Piece(b, k)>> /\ pos = Mark(lat, gap, b) + 1 + k

\* After a block the stream is at the next one's token, whichever way it was read.
LEMMA NextTokenAt ==
    ASSUME NEW card, NEW lat, NEW gap, NEW b, NEW have, NEW l, NEW buf,
           RestRead(card, lat, gap, b, have, l, buf)
    PROVE  /\ card = "multi" => TokenAt(lat, gap, b + 1,
                                        Mark(lat, gap, b) + 1 + have + (SD_BLOCK_SIZE - have + 2 + l),
                                        OverOf(have, buf))
           /\ card = "single" => OverOf(have, buf) = <<>>
           /\ TokenAt(lat, gap, b + 1, Mark(lat, gap, b) + 1 + have + (SD_BLOCK_SIZE - have + 2), <<>>)
  <1> DEFINE m == Mark(lat, gap, b)
             pos == m + 1 + have + (SD_BLOCK_SIZE - have + 2 + l)
             pos0 == m + 1 + have + (SD_BLOCK_SIZE - have + 2)
             c == b + 1
  <1>0. lat \in Nat /\ gap \in Nat /\ b \in Nat /\ l \in 0 .. 3 /\ have \in 0 .. SD_BLOCK_SIZE
    BY DEF RestRead, BlockComes
  <1>1. m \in Nat /\ Mark(lat, gap, c) = m + SD_BLOCK_SIZE + 3 + gap
    BY <1>0, NextSpan
  <1>2. /\ c > 0 /\ c # 0 /\ c - 1 = b /\ SD_BLOCK_SIZE \in Nat /\ SD_BLOCK_SIZE >= 2
    BY <1>0, SdNumbers
  <1>3. OverOf(have, buf) = IF card = "single" \/ l <= gap THEN <<>> ELSE <<Piece(c, l - gap - 1)>>
    BY OverIs
  <1> HIDE DEF m, c
  <1>4. pos0 \in Nat /\ pos \in Nat /\ pos0 = m + SD_BLOCK_SIZE + 3 /\ pos = m + SD_BLOCK_SIZE + 3 + l
    BY <1>0, <1>1, <1>2
  <1> HIDE DEF pos, pos0
  <1>5. ASSUME NEW p \in Nat, p >= m + SD_BLOCK_SIZE + 3, p <= m + SD_BLOCK_SIZE + 3 + gap
        PROVE  Waits(lat, gap, c, p)
    <2>1. Mark(lat, gap, c - 1) = m
      BY <1>2 DEF m
    <2> QED
      BY <1>1, <1>2, <1>5, <2>1 DEF Waits
  <1>6. TokenAt(lat, gap, c, pos0, <<>>)
    <2>1. Waits(lat, gap, c, pos0)
      BY <1>0, <1>1, <1>2, <1>4, <1>5
    <2> QED
      BY <2>1 DEF TokenAt
  <1>7. CASE card = "single"
    BY <1>3, <1>6, <1>7 DEF m, c, pos0
  <1>8. CASE card # "single" /\ l <= gap
    <2>1. Waits(lat, gap, c, pos)
      BY <1>0, <1>1, <1>2, <1>4, <1>5, <1>8
    <2>2. TokenAt(lat, gap, c, pos, OverOf(have, buf))
      BY <1>3, <1>8, <2>1 DEF TokenAt
    <2> QED
      BY <1>6, <1>8, <2>2 DEF m, c, pos0, pos
  <1>9. CASE card # "single" /\ ~(l <= gap)
    <2> DEFINE k == l - gap - 1
    <2>1. k \in 0 .. SD_BLOCK_SIZE /\ pos = Mark(lat, gap, c) + 1 + k
      BY <1>0, <1>1, <1>2, <1>4, <1>9
    <2> HIDE DEF k
    <2>2. OverOf(have, buf) = <<Piece(c, k)>>
      BY <1>3, <1>9 DEF k
    <2>3. TokenAt(lat, gap, c, pos, OverOf(have, buf))
      BY <2>1, <2>2 DEF TokenAt
    <2> QED
      BY <1>6, <1>9, <2>3 DEF m, c, pos0, pos
  <1> QED
    BY <1>7, <1>8, <1>9

\* The blocks delivered, the last of them perhaps still in its staging buffer.
Delivered(dst, n, b, copy, stage) ==
    /\ dst = [c \in 0 .. n - 1 |-> dst[c]] /\ stage = [i \in 0 .. 1 |-> stage[i]]
    /\ n \in Nat /\ b \in 0 .. n
    /\ \A c \in 0 .. b - 1 : copy = <<>> \/ c # b - 1 => dst[c] = Piece(c, SD_BLOCK_SIZE)
    /\ copy # <<>> => /\ b > 0
                      /\ \E k \in 0 .. SD_BLOCK_SIZE :
                           /\ copy = <<b - 1, SD_BLOCK_SIZE - k>> /\ dst[b - 1] = Piece(b - 1, k)
                           /\ SubSeq(stage[(b - 1) % 2], 1, SD_BLOCK_SIZE - k)
                                  = From(b - 1, k, SD_BLOCK_SIZE - k)

CopyOut(dst, copy, stage) ==
    IF copy = <<>> THEN dst
    ELSE [dst EXCEPT ![copy[1]] = @ \o SubSeq(stage[copy[1] % 2], 1, copy[2])]

\* Writing the block that is not there yet.
LEMMA WrittenNext ==
    ASSUME NEW dst, NEW n, NEW b, NEW copy, NEW stage, NEW x,
           Delivered(dst, n, b, copy, stage), b < n
    PROVE  /\ Delivered([dst EXCEPT ![b] = x], n, b, copy, stage)
           /\ [dst EXCEPT ![b] = x][b] = x
  <1> DEFINE new == [dst EXCEPT ![b] = x]
  <1>1. /\ dst = [c \in 0 .. n - 1 |-> dst[c]] /\ stage = [i \in 0 .. 1 |-> stage[i]]
        /\ n \in Nat /\ b \in 0 .. n
    BY DEF Delivered
  <1>2. b \in 0 .. n - 1 /\ \A c \in 0 .. b - 1 : c \in 0 .. n - 1 /\ c # b
    BY <1>1
  <1>3. /\ new = [c \in 0 .. n - 1 |-> new[c]] /\ new[b] = x
        /\ \A c \in 0 .. b - 1 : new[c] = dst[c]
    BY <1>1, <1>2
  <1>4. b > 0 => b - 1 \in 0 .. b - 1
    BY <1>1
  <1> HIDE DEF new
  <1>5. Delivered(new, n, b, copy, stage)
    <2>1. \A c \in 0 .. b - 1 : copy = <<>> \/ c # b - 1 => new[c] = Piece(c, SD_BLOCK_SIZE)
      BY <1>3 DEF Delivered
    <2>2. ASSUME copy # <<>>
          PROVE  /\ b > 0
                 /\ \E k \in 0 .. SD_BLOCK_SIZE :
                           /\ copy = <<b - 1, SD_BLOCK_SIZE - k>> /\ new[b - 1] = Piece(b - 1, k)
                           /\ SubSeq(stage[(b - 1) % 2], 1, SD_BLOCK_SIZE - k)
                                  = From(b - 1, k, SD_BLOCK_SIZE - k)
      BY <1>3, <1>4, <2>2 DEF Delivered
    <2> QED
      BY <1>1, <1>3, <2>1, <2>2 DEF Delivered
  <1> QED
    BY <1>3, <1>5 DEF new

\* The pending copy completes its block.
LEMMA CopiedOut ==
    ASSUME NEW dst, NEW n, NEW b, NEW copy, NEW stage, Delivered(dst, n, b, copy, stage)
    PROVE  /\ CopyOut(dst, copy, stage) = [c \in 0 .. n - 1 |-> CopyOut(dst, copy, stage)[c]]
           /\ \A c \in 0 .. b - 1 : CopyOut(dst, copy, stage)[c] = Piece(c, SD_BLOCK_SIZE)
           /\ \A c \in b .. n - 1 : CopyOut(dst, copy, stage)[c] = dst[c]
  <1>1. /\ dst = [c \in 0 .. n - 1 |-> dst[c]] /\ n \in Nat /\ b \in 0 .. n
        /\ \A c \in 0 .. b - 1 : copy = <<>> \/ c # b - 1 => dst[c] = Piece(c, SD_BLOCK_SIZE)
    BY DEF Delivered
  <1>2. CASE copy = <<>>
    BY <1>1, <1>2 DEF CopyOut
  <1>3. CASE copy # <<>>
    <2> DEFINE e == b - 1
    <2>1. PICK k \in 0 .. SD_BLOCK_SIZE :
             /\ copy = <<e, SD_BLOCK_SIZE - k>> /\ dst[e] = Piece(e, k)
             /\ SubSeq(stage[e % 2], 1, SD_BLOCK_SIZE - k) = From(e, k, SD_BLOCK_SIZE - k)
      BY <1>3 DEF Delivered
    <2>2. b > 0
      BY <1>3 DEF Delivered
    <2>3. /\ e \in 0 .. n - 1 /\ e \in 0 .. b - 1 /\ \A c \in 0 .. b - 1 : c \in 0 .. n - 1
          /\ \A c \in b .. n - 1 : c \in 0 .. n - 1 /\ c # e
      BY <1>1, <2>2
    <2>5. \A c \in 0 .. b - 1 : c # e => dst[c] = Piece(c, SD_BLOCK_SIZE)
      BY <1>1
    <2> HIDE DEF e
    <2>4. CopyOut(dst, copy, stage) = [dst EXCEPT ![e] = Piece(e, SD_BLOCK_SIZE)]
      <3>1. copy[1] = e /\ copy[2] = SD_BLOCK_SIZE - k
        BY <2>1
      <3>2. CopyOut(dst, copy, stage) = [dst EXCEPT ![e] = dst[e] \o SubSeq(stage[e % 2], 1, SD_BLOCK_SIZE - k)]
        BY <1>3, <3>1 DEF CopyOut
      <3>3. dst[e] \o SubSeq(stage[e % 2], 1, SD_BLOCK_SIZE - k) = Piece(e, SD_BLOCK_SIZE)
        BY <2>1, PieceMore
      <3> QED
        BY <3>2, <3>3
    <2> DEFINE new == [dst EXCEPT ![e] = Piece(e, SD_BLOCK_SIZE)]
    <2>6. /\ new = [c \in 0 .. n - 1 |-> new[c]]
          /\ \A c \in 0 .. b - 1 : new[c] = Piece(c, SD_BLOCK_SIZE)
          /\ \A c \in b .. n - 1 : new[c] = dst[c]
      BY <1>1, <2>3, <2>5
    <2> QED
      BY <2>4, <2>6
  <1> QED
    BY <1>2, <1>3

\* The rest of a block, behind the bytes that came with its token.
LEMMA RestFollows ==
    ASSUME NEW card, NEW lat, NEW gap, NEW b, NEW have, NEW l, NEW buf,
           RestRead(card, lat, gap, b, have, l, buf)
    PROVE  /\ have \in 0 .. SD_BLOCK_SIZE
           /\ SubSeq(buf, 1, SD_BLOCK_SIZE - have) = From(b, have, SD_BLOCK_SIZE - have)
           /\ Piece(b, have) \o SubSeq(buf, 1, SD_BLOCK_SIZE - have) = Piece(b, SD_BLOCK_SIZE)
           /\ Len(buf) = SD_BLOCK_SIZE - have + 2 + l
  <1> DEFINE n == SD_BLOCK_SIZE - have + 2 + l
  <1>1. /\ BlockComes(card, lat, gap, b) /\ have \in 0 .. SD_BLOCK_SIZE /\ l \in 0 .. 3
        /\ buf = BytesOf(card, lat, gap, Mark(lat, gap, b) + 1 + have, n)
    BY DEF RestRead
  <1>2. n \in Nat /\ SD_BLOCK_SIZE - have <= n
    BY <1>1, SdNumbers
  <1> HIDE DEF n
  <1>3. SubSeq(buf, 1, SD_BLOCK_SIZE - have) = From(b, have, SD_BLOCK_SIZE - have)
    BY <1>1, <1>2, RestIs
  <1>4. Piece(b, have) \o From(b, have, SD_BLOCK_SIZE - have) = Piece(b, SD_BLOCK_SIZE)
    BY <1>1, PieceMore
  <1>5. Len(buf) = n
    BY <1>1, <1>2 DEF BytesOf
  <1> QED
    BY <1>1, <1>3, <1>4, <1>5 DEF n

\* A block whose bytes go straight to the caller.
LEMMA BlockStored ==
    ASSUME NEW dst, NEW n, NEW b, NEW stage, NEW x,
           Delivered(dst, n, b, <<>>, stage), b < n, x = Piece(b, SD_BLOCK_SIZE)
    PROVE  Delivered([dst EXCEPT ![b] = x], n, b + 1, <<>>, stage)
  <1> DEFINE new == [dst EXCEPT ![b] = x]
  <1>1. /\ dst = [c \in 0 .. n - 1 |-> dst[c]] /\ stage = [i \in 0 .. 1 |-> stage[i]]
        /\ n \in Nat /\ b \in 0 .. n /\ \A c \in 0 .. b - 1 : dst[c] = Piece(c, SD_BLOCK_SIZE)
    BY DEF Delivered
  <1>2. /\ b \in 0 .. n - 1 /\ b + 1 \in 0 .. n
        /\ \A c \in 0 .. b + 1 - 1 : c \in 0 .. n - 1 /\ (c = b \/ c \in 0 .. b - 1)
    BY <1>1
  <1>3. new = [c \in 0 .. n - 1 |-> new[c]] /\ \A c \in 0 .. n - 1 : new[c] = IF c = b THEN x ELSE dst[c]
    BY <1>1, <1>2
  <1> HIDE DEF new
  <1> DEFINE e == b + 1
  <1>4. e \in 0 .. n /\ \A c \in 0 .. e - 1 : new[c] = Piece(c, SD_BLOCK_SIZE)
    <2>1. e \in 0 .. n /\ \A c \in 0 .. e - 1 : c \in 0 .. n - 1 /\ (c = b \/ c \in 0 .. b - 1)
      BY <1>2
    <2> HIDE DEF e
    <2>2. ASSUME NEW c \in 0 .. e - 1 PROVE new[c] = Piece(c, SD_BLOCK_SIZE)
      <3>1. c \in 0 .. n - 1 /\ (c = b \/ c \in 0 .. b - 1)
        BY <2>1
      <3>2. CASE c = b
        BY <1>3, <3>1, <3>2
      <3>3. CASE c # b
        BY <1>1, <1>3, <3>1, <3>3
      <3> QED
        BY <3>2, <3>3
    <2> QED
      BY <2>1, <2>2
  <1> HIDE DEF e
  <1>5. Delivered(new, n, e, <<>>, stage)
    BY <1>1, <1>3, <1>4 DEF Delivered
  <1> QED
    BY <1>5 DEF new, e

\* Two blocks in a row use different staging buffers.
LEMMA StagesDiffer ==
    ASSUME NEW b \in Nat, b > 0
    PROVE  (b - 1) % 2 # b % 2 /\ b % 2 \in 0 .. 1 /\ (b - 1) % 2 \in 0 .. 1
  OBVIOUS

\* The pipeline: the block before is copied out, this one waits in its buffer.
LEMMA BlockStaged ==
    ASSUME NEW dst, NEW n, NEW b, NEW copy, NEW stage, NEW k \in 0 .. SD_BLOCK_SIZE, NEW buf,
           Delivered(dst, n, b, copy, stage), b < n, dst[b] = Piece(b, k),
           SubSeq(buf, 1, SD_BLOCK_SIZE - k) = From(b, k, SD_BLOCK_SIZE - k)
    PROVE  LET st == [stage EXCEPT ![b % 2] = buf]
           IN  Delivered(CopyOut(dst, copy, st), n, b + 1, <<b, SD_BLOCK_SIZE - k>>, st)
  <1> DEFINE st == [stage EXCEPT ![b % 2] = buf]
             new == CopyOut(dst, copy, st)
             e == b + 1
  <1>1. stage = [i \in 0 .. 1 |-> stage[i]] /\ n \in Nat /\ b \in 0 .. n
    BY DEF Delivered
  <1>2. b \in Nat /\ b \in b .. n - 1 /\ e \in 0 .. n /\ e > 0 /\ e - 1 = b /\ b % 2 \in 0 .. 1
    BY <1>1
  <1>3. st = [i \in 0 .. 1 |-> st[i]] /\ st[b % 2] = buf /\ \A i \in 0 .. 1 : i # b % 2 => st[i] = stage[i]
    BY <1>1, <1>2
  <1> HIDE DEF st
  <1>4. Delivered(dst, n, b, copy, st)
    <2>1. ASSUME copy # <<>> PROVE st[(b - 1) % 2] = stage[(b - 1) % 2]
      <3>1. b > 0
        BY <2>1 DEF Delivered
      <3> QED
        BY <1>2, <1>3, <3>1, StagesDiffer
    <2> QED
      BY <1>3, <2>1 DEF Delivered
  <1>5. /\ new = [c \in 0 .. n - 1 |-> new[c]]
        /\ \A c \in 0 .. b - 1 : new[c] = Piece(c, SD_BLOCK_SIZE)
        /\ \A c \in b .. n - 1 : new[c] = dst[c]
    BY <1>4, CopiedOut
  <1> HIDE DEF new
  <1>6. \A c \in 0 .. e - 1 : c # e - 1 => c \in 0 .. b - 1
    BY <1>2
  <1>7. new[b] = Piece(b, k)
    BY <1>2, <1>5
  <1> HIDE DEF e
  <1>8. Delivered(new, n, e, <<b, SD_BLOCK_SIZE - k>>, st)
    <2>1. \A c \in 0 .. e - 1 : c # e - 1 => new[c] = Piece(c, SD_BLOCK_SIZE)
      BY <1>5, <1>6
    <2>2. /\ <<b, SD_BLOCK_SIZE - k>> = <<e - 1, SD_BLOCK_SIZE - k>> /\ new[e - 1] = Piece(e - 1, k)
          /\ SubSeq(st[(e - 1) % 2], 1, SD_BLOCK_SIZE - k) = From(e - 1, k, SD_BLOCK_SIZE - k)
      BY <1>2, <1>3, <1>7
    <2>3. <<b, SD_BLOCK_SIZE - k>> # <<>>
      OBVIOUS
    <2> QED
      BY <1>1, <1>2, <1>3, <1>5, <2>1, <2>2, <2>3 DEF Delivered
  <1> QED
    BY <1>8 DEF new, st, e

\* A read is under way: the card streams it.
Streams(card, lat, gap, n, b) ==
    /\ n \in {1, Burst} /\ card = (IF n >= Burst THEN "multi" ELSE "single")
    /\ lat \in 0 .. MaxIdle /\ gap \in 0 .. MaxIdle /\ b \in 0 .. n - 1

LEMMA StreamsBlock ==
    ASSUME NEW card, NEW lat, NEW gap, NEW n, NEW b, Streams(card, lat, gap, n, b)
    PROVE  /\ BlockComes(card, lat, gap, b) /\ b \in Nat /\ b < n
           /\ card \in {"single", "multi"} /\ lat \in Nat /\ gap \in Nat /\ (b = 0 \/ card = "multi")
  BY SdNumbers DEF Streams, BlockComes, Burst

\* A wait that begins between two blocks ends at the token, with the block's first bytes.
LEMMA TokenArrives ==
    ASSUME NEW card, NEW lat, NEW gap, NEW n, NEW b, NEW pos,
           Streams(card, lat, gap, n, b), Waits(lat, gap, b, pos)
    PROVE  LET p == Mark(lat, gap, b)
               k == BatchEnd(pos, p) - p - 1
           IN  /\ Marks(card, lat, gap, pos) = {p} /\ ByteOf(card, lat, gap, p) = TOK
               /\ k \in 0 .. SD_BLOCK_SIZE /\ BytesOf(card, lat, gap, p + 1, k) = Piece(b, k)
               /\ BatchEnd(pos, p) = p + 1 + k
  <1> DEFINE p == Mark(lat, gap, b)
             k == BatchEnd(pos, p) - p - 1
  <1>1. /\ BlockComes(card, lat, gap, b) /\ b \in Nat /\ card \in {"single", "multi"} /\ lat \in Nat /\ gap \in Nat
        /\ (b = 0 \/ card = "multi")
    BY StreamsBlock
  <1>2. lat \in 0 .. MaxIdle /\ gap \in 0 .. MaxIdle
    BY DEF Streams
  <1>3. Marks(card, lat, gap, pos) = {p} /\ ByteOf(card, lat, gap, p) = TOK
    BY <1>1, <1>2, NextToken
  <1>4. pos \in Nat /\ pos <= p /\ p \in Nat
    BY <1>1, NextSpan DEF Waits
  <1> HIDE DEF p
  <1>5. BatchEnd(pos, p) \in Nat /\ k \in 0 .. SD_BLOCK_SIZE
    BY <1>4, BatchIs
  <1>6. BatchEnd(pos, p) = p + 1 + k
    BY <1>4, <1>5
  <1> HIDE DEF k
  <1>7. BytesOf(card, lat, gap, p + 1, k) = Piece(b, k)
    BY <1>1, <1>5, TokenBrings DEF p
  <1> QED
    BY <1>3, <1>5, <1>6, <1>7 DEF p, k

-----------------------------------------------------------------------------
\* The state of a read.
Form(dst, n) == n \in {1, Burst} /\ dst = [c \in 0 .. n - 1 |-> dst[c]]
BlocksWhole(dst, n) == \A c \in 0 .. n - 1 : dst[c] = Piece(c, SD_BLOCK_SIZE)
DataAt(lat, gap, b, pos, dst, have) ==
    have \in 0 .. SD_BLOCK_SIZE /\ dst[b] = Piece(b, have) /\ pos = Mark(lat, gap, b) + 1 + have

SdTyped ==
    /\ d_pc \in {"idle", "command", "token", "data", "ok", "err", "stop-ok", "stop-err"}
    /\ d_rc \in {"none", "ok", "err"} /\ (d_pc # "idle" => d_rc = "none")
    /\ g_dma_ok \in BOOLEAN /\ d_refused \in BOOLEAN /\ d_lost \in BOOLEAN
    /\ d_card \in {"idle", "single", "multi"}
    /\ d_pc # "idle" => Form(d_dst, d_n)

\* Where the stream is and what has been carried over.
StreamKept ==
    /\ d_pc \in {"token", "data"} => Streams(d_card, d_lat, d_gap, d_n, d_b)
    /\ d_pc = "token" => TokenAt(d_lat, d_gap, d_b, d_pos, g_pend)
    /\ d_pc = "data" => DataAt(d_lat, d_gap, d_b, d_pos, d_dst, d_have)
    /\ d_pc \notin {"token", "stop-ok"} => g_pend = <<>>
    /\ d_pc = "stop-ok" /\ g_dma_ok = FALSE => g_pend = <<>>

\* What has been delivered; only the engine leaves a copy for later.
BlocksKept ==
    /\ d_pc \in {"command", "token", "data", "stop-ok"} => Delivered(d_dst, d_n, d_b, d_copy, d_stage)
    /\ d_pc \in {"token", "data", "stop-ok"} /\ (g_dma_ok = FALSE \/ d_n = 1) => d_copy = <<>>
    /\ d_pc = "command" => d_copy = <<>> /\ d_b = 0
    /\ d_pc = "stop-ok" => d_b = d_n
    /\ d_pc = "ok" \/ d_rc = "ok" => BlocksWhole(d_dst, d_n)

\* The card streams between reads only where a CMD12 was lost.
CardKept ==
    /\ d_pc \in {"idle", "command"} => d_card # "single" /\ (d_card # "idle" => d_lost = TRUE)
    /\ d_pc \in {"ok", "err"} /\ d_card = "multi" => d_lost = TRUE

\* Why a read fails: the engine gave up in its first attempt, or the card's fault.
FailureKept ==
    /\ d_pc # "idle" /\ g_dma_ok = TRUE => d_try = <<1, TRUE>>
    /\ d_pc \in {"err", "stop-err"} => \/ d_refused = TRUE \/ d_lost = TRUE
                                       \/ d_try = <<1, TRUE>> /\ g_dma_ok = FALSE
    /\ d_rc = "err" => d_refused = TRUE \/ d_lost = TRUE

SdInv == SdTyped /\ StreamKept /\ BlocksKept /\ CardKept /\ FailureKept

\* A transfer on the engine leaves it as it was, or costs it.
LEMMA EngineOutcome ==
    ASSUME g_dma_ok \in BOOLEAN, NEW o, collect_dma(o)
    PROVE  /\ g_dma_ok' \in BOOLEAN /\ (g_dma_ok = FALSE => g_dma_ok' = FALSE)
           /\ (o = "ok" => g_dma_ok' = g_dma_ok) /\ (o # "ok" => g_dma_ok' = FALSE)
  BY DEF collect_dma

LEMMA SdStarts == SdInit => SdInv
  <1> SUFFICES ASSUME SdInit PROVE SdInv
    OBVIOUS
  <1> QED
    BY DEF SdInit, SdInv, SdTyped, StreamKept, BlocksKept, CardKept, FailureKept

\* Between reads.
BetweenReads == sd_init \/ spi3_probe_dma \/ spi3_selftest_loopback \/ spi3_probe_speed \/ spi3_dma_force_fifo

LEMMA StaysIdle ==
    ASSUME ~DiagnosticsShare, SdInv, BetweenReads
    PROVE  SdInv'
  <1>1. d_pc = "idle"
    BY DEF BetweenReads, sd_init, spi3_probe_dma, spi3_selftest_loopback, spi3_probe_speed, spi3_dma_force_fifo
  <1>2. UNCHANGED <<callVars, g_pend>>
    BY DEF BetweenReads, sd_init, spi3_probe_dma, spi3_selftest_loopback, spi3_probe_speed, spi3_dma_force_fifo
  <1>3. d_card' = "idle" \/ d_card' = d_card
    BY DEF BetweenReads, sd_init, spi3_probe_dma, spi3_selftest_loopback, spi3_probe_speed, spi3_dma_force_fifo, crdVars
  <1>4. g_dma_ok' \in BOOLEAN
    BY DEF BetweenReads, sd_init, spi3_probe_dma, spi3_selftest_loopback, spi3_probe_speed, spi3_dma_force_fifo,
           spi3_dma_init, spi3_read, SdInv, SdTyped
  <1>5. /\ d_pc' = "idle" /\ d_rc' = d_rc /\ d_refused' = d_refused /\ d_lost' = d_lost /\ d_dst' = d_dst
        /\ d_n' = d_n /\ g_pend' = g_pend
    BY <1>1, <1>2 DEF callVars
  <1> QED
    BY <1>1, <1>3, <1>4, <1>5 DEF SdInv, SdTyped, StreamKept, BlocksKept, CardKept, FailureKept

LEMMA ReadStarts ==
    ASSUME SdInv, NEW n \in {1, Burst}, sd_read_blocks(n)
    PROVE  SdInv'
  <1> DEFINE dst == [b \in 0 .. n - 1 |-> <<>>]
             stage == [s \in 0 .. 1 |-> <<>>]
  <1>1. /\ d_pc = "idle" /\ d_pc' = "command" /\ d_n' = n /\ d_b' = 0 /\ d_try' = <<1, g_dma_ok>>
        /\ d_dst' = dst /\ d_copy' = <<>> /\ d_stage' = stage
        /\ d_rc' = "none" /\ d_refused' = FALSE /\ g_dma_ok' = g_dma_ok
        /\ d_card' = d_card /\ g_pend' = g_pend /\ d_lost' = d_lost
    BY DEF sd_read_blocks, dma_enabled, engVars, crdVars
  <1>2. Form(dst, n)
    BY DEF Form
  <1>3. Delivered(dst, n, 0, <<>>, stage)
    <2>1. n \in Nat /\ 0 \in 0 .. n /\ 0 .. 0 - 1 = {}
      BY DEF Burst
    <2>2. dst = [c \in 0 .. n - 1 |-> dst[c]] /\ stage = [i \in 0 .. 1 |-> stage[i]]
      OBVIOUS
    <2> HIDE DEF dst, stage
    <2> QED
      BY <2>1, <2>2 DEF Delivered
  <1> HIDE DEF dst, stage
  <1> QED
    BY <1>1, <1>2, <1>3 DEF SdInv, SdTyped, StreamKept, BlocksKept, CardKept, FailureKept

\* How a failing attempt leaves, and why.
LEMMA LeavesRight ==
    ASSUME SdInv, d_pc \in {"command", "token", "data"}, Leave,
           UNCHANGED <<d_n, d_dst, d_rc, d_try, d_lost, d_card>>, g_pend' = <<>>,
           g_dma_ok' \in BOOLEAN, g_dma_ok' = TRUE => g_dma_ok = TRUE, d_refused' \in BOOLEAN,
           d_refused' = TRUE \/ d_lost = TRUE \/ (g_dma_ok = TRUE /\ g_dma_ok' = FALSE),
           d_pc = "command" \/ d_card # "multi" \/ d_n # 1
    PROVE  SdInv'
  <1>1. d_pc' = "err" \/ d_pc' = "stop-err"
    BY DEF Leave
  <1>2. d_pc' = "err" => d_n = 1
    BY DEF Leave, SdInv, SdTyped, Form, Burst
  <1>3. d_pc' = "err" /\ d_card = "multi" => d_lost = TRUE
    BY <1>2 DEF SdInv, CardKept, SdTyped
  <1>4. d_try = <<1, TRUE>> \/ g_dma_ok = FALSE
    BY DEF SdInv, SdTyped, FailureKept
  <1> QED
    BY <1>1, <1>3, <1>4 DEF SdInv, SdTyped, StreamKept, BlocksKept, CardKept, FailureKept

LEMMA CommandKeeps ==
    ASSUME SdInv, sd_command
    PROVE  SdInv'
  <1>1. /\ d_pc = "command" /\ UNCHANGED <<d_n, d_b, d_have, d_try, d_dst, d_stage, d_copy, d_rc, d_lost>>
        /\ g_pend' = <<>> /\ g_dma_ok \in BOOLEAN
    BY DEF sd_command, SdInv, StreamKept, SdTyped
  <1>2. \/ CardAnswers /\ g_dma_ok' = g_dma_ok
        \/ /\ Leave /\ UNCHANGED <<crdVars, d_refused>>
           /\ g_dma_ok = TRUE /\ g_dma_ok' = FALSE
    <2>1. CASE g_dma_ok = TRUE
      <3>1. PICK o \in xfer_dma : /\ collect_dma(o)
                                  /\ \/ o = "ok" /\ CardAnswers
                                     \/ o # "ok" /\ Leave /\ UNCHANGED <<crdVars, d_refused>>
        BY <2>1 DEF sd_command, dma_enabled
      <3> QED
        BY <1>1, <2>1, <3>1, EngineOutcome
    <2>2. CASE g_dma_ok = FALSE
      BY <2>2 DEF sd_command, dma_enabled, spi3_read
    <2> QED
      BY <1>1, <2>1, <2>2
  <1>3. CASE CardAnswers /\ g_dma_ok' = g_dma_ok
    <2>1. CASE /\ d_card = "idle" /\ d_pc' = "token" /\ UNCHANGED d_refused
               /\ d_card' = IF d_n >= Burst THEN "multi" ELSE "single"
               /\ d_lat' \in 0 .. MaxIdle /\ d_gap' \in 0 .. MaxIdle /\ d_pos' = 0
      <3>1. PICK lat \in 0 .. MaxIdle : d_lat' = lat
        BY <2>1
      <3>2. PICK gap \in 0 .. MaxIdle : d_gap' = gap
        BY <2>1
      <3> DEFINE card == IF d_n >= Burst THEN "multi" ELSE "single"
      <3>3. d_b = 0 /\ d_copy = <<>> /\ d_n \in {1, Burst} /\ d_rc = "none"
        BY <1>1 DEF SdInv, BlocksKept, SdTyped, Form
      <3>4. Streams(card, lat, gap, d_n, d_b)
        BY <3>3 DEF Streams, Burst
      <3>5. lat \in Nat /\ gap \in Nat
        BY SdNumbers
      <3>6. TokenAt(lat, gap, d_b, 0, <<>>)
        <4>1. Mark(lat, gap, 0) = lat
          <5>1. 0 \in Nat
            OBVIOUS
          <5> QED
            BY <3>5, <5>1, NextSpan
        <4>2. Waits(lat, gap, 0, 0)
          BY <3>5, <4>1 DEF Waits
        <4> QED
          BY <3>3, <4>2 DEF TokenAt
      <3>7. d_card' = card /\ card \in {"single", "multi"}
        BY <2>1
      <3> HIDE DEF card
      <3> QED
        BY <1>1, <1>3, <2>1, <3>1, <3>2, <3>3, <3>4, <3>6, <3>7
           DEF SdInv, SdTyped, StreamKept, BlocksKept, CardKept, FailureKept
    <2>2. CASE Leave /\ d_refused' = (d_card = "idle") /\ UNCHANGED crdVars
      <3>1. d_card' = d_card /\ d_refused' \in BOOLEAN /\ (d_refused' = TRUE \/ d_lost = TRUE)
        BY <1>1, <2>2 DEF crdVars, SdInv, CardKept
      <3> QED
        BY <1>1, <1>3, <2>2, <3>1, LeavesRight
    <2> QED
      BY <1>3, <2>1, <2>2 DEF CardAnswers
  <1>4. CASE Leave /\ UNCHANGED <<crdVars, d_refused>> /\ g_dma_ok = TRUE /\ g_dma_ok' = FALSE
    <2>1. d_card' = d_card /\ d_refused' \in BOOLEAN
      BY <1>4 DEF crdVars, SdInv, SdTyped
    <2> QED
      BY <1>1, <1>4, <2>1, LeavesRight
  <1> QED
    BY <1>2, <1>3, <1>4

LEMMA SlowKeeps ==
    ASSUME SdInv, read_block_slow
    PROVE  SdInv'
  <1>1. /\ d_pc = "command" /\ UNCHANGED <<g_dma_ok, d_card, g_pend, d_n, d_try, d_rc, d_lost>>
        /\ d_n \in {1, Burst} /\ d_rc = "none"
    BY DEF read_block_slow, engVars, crdVars, SdInv, SdTyped, Form
  <1>2. CASE /\ d_pc' = "ok" /\ UNCHANGED d_refused
             /\ d_dst' = [b \in 0 .. d_n - 1 |-> [i \in 1 .. SD_BLOCK_SIZE |-> Data(b, i - 1)]]
    <2> DEFINE dst == [b \in 0 .. d_n - 1 |-> [i \in 1 .. SD_BLOCK_SIZE |-> Data(b, i - 1)]]
    <2>1. BlocksWhole(dst, d_n) /\ Form(dst, d_n)
      BY <1>1 DEF BlocksWhole, Form, Piece
    <2>2. d_dst' = dst
      BY <1>2
    <2> HIDE DEF dst
    <2> QED
      BY <1>1, <1>2, <2>1, <2>2 DEF SdInv, SdTyped, StreamKept, BlocksKept, CardKept, FailureKept
  <1>3. CASE d_pc' = "err" /\ d_refused' = TRUE /\ UNCHANGED d_dst
    BY <1>1, <1>3 DEF SdInv, SdTyped, StreamKept, BlocksKept, CardKept, FailureKept
  <1> QED
    BY <1>2, <1>3 DEF read_block_slow

LEMMA AttemptKeeps ==
    ASSUME SdInv, AttemptEnds
    PROVE  SdInv'
  <1> DEFINE stage == [s \in 0 .. 1 |-> <<>>]
  <1>1. /\ d_pc \in {"ok", "err"} /\ d_b' = 0 /\ d_copy' = <<>> /\ d_stage' = stage
        /\ d_card' = (IF d_card = "single" THEN "idle" ELSE d_card)
        /\ UNCHANGED <<g_dma_ok, g_pend, d_n, d_refused, d_lost, d_dst>>
    BY DEF AttemptEnds, engVars
  <1>2. d_rc = "none" /\ Form(d_dst, d_n) /\ d_card' \in {"idle", "multi"} /\ (d_card' # "idle" => d_lost = TRUE)
    BY <1>1 DEF SdInv, SdTyped, CardKept
  <1>3. CASE retried(d_pc) /\ d_pc' = "command" /\ d_rc' = d_rc
    <2>1. g_dma_ok = FALSE
      BY <1>3 DEF retried, dma_enabled, SdInv, SdTyped
    <2>2. Delivered(d_dst, d_n, 0, <<>>, stage)
      <3>1. d_n \in Nat /\ 0 \in 0 .. d_n /\ 0 .. 0 - 1 = {}
        BY <1>2 DEF Form, Burst
      <3>2. d_dst = [c \in 0 .. d_n - 1 |-> d_dst[c]] /\ stage = [i \in 0 .. 1 |-> stage[i]]
        BY <1>2 DEF Form
      <3> HIDE DEF stage
      <3> QED
        BY <3>1, <3>2 DEF Delivered
    <2> HIDE DEF stage
    <2> QED
      BY <1>1, <1>2, <1>3, <2>1, <2>2 DEF SdInv, SdTyped, StreamKept, BlocksKept, CardKept, FailureKept
  <1>4. CASE ~retried(d_pc) /\ d_pc' = "idle" /\ d_rc' = d_pc
    <2>1. d_pc = "err" => d_refused = TRUE \/ d_lost = TRUE
      <3>1. ASSUME d_pc = "err", d_try = <<1, TRUE>>, g_dma_ok = FALSE PROVE FALSE
        <4>1. d_try[1] = 1 /\ d_try[2] = TRUE
          BY <3>1
        <4> QED
          BY <1>4, <3>1, <4>1 DEF retried, dma_enabled
      <3> QED
        BY <3>1 DEF SdInv, FailureKept
    <2> HIDE DEF stage
    <2> QED
      BY <1>1, <1>2, <1>4, <2>1 DEF SdInv, SdTyped, StreamKept, BlocksKept, CardKept, FailureKept
  <1> QED
    BY <1>3, <1>4 DEF AttemptEnds

LEMMA StopKeeps ==
    ASSUME SdInv, multi_stop
    PROVE  SdInv'
  <1>1. /\ d_pc \in {"stop-ok", "stop-err"} /\ d_pc' = (IF d_pc = "stop-ok" THEN "ok" ELSE "err")
        /\ d_dst' = (IF d_pc = "stop-ok" THEN CopyOut(d_dst, d_copy, d_stage) ELSE d_dst)
        /\ d_lost' = (d_lost \/ d_card' # "idle")
        /\ UNCHANGED <<d_n, d_try, d_rc, d_refused>>
    BY DEF multi_stop, copy_out, CopyOut, StageOf
  <1>2. /\ d_rc = "none" /\ Form(d_dst, d_n) /\ g_dma_ok \in BOOLEAN /\ d_lost \in BOOLEAN
        /\ d_card \in {"idle", "single", "multi"}
    BY <1>1 DEF SdInv, SdTyped
  <1>3. /\ g_dma_ok' \in BOOLEAN /\ (g_dma_ok = FALSE => g_dma_ok' = FALSE) /\ g_pend' = <<>>
        /\ d_card' \in {"idle", d_card}
    <2>1. CASE g_dma_ok = TRUE
      BY <1>2, <2>1, EngineOutcome DEF multi_stop, dma_enabled
    <2>2. CASE g_dma_ok = FALSE
      BY <1>1, <2>2 DEF multi_stop, dma_enabled, spi3_read, SdInv, StreamKept
    <2> QED
      BY <1>2, <2>1, <2>2
  <1>4. d_lost' \in BOOLEAN /\ (d_lost = TRUE => d_lost' = TRUE) /\ (d_card' # "idle" => d_lost' = TRUE)
    BY <1>1, <1>2
  <1>5. g_dma_ok' = TRUE => d_try = <<1, TRUE>>
    BY <1>1, <1>2, <1>3 DEF SdInv, FailureKept
  <1>6. CASE d_pc = "stop-ok"
    <2> DEFINE new == CopyOut(d_dst, d_copy, d_stage)
    <2>1. Delivered(d_dst, d_n, d_n, d_copy, d_stage)
      BY <1>6 DEF SdInv, BlocksKept
    <2>2a. new = [c \in 0 .. d_n - 1 |-> new[c]] /\ \A c \in 0 .. d_n - 1 : new[c] = Piece(c, SD_BLOCK_SIZE)
      BY <2>1, CopiedOut
    <2>2. BlocksWhole(new, d_n) /\ Form(new, d_n)
      <3> HIDE DEF new
      <3> QED
        BY <1>2, <2>2a DEF BlocksWhole, Form
    <2>3. d_dst' = new
      BY <1>1, <1>6
    <2> HIDE DEF new
    <2> QED
      BY <1>1, <1>2, <1>3, <1>4, <1>5, <1>6, <2>2, <2>3
         DEF SdInv, SdTyped, StreamKept, BlocksKept, CardKept, FailureKept
  <1>7. CASE d_pc = "stop-err"
    <2>1. d_refused = TRUE \/ d_lost' = TRUE \/ (d_try = <<1, TRUE>> /\ g_dma_ok' = FALSE)
      BY <1>3, <1>4, <1>7 DEF SdInv, FailureKept
    <2> QED
      BY <1>1, <1>2, <1>3, <1>4, <1>5, <1>7, <2>1
         DEF SdInv, SdTyped, StreamKept, BlocksKept, CardKept, FailureKept
  <1> QED
    BY <1>1, <1>6, <1>7

\* The stream the model reads is the card's, of its mode and delays.
LEMMA StreamIs ==
    /\ \A p : StreamByte(p) = ByteOf(d_card, d_lat, d_gap, p)
    /\ \A p, n : Bytes(p, n) = BytesOf(d_card, d_lat, d_gap, p, n)
    /\ NextMark = Marks(d_card, d_lat, d_gap, d_pos)
    /\ \A buf : Overshoot(buf) = OverOf(d_have, buf)
    /\ \A stage : copy_out(stage) = CopyOut(d_dst, d_copy, stage)
  <1>1. Unit = Span(d_gap)
    BY DEF Unit, Span
  <1>2. \A p : StreamByte(p) = ByteOf(d_card, d_lat, d_gap, p)
    BY <1>1 DEF StreamByte, ByteOf
  <1>3. \A p, n : Bytes(p, n) = BytesOf(d_card, d_lat, d_gap, p, n)
    BY <1>2 DEF Bytes, BytesOf
  <1>4. NextMark = Marks(d_card, d_lat, d_gap, d_pos)
    BY <1>1, <1>2 DEF NextMark, Marks
  <1>5. \A buf : Overshoot(buf) = OverOf(d_have, buf)
    BY DEF Overshoot, OverOf
  <1>6. \A stage : copy_out(stage) = CopyOut(d_dst, d_copy, stage)
    BY DEF copy_out, CopyOut, StageOf
  <1> QED
    BY <1>2, <1>3, <1>4, <1>5, <1>6

\* The token's bytes in place, the read goes on to the rest of the block.
LEMMA ToData ==
    ASSUME SdInv, d_pc = "token", d_pc' = "data",
           NEW k \in 0 .. SD_BLOCK_SIZE,
           d_dst' = [d_dst EXCEPT ![d_b] = Piece(d_b, k)], d_have' = k,
           d_pos' = Mark(d_lat, d_gap, d_b) + 1 + k, g_pend' = <<>>, g_dma_ok' = g_dma_ok,
           UNCHANGED <<d_card, d_lat, d_gap, d_n, d_b, d_try, d_stage, d_copy, d_rc, d_refused, d_lost>>
    PROVE  SdInv'
  <1> DEFINE new == [d_dst EXCEPT ![d_b] = Piece(d_b, k)]
             pos == Mark(d_lat, d_gap, d_b) + 1 + k
  <1>1. /\ Delivered(d_dst, d_n, d_b, d_copy, d_stage) /\ Streams(d_card, d_lat, d_gap, d_n, d_b)
        /\ d_n \in {1, Burst} /\ d_rc = "none"
    BY DEF SdInv, BlocksKept, StreamKept, SdTyped, Form
  <1>2. d_b < d_n
    BY <1>1, StreamsBlock
  <1>3. Delivered(new, d_n, d_b, d_copy, d_stage) /\ new[d_b] = Piece(d_b, k)
    BY <1>1, <1>2, WrittenNext
  <1>4. Form(new, d_n)
    BY <1>1, <1>3 DEF Form, Delivered
  <1>5. DataAt(d_lat, d_gap, d_b, pos, new, k)
    BY <1>3 DEF DataAt
  <1>6. d_dst' = new /\ d_pos' = pos
    OBVIOUS
  <1> HIDE DEF new, pos
  <1> QED
    BY <1>1, <1>3, <1>4, <1>5, <1>6 DEF SdInv, SdTyped, StreamKept, BlocksKept, CardKept, FailureKept

LEMMA TokenKeeps ==
    ASSUME SdInv, token_wait_hw
    PROVE  SdInv'
  <1>1. /\ d_pc = "token" /\ g_dma_ok \in BOOLEAN /\ d_refused \in BOOLEAN
        /\ UNCHANGED <<d_card, d_lat, d_gap, d_n, d_b, d_try, d_stage, d_copy, d_rc, d_refused, d_lost>>
    BY DEF token_wait_hw, SdInv, SdTyped
  <1>2. Streams(d_card, d_lat, d_gap, d_n, d_b) /\ TokenAt(d_lat, d_gap, d_b, d_pos, g_pend)
    BY <1>1 DEF SdInv, StreamKept
  <1>3. CASE g_pend # <<>>
    <2>1. PICK k \in 0 .. SD_BLOCK_SIZE : g_pend = <<Piece(d_b, k)>> /\ d_pos = Mark(d_lat, d_gap, d_b) + 1 + k
      BY <1>2, <1>3 DEF TokenAt
    <2>2. g_pend[1] = Piece(d_b, k) /\ Len(g_pend[1]) = k
      <3>1. g_pend[1] = Piece(d_b, k)
        BY <2>1
      <3>2. k \in Nat /\ Len(Piece(d_b, k)) = k
        BY SdNumbers DEF Piece
      <3> QED
        BY <3>1, <3>2
    <2>3. /\ d_dst' = [d_dst EXCEPT ![d_b] = g_pend[1]] /\ d_have' = Len(g_pend[1])
          /\ g_pend' = <<>> /\ d_pc' = "data" /\ g_dma_ok' = g_dma_ok /\ d_pos' = d_pos
      BY <1>3 DEF token_wait_hw, engVars
    <2> QED
      BY <1>1, <2>1, <2>2, <2>3, ToData
  <1>4. CASE g_pend = <<>>
    <2> DEFINE p == Mark(d_lat, d_gap, d_b)
               end == BatchEnd(d_pos, p)
               k == end - p - 1
    <2>1. Waits(d_lat, d_gap, d_b, d_pos)
      BY <1>2, <1>4 DEF TokenAt
    <2>2. /\ NextMark = {p} /\ StreamByte(p) = TOK
          /\ k \in 0 .. SD_BLOCK_SIZE /\ Bytes(p + 1, k) = Piece(d_b, k) /\ end = p + 1 + k
      BY <1>2, <2>1, TokenArrives, StreamIs
    <2>3. PICK o : /\ IF dma_enabled THEN collect_dma(o) ELSE spi3_read /\ o = "ok"
                   /\ \/ /\ o = "ok"
                         /\ \E q \in NextMark :
                              LET e == d_pos + Batch * ((q - d_pos) \div Batch + 1) IN
                              /\ StreamByte(q) = TOK
                              /\ d_dst' = [d_dst EXCEPT ![d_b] = Bytes(q + 1, e - q - 1)]
                              /\ d_have' = e - q - 1 /\ d_pos' = e /\ d_pc' = "data"
                      \/ /\ o # "ok" \/ \A q \in NextMark : StreamByte(q) # TOK
                         /\ Leave /\ UNCHANGED <<d_dst, d_have, d_pos>>
      BY <1>4 DEF token_wait_hw
    <2>4. g_pend' = <<>>
      BY <1>4 DEF token_wait_hw
    <2>5. /\ g_dma_ok' \in BOOLEAN /\ (g_dma_ok' = TRUE => g_dma_ok = TRUE) /\ (o = "ok" => g_dma_ok' = g_dma_ok)
          /\ (o # "ok" => g_dma_ok = TRUE /\ g_dma_ok' = FALSE)
      BY <1>1, <2>3, EngineOutcome DEF dma_enabled, spi3_read
    <2> HIDE DEF p
    <2>6. CASE o = "ok" /\ \E q \in NextMark :
                              LET e == d_pos + Batch * ((q - d_pos) \div Batch + 1) IN
                              /\ StreamByte(q) = TOK
                              /\ d_dst' = [d_dst EXCEPT ![d_b] = Bytes(q + 1, e - q - 1)]
                              /\ d_have' = e - q - 1 /\ d_pos' = e /\ d_pc' = "data"
      <3>1. /\ d_dst' = [d_dst EXCEPT ![d_b] = Bytes(p + 1, k)]
            /\ d_have' = k /\ d_pos' = end /\ d_pc' = "data"
        BY <2>2, <2>6 DEF BatchEnd
      <3> HIDE DEF k, end
      <3>2. d_dst' = [d_dst EXCEPT ![d_b] = Piece(d_b, k)] /\ d_pos' = Mark(d_lat, d_gap, d_b) + 1 + k
        BY <2>2, <3>1 DEF p
      <3> QED
        BY <1>1, <2>2, <2>4, <2>5, <2>6, <3>1, <3>2, ToData
    <2>7. CASE /\ o # "ok" \/ \A q \in NextMark : StreamByte(q) # TOK
               /\ Leave /\ UNCHANGED <<d_dst, d_have, d_pos>>
      <3>1. o # "ok"
        BY <2>2, <2>7
      <3>2. d_card # "multi" \/ d_n # 1
        BY <1>2 DEF Streams, Burst
      <3> QED
        BY <1>1, <2>4, <2>5, <2>7, <3>1, <3>2, LeavesRight
    <2> QED
      BY <2>3, <2>6, <2>7
  <1> QED
    BY <1>3, <1>4

\* At the rest of a block.
LEMMA AtRest ==
    ASSUME SdInv, d_pc = "data"
    PROVE  /\ Streams(d_card, d_lat, d_gap, d_n, d_b) /\ DataAt(d_lat, d_gap, d_b, d_pos, d_dst, d_have)
           /\ Delivered(d_dst, d_n, d_b, d_copy, d_stage) /\ d_n \in {1, Burst} /\ d_b \in Nat /\ d_b < d_n
           /\ d_rc = "none" /\ g_pend = <<>> /\ g_dma_ok \in BOOLEAN
           /\ \E l \in 0 .. 3 :
                /\ Rounded(SD_BLOCK_SIZE - d_have + 2) = SD_BLOCK_SIZE - d_have + 2 + l
                /\ RestRead(d_card, d_lat, d_gap, d_b, d_have, l, Bytes(d_pos, Rounded(SD_BLOCK_SIZE - d_have + 2)))
  <1>1. /\ Streams(d_card, d_lat, d_gap, d_n, d_b) /\ DataAt(d_lat, d_gap, d_b, d_pos, d_dst, d_have)
        /\ Delivered(d_dst, d_n, d_b, d_copy, d_stage) /\ d_n \in {1, Burst}
        /\ d_rc = "none" /\ g_pend = <<>> /\ g_dma_ok \in BOOLEAN
    BY DEF SdInv, SdTyped, StreamKept, BlocksKept, Form
  <1>2. BlockComes(d_card, d_lat, d_gap, d_b) /\ d_b \in Nat /\ d_b < d_n
    BY <1>1, StreamsBlock
  <1> DEFINE m == SD_BLOCK_SIZE - d_have + 2
  <1>3. d_have \in 0 .. SD_BLOCK_SIZE /\ d_pos = Mark(d_lat, d_gap, d_b) + 1 + d_have
    BY <1>1 DEF DataAt
  <1>4. m \in Nat
    BY <1>3, SdNumbers
  <1>5. PICK l \in 0 .. 3 : Rounded(m) = m + l
    <2> HIDE DEF m
    <2> DEFINE r == Rounded(m)
               l == r - m
    <2>1. r \in Nat /\ m <= r /\ r <= m + 3
      BY <1>4, RoundedIs
    <2> HIDE DEF r
    <2>2. l \in 0 .. 3 /\ r = m + l
      BY <1>4, <2>1
    <2> QED
      BY <2>2 DEF r
  <1>6. Bytes(d_pos, Rounded(m)) = BytesOf(d_card, d_lat, d_gap, Mark(d_lat, d_gap, d_b) + 1 + d_have, m + l)
    BY <1>3, <1>5, StreamIs
  <1>7. RestRead(d_card, d_lat, d_gap, d_b, d_have, l, Bytes(d_pos, Rounded(m)))
    BY <1>2, <1>3, <1>5, <1>6 DEF RestRead
  <1> QED
    BY <1>1, <1>2, <1>5, <1>7

\* A block is read: one of a burst, or the only one.
LEMMA ToNext ==
    ASSUME SdInv, d_pc = "data", NEW b, b = d_b + 1, d_b' = b,
           NEW dst, d_dst' = dst, NEW stage, d_stage' = stage, NEW copy, d_copy' = copy,
           NEW pos, d_pos' = pos, NEW pend, g_pend' = pend, g_dma_ok' = g_dma_ok,
           Delivered(dst, d_n, b, copy, stage), d_n = 1 \/ g_dma_ok = FALSE => copy = <<>>,
           d_n # 1 => TokenAt(d_lat, d_gap, b, pos, pend),
           d_n = 1 \/ g_dma_ok = FALSE => pend = <<>>,
           d_pc' = IF d_n = 1 THEN "ok" ELSE IF b < d_n THEN "token" ELSE "stop-ok",
           UNCHANGED <<d_card, d_lat, d_gap, d_n, d_try, d_rc, d_refused, d_lost>>
    PROVE  SdInv'
  <1>1. /\ Streams(d_card, d_lat, d_gap, d_n, d_b) /\ d_n \in {1, Burst} /\ d_b \in Nat /\ d_b < d_n /\ d_rc = "none"
    BY AtRest
  <1>2. dst = [c \in 0 .. d_n - 1 |-> dst[c]]
    BY DEF Delivered
  <1>3. Form(dst, d_n)
    BY <1>1, <1>2 DEF Form
  <1>4. CASE d_n = 1
    <2>1. b = 1 /\ copy = <<>> /\ pend = <<>> /\ d_pc' = "ok" /\ d_card = "single"
      BY <1>1, <1>4 DEF Streams, Burst
    <2>2. BlocksWhole(dst, d_n)
      BY <1>4, <2>1 DEF BlocksWhole, Delivered
    <2> QED
      BY <1>1, <1>3, <2>1, <2>2 DEF SdInv, SdTyped, StreamKept, BlocksKept, CardKept, FailureKept
  <1>5. CASE d_n # 1 /\ b < d_n
    <2>1. Streams(d_card, d_lat, d_gap, d_n, b)
      BY <1>1, <1>5 DEF Streams, Burst
    <2> QED
      BY <1>1, <1>3, <1>5, <2>1 DEF SdInv, SdTyped, StreamKept, BlocksKept, CardKept, FailureKept
  <1>6. CASE d_n # 1 /\ ~(b < d_n)
    <2>1. b = d_n
      BY <1>1, <1>6 DEF Burst
    <2> QED
      BY <1>1, <1>3, <1>6, <2>1 DEF SdInv, SdTyped, StreamKept, BlocksKept, CardKept, FailureKept
  <1> QED
    BY <1>4, <1>5, <1>6

LEMMA DataKeeps ==
    ASSUME SdInv, data_read_hw
    PROVE  SdInv'
  <1> DEFINE rest == SD_BLOCK_SIZE - d_have
             buf  == Bytes(d_pos, Rounded(rest + 2))
             b == d_b + 1
             new == [d_dst EXCEPT ![d_b] = @ \o SubSeq(buf, 1, rest)]
             far == d_pos + (IF dma_enabled THEN Len(buf) ELSE rest + 2)
             over == IF dma_enabled THEN Overshoot(buf) ELSE g_pend
  <1>1. /\ d_pc = "data" /\ (d_n < Burst \/ ~dma_enabled)
        /\ UNCHANGED <<d_card, d_lat, d_gap, d_n, d_have, d_try, d_stage, d_copy, d_rc, d_refused, d_lost>>
    BY DEF data_read_hw
  <1>2. /\ Streams(d_card, d_lat, d_gap, d_n, d_b) /\ DataAt(d_lat, d_gap, d_b, d_pos, d_dst, d_have)
        /\ Delivered(d_dst, d_n, d_b, d_copy, d_stage) /\ d_n \in {1, Burst} /\ d_b \in Nat /\ d_b < d_n
        /\ g_pend = <<>> /\ g_dma_ok \in BOOLEAN /\ d_refused \in BOOLEAN
    BY <1>1, AtRest DEF SdInv, SdTyped
  <1>3. PICK l \in 0 .. 3 : RestRead(d_card, d_lat, d_gap, d_b, d_have, l, buf)
    BY <1>1, AtRest
  <1>4. PICK o : /\ IF dma_enabled THEN collect_dma(o) ELSE spi3_read /\ o = "ok"
                 /\ \/ /\ o = "ok" /\ d_dst' = new /\ g_pend' = over /\ d_pos' = far /\ d_b' = b
                       /\ IF d_n < Burst THEN d_pc' = "ok"
                          ELSE d_pc' = IF b < d_n THEN "token" ELSE "stop-ok"
                    \/ o # "ok" /\ Leave /\ UNCHANGED <<d_dst, g_pend, d_pos, d_b>>
    BY DEF data_read_hw
  <1>5. /\ g_dma_ok' \in BOOLEAN /\ (g_dma_ok' = TRUE => g_dma_ok = TRUE) /\ (o = "ok" => g_dma_ok' = g_dma_ok)
        /\ (o # "ok" => g_dma_ok = TRUE /\ g_dma_ok' = FALSE)
    BY <1>2, <1>4, EngineOutcome DEF dma_enabled, spi3_read
  <1>6. CASE o # "ok"
    <2>1. d_card # "multi" \/ d_n # 1
      BY <1>2 DEF Streams, Burst
    <2>2. Leave /\ UNCHANGED <<d_dst, g_pend>>
      BY <1>4, <1>6
    <2> QED
      BY <1>1, <1>2, <1>5, <1>6, <2>1, <2>2, LeavesRight
  <1>7. CASE o = "ok"
    <2>1. (d_n < Burst <=> d_n = 1) /\ (d_n = 1 \/ g_dma_ok = FALSE)
      BY <1>1, <1>2 DEF Burst, dma_enabled
    <2>2. d_copy = <<>>
      BY <1>1, <2>1 DEF SdInv, BlocksKept
    <2>3. d_dst[d_b] \o SubSeq(buf, 1, rest) = Piece(d_b, SD_BLOCK_SIZE)
      <3>1. d_dst[d_b] = Piece(d_b, d_have)
        BY <1>2 DEF DataAt
      <3> HIDE DEF buf
      <3>2. Piece(d_b, d_have) \o SubSeq(buf, 1, rest) = Piece(d_b, SD_BLOCK_SIZE)
        <4>1. d_have \in 0 .. SD_BLOCK_SIZE /\ SubSeq(buf, 1, rest) = From(d_b, d_have, rest)
          BY <1>3, RestFollows
        <4> QED
          BY <4>1, PieceMore
      <3> QED
        BY <3>1, <3>2
    <2>4. d_pos = Mark(d_lat, d_gap, d_b) + 1 + d_have
      BY <1>2 DEF DataAt
    <2>5. /\ (d_card = "single" => Overshoot(buf) = <<>>)
          /\ TokenAt(d_lat, d_gap, b, d_pos + (rest + 2), <<>>)
      BY <1>3, <2>4, NextTokenAt, StreamIs
    <2>6. /\ d_dst' = new /\ g_pend' = over /\ d_pos' = far /\ d_b' = b
          /\ d_pc' = IF d_n = 1 THEN "ok" ELSE IF b < d_n THEN "token" ELSE "stop-ok"
      BY <1>4, <1>7, <2>1
    <2>7. over = <<>>
      BY <1>1, <1>2, <2>1, <2>5 DEF Streams, dma_enabled, Burst
    <2>8. d_n # 1 => TokenAt(d_lat, d_gap, b, far, over)
      BY <1>2, <2>1, <2>5, <2>7 DEF dma_enabled
    <2> HIDE DEF over, far, rest, buf
    <2>9. Delivered(new, d_n, b, <<>>, d_stage)
      <3>1. new = [d_dst EXCEPT ![d_b] = d_dst[d_b] \o SubSeq(buf, 1, rest)]
        OBVIOUS
      <3>2. Delivered(d_dst, d_n, d_b, <<>>, d_stage)
        BY <1>2, <2>2
      <3> QED
        BY <1>2, <2>3, <3>1, <3>2, BlockStored
    <2>10. d_stage' = d_stage /\ d_copy' = <<>> /\ g_dma_ok' = g_dma_ok
      BY <1>1, <1>5, <1>7, <2>2
    <2>11. b = d_b + 1
      OBVIOUS
    <2> HIDE DEF new, b
    <2> QED
      BY <1>1, <2>6, <2>7, <2>8, <2>9, <2>10, <2>11, ToNext
  <1> QED
    BY <1>6, <1>7

LEMMA PipelineKeeps ==
    ASSUME SdInv, read_blocks_once
    PROVE  SdInv'
  <1> DEFINE rest == SD_BLOCK_SIZE - d_have
             buf  == Bytes(d_pos, Rounded(rest + 2))
             stage == [d_stage EXCEPT ![d_b % 2] = buf]
             b == d_b + 1
             new == CopyOut(d_dst, d_copy, stage)
             far == d_pos + Len(buf)
             over == OverOf(d_have, buf)
             copy == <<d_b, rest>>
  <1>1. /\ d_pc = "data" /\ d_n >= Burst /\ dma_enabled
        /\ UNCHANGED <<d_card, d_lat, d_gap, d_n, d_have, d_try, d_rc, d_refused, d_lost>>
    BY DEF read_blocks_once
  <1>2. /\ Streams(d_card, d_lat, d_gap, d_n, d_b) /\ DataAt(d_lat, d_gap, d_b, d_pos, d_dst, d_have)
        /\ Delivered(d_dst, d_n, d_b, d_copy, d_stage) /\ d_n \in {1, Burst} /\ d_b \in Nat /\ d_b < d_n
        /\ g_pend = <<>> /\ g_dma_ok = TRUE /\ d_refused \in BOOLEAN
    BY <1>1, AtRest DEF SdInv, SdTyped, dma_enabled
  <1>3. PICK l \in 0 .. 3 : RestRead(d_card, d_lat, d_gap, d_b, d_have, l, buf)
    BY <1>1, AtRest
  <1>4. PICK o : /\ collect_dma(o)
                 /\ \/ /\ o # "ok" /\ Leave /\ UNCHANGED <<g_pend, d_pos, d_b, d_dst, d_stage, d_copy>>
                    \/ /\ o = "ok" /\ d_stage' = stage /\ d_dst' = new
                       /\ g_pend' = over /\ d_pos' = far
                       /\ d_copy' = copy /\ d_b' = b
                       /\ d_pc' = IF b < d_n THEN "token" ELSE "stop-ok"
    BY StreamIs DEF read_blocks_once, StageOf
  <1>5. g_dma_ok' \in BOOLEAN /\ (o = "ok" => g_dma_ok' = TRUE) /\ (o # "ok" => g_dma_ok' = FALSE)
    BY <1>2, <1>4, EngineOutcome
  <1>6. CASE o # "ok"
    <2>1. d_n # 1
      BY <1>1 DEF Burst
    <2>2. Leave /\ UNCHANGED <<d_dst, g_pend>>
      BY <1>4, <1>6
    <2> QED
      BY <1>1, <1>2, <1>5, <1>6, <2>1, <2>2, LeavesRight
  <1>7. CASE o = "ok"
    <2>1. d_n # 1 /\ d_card = "multi"
      BY <1>1, <1>2 DEF Burst, Streams
    <2>2. /\ d_have \in 0 .. SD_BLOCK_SIZE /\ SubSeq(buf, 1, rest) = From(d_b, d_have, rest)
          /\ Len(buf) = rest + 2 + l
      BY <1>3, RestFollows
    <2>3. d_dst[d_b] = Piece(d_b, d_have) /\ d_pos = Mark(d_lat, d_gap, d_b) + 1 + d_have
      BY <1>2 DEF DataAt
    <2>4. TokenAt(d_lat, d_gap, b, far, over)
      <3>1. far = Mark(d_lat, d_gap, d_b) + 1 + d_have + (SD_BLOCK_SIZE - d_have + 2 + l)
        BY <2>2, <2>3
      <3> QED
        BY <1>3, <2>1, <3>1, NextTokenAt
    <2> HIDE DEF buf, far, over
    <2>5. Delivered(new, d_n, b, copy, stage)
      BY <1>2, <2>2, <2>3, BlockStaged
    <2>6. /\ d_stage' = stage /\ d_dst' = new /\ g_pend' = over /\ d_pos' = far /\ d_copy' = copy /\ d_b' = b
          /\ d_pc' = IF d_n = 1 THEN "ok" ELSE IF b < d_n THEN "token" ELSE "stop-ok"
      BY <1>4, <1>7, <2>1
    <2>7. b = d_b + 1 /\ g_dma_ok' = g_dma_ok
      BY <1>2, <1>5, <1>7
    <2> HIDE DEF new, stage, b, copy
    <2> QED
      BY <1>1, <1>2, <2>1, <2>4, <2>5, <2>6, <2>7, ToNext
  <1> QED
    BY <1>6, <1>7

LEMMA SdKeeps ==
    ASSUME ~DiagnosticsShare, SdInv, [SdNext]_sdVars
    PROVE  SdInv'
  <1>1. CASE BetweenReads
    BY <1>1, StaysIdle
  <1>2. CASE sd_read_blocks(1) \/ sd_read_blocks(Burst)
    BY <1>2, ReadStarts
  <1>3. CASE UNCHANGED sdVars
    <2>1. /\ UNCHANGED <<d_pc, d_n, d_b, d_have, d_try, d_dst, d_stage, d_copy, d_rc, d_refused, d_lost>>
          /\ UNCHANGED <<d_card, d_lat, d_gap, d_pos>> /\ g_dma_ok' = g_dma_ok /\ g_pend' = g_pend
      BY <1>3 DEF sdVars, engVars, crdVars, callVars
    <2>2. SdTyped' /\ CardKept' /\ FailureKept'
      BY <2>1 DEF SdInv, SdTyped, CardKept, FailureKept
    <2>3. StreamKept'
      BY <2>1 DEF SdInv, StreamKept
    <2>4. BlocksKept'
      BY <2>1 DEF SdInv, BlocksKept
    <2> QED
      BY <2>2, <2>3, <2>4 DEF SdInv
  <1> QED
    BY <1>1, <1>2, <1>3, CommandKeeps, SlowKeeps, AttemptKeeps, StopKeeps, TokenKeeps, DataKeeps, PipelineKeeps
       DEF SdNext, BetweenReads

\* A read of the card that reports success delivers the blocks asked for, every byte in
\* its place, and one from a card that does not refuse it and is not left streaming
\* succeeds: whatever the size of a block and of a batch, the delays of the card, and
\* the transfers that fail (sd.c), as long as no diagnostic falls inside a read.
THEOREM SectorsAlwaysArrive ==
    ASSUME ~DiagnosticsShare
    PROVE  SdSpec => []SectorsArrive
  <1>1. SdInit => SdInv
    BY SdStarts
  <1>2. SdInv /\ [SdNext]_sdVars => SdInv'
    BY SdKeeps
  <1>3. SdInv => SectorsArrive
    BY DEF SdInv, BlocksKept, FailureKept, BlocksWhole, Piece, SectorsArrive, ReadIsRight, HealthyReadSucceeds
  <1> QED
    BY <1>1, <1>2, <1>3, PTL DEF SdSpec

-----------------------------------------------------------------------------
(* The file system reader (Fat.tla).                                        *)

Clusters == 2 .. CLUSTERS + 1
FileStates == [open : BOOLEAN, cluster : Nat, pos : 0 .. Size]
IterStates == [open : BOOLEAN, cluster : Nat, sector : Nat, entry : Nat, done : BOOLEAN, lfn : Seq(Nat)]

\* The read under way, and the seek: of an open file, within it.
ReadOK(call, file) ==
    \/ call = <<>>
    \/ \E h \in Handles, n \in Nat : call = <<h, n>> /\ n > 0 /\ n <= Size - file[h].pos /\ file[h].open = TRUE
WalkOK(walk, file, failed) ==
    \/ walk = <<>>
    \/ \E h \in Handles, pos \in 0 .. Size, c \in Clusters, hops \in Nat \ {0} :
        /\ walk = <<h, pos, c, hops>> /\ file[h].open = TRUE
        /\ failed[h] = FALSE => hops <= Hops(pos) /\ c = Chain[1 + Hops(pos) - hops]

\* An open file no read of which has failed is at the cluster of its position.
FileOK(f, failed, wrong) ==
    /\ f.open = TRUE => f.cluster \in Clusters
    /\ f.open = TRUE /\ failed = FALSE => f.cluster = Chain[1 + Hops(f.pos)]
    /\ failed = FALSE => wrong = FALSE

\* A buffer holds the sector its tag names.
SecOK(lba, held) == lba # NOLBA => held = lba
CachesOK == SecOK(g_sec_lba, f_sec) /\ SecOK(g_fatsec_lba, f_fatsec)

\* The entries up to p were returned; the fragments that end at p agree on x.
Run(p, x) == \E j \in 1 .. p : /\ Dir[j].kind = "last" /\ Belongs(j, x)
                               /\ \A m \in j + 1 .. p : Dir[m].kind = "lfn" /\ Belongs(m, x)
Up(p) == {i \in Listed : i <= p}
AtEntry(names, lfn, p) ==
    /\ p \in 0 .. Len(Dir) /\ \A j \in 1 .. p : Dir[j].kind # "end"
    /\ Lists(names, Up(p))
    /\ lfn = <<>> \/ \E x \in Nat : lfn = <<x>>
    /\ \A x \in Nat : lfn = <<x>> <=> Run(p, x)

Place(i, s, k) == (i - 1) * (SPC * ENTS) + s * ENTS + k

IterOK(it, names, cut) ==
    /\ it.open = FALSE => names = <<>> /\ it.done = FALSE
    /\ it.open = TRUE /\ it.done = FALSE =>
        \E i \in 1 .. Len(DirChain) :
            /\ it.cluster = DirChain[i] /\ it.sector \in 0 .. SPC /\ it.entry \in 0 .. ENTS - 1
            /\ it.sector = SPC => it.entry = 0
            /\ AtEntry(names, it.lfn, Place(i, it.sector, it.entry))
    /\ it.open = TRUE /\ it.done = TRUE =>
        /\ \E p \in 0 .. Len(Dir) : Lists(names, Up(p))
        /\ cut = FALSE => Lists(names, Listed)

FilesTyped(file, failed, wrong) ==
    /\ file \in [Handles -> FileStates] /\ failed \in [Handles -> BOOLEAN] /\ wrong \in [Handles -> BOOLEAN]
    /\ \A h \in Handles : FileOK(file[h], failed[h], wrong[h])

FilesOK ==
    /\ FilesTyped(f_file, f_failed, f_wrong)
    /\ f_call = <<>> \/ f_walk = <<>>
    /\ ReadOK(f_call, f_file) /\ WalkOK(f_walk, f_file, f_failed)

Names == Seq(Nat \X {"long", "short"})
ItersTyped(dir, names, cut) ==
    /\ dir \in [Iterators -> IterStates] /\ names \in [Iterators -> Names] /\ cut \in [Iterators -> BOOLEAN]
    /\ \A d \in Iterators : IterOK(dir[d], names[d], cut[d])
ItersOK == ItersTyped(f_dir, f_names, f_cut)

FatInv == CachesOK /\ FilesOK /\ ItersOK

LEMMA FatNumbers ==
    /\ SEC \in Nat /\ SEC > 0 /\ ENTS \in Nat /\ ENTS > 0 /\ SPC \in Nat /\ SPC > 0 /\ FATS \in Nat /\ FATS > 0
    /\ CLUSTERS \in Nat /\ Len(Chain) \in Nat /\ Len(Chain) > 0 /\ Len(DirChain) \in Nat /\ Len(DirChain) > 0
    /\ Size \in Nat /\ Size > 0 /\ Size <= Len(Chain) * CB /\ Len(Dir) \in Nat
    /\ Len(Dir) = Len(DirChain) * (SPC * ENTS)
  <1>1. Len(Chain) \in Nat /\ Len(Chain) > 0 /\ Len(DirChain) \in Nat /\ Len(DirChain) > 0
    BY FatAssumption, EmptySeq, LenProperties DEF IsChain
  <1>2. Len(Dir) \in Nat
    BY FatAssumption
  <1>3. Size \in 1 .. Len(Chain) * CB /\ SEC \in Nat /\ SPC \in Nat
    BY FatAssumption
  <1>4. CB \in Nat
    BY <1>3 DEF CB
  <1>5. Len(Chain) * CB \in Nat
    BY <1>1, <1>4
  <1>6. Size \in Nat /\ Size > 0 /\ Size <= Len(Chain) * CB
    BY <1>3, <1>5
  <1> QED
    BY <1>1, <1>2, <1>6, FatAssumption

LEMMA ClusterSize == CB \in Nat /\ CB > 0 /\ CB % SEC = 0 /\ CB >= SEC
  <1>1. SEC \in Nat /\ SEC > 0 /\ SPC \in Nat /\ SPC > 0
    BY FatNumbers
  <1>2. SEC * SPC \in Nat /\ SEC * SPC >= SEC
    BY <1>1
  <1>3. (SEC * SPC) % SEC = 0
    BY <1>1, ModOfMultiple
  <1> QED
    BY <1>1, <1>2, <1>3 DEF CB

LEMMA ChainOf ==
    ASSUME NEW ch, IsChain(ch)
    PROVE  /\ \A i \in 1 .. Len(ch) : ch[i] \in Clusters
           /\ \A i \in 1 .. Len(ch) : FAT[ch[i]] = IF i < Len(ch) THEN ch[i + 1] ELSE EOC
           /\ \A i, j \in 1 .. Len(ch) : ch[i] = ch[j] => i = j
  <1>1. ch \in Seq(Clusters)
    BY DEF IsChain, Clusters
  <1>2. \A i \in 1 .. Len(ch) : ch[i] \in Clusters
    BY <1>1, ElementOfSeq
  <1>3. \A i, j \in 1 .. Len(ch) : ch[i] = ch[j] => i = j
    BY DEF IsChain
  <1>4. \A i \in 1 .. Len(ch) : FAT[ch[i]] = IF i < Len(ch) THEN ch[i + 1] ELSE EOC
    BY DEF IsChain
  <1> QED
    BY <1>2, <1>3, <1>4

LEMMA ChainLinks ==
    /\ \A i \in 1 .. Len(Chain) : Chain[i] \in Clusters
    /\ \A i \in 1 .. Len(Chain) : FAT[Chain[i]] = IF i < Len(Chain) THEN Chain[i + 1] ELSE EOC
    /\ \A i \in 1 .. Len(DirChain) : DirChain[i] \in Clusters
    /\ \A i \in 1 .. Len(DirChain) : FAT[DirChain[i]] = IF i < Len(DirChain) THEN DirChain[i + 1] ELSE EOC
    /\ \A i, j \in 1 .. Len(DirChain) : DirChain[i] = DirChain[j] => i = j
    /\ EOC \notin Clusters /\ EOC # 0 /\ 0 \notin Clusters
    /\ \A c \in Clusters : FAT[c] \in Nat /\ c \in Nat /\ c >= 2
  <1>1. IsChain(Chain) /\ IsChain(DirChain) /\ FAT \in [Clusters -> Nat] /\ CLUSTERS \in Nat
    BY FatAssumption DEF Clusters
  <1>2. EOC \notin Clusters /\ EOC # 0 /\ 0 \notin Clusters
    BY <1>1 DEF EOC, Clusters
  <1>3. \A c \in Clusters : FAT[c] \in Nat /\ c \in Nat /\ c >= 2
    BY <1>1 DEF Clusters
  <1>4. /\ \A i \in 1 .. Len(Chain) : Chain[i] \in Clusters
        /\ \A i \in 1 .. Len(Chain) : FAT[Chain[i]] = IF i < Len(Chain) THEN Chain[i + 1] ELSE EOC
    BY <1>1, ChainOf
  <1>5. /\ \A i \in 1 .. Len(DirChain) : DirChain[i] \in Clusters
        /\ \A i \in 1 .. Len(DirChain) : FAT[DirChain[i]] = IF i < Len(DirChain) THEN DirChain[i + 1] ELSE EOC
        /\ \A i, j \in 1 .. Len(DirChain) : DirChain[i] = DirChain[j] => i = j
    BY <1>1, ChainOf
  <1> QED
    BY <1>2, <1>3, <1>4, <1>5

(* ---- positions in a file ---- *)
\* Within a cluster the cluster stays and the offset counts.
LEMMA WithinCluster ==
    ASSUME NEW pos \in Nat, NEW i \in Nat, (pos % CB) + i < CB
    PROVE  (pos + i) \div CB = pos \div CB /\ (pos + i) % CB = (pos % CB) + i
  <1> DEFINE m == CB
             q == pos \div m
             r == pos % m
  <1>1. m \in Int /\ m > 0
    BY ClusterSize
  <1> HIDE DEF m
  <1>2. q \in Int /\ r \in Int /\ 0 <= r /\ r < m /\ pos = m * q + r
    BY <1>1, DivMod, DivModType
  <1>3. m * q \in Int
    BY <1>1, <1>2
  <1>4. r + i \in 0 .. m - 1
    BY <1>1, <1>2 DEF m
  <1> HIDE DEF q, r
  <1>5. pos + i = m * q + (r + i)
    BY <1>2, <1>3
  <1>6. (m * q + (r + i)) \div m = q /\ (m * q + (r + i)) % m = r + i
    BY <1>1, <1>2, <1>4, DivOf, ModOf
  <1> QED
    BY <1>5, <1>6 DEF m, q, r

\* A position in the file has its cluster in the chain.
LEMMA InChain ==
    ASSUME NEW pos \in Nat, pos < Size
    PROVE  pos \div CB \in Nat /\ 1 + (pos \div CB) \in 1 .. Len(Chain)
  <1> DEFINE m == CB
             q == pos \div m
             n == Len(Chain)
  <1>1. m \in Int /\ m > 0 /\ n \in Nat /\ pos < n * m /\ n * m \in Int
    <2>1. CB \in Nat /\ CB > 0 /\ Len(Chain) \in Nat /\ Size \in Nat /\ Size <= Len(Chain) * CB
      BY ClusterSize, FatNumbers
    <2>2. Len(Chain) * CB \in Nat
      BY <2>1
    <2> QED
      BY <2>1, <2>2
  <1> HIDE DEF m, n
  <1>2. q \in Int /\ pos % m \in Int /\ 0 <= pos % m /\ pos % m < m /\ pos = m * q + (pos % m)
    BY <1>1, DivMod, DivModType
  <1> HIDE DEF q
  <1>3. q < n
    <2>1. SUFFICES ASSUME q >= n PROVE FALSE
      BY <1>1, <1>2
    <2>2. m * q >= m * n
      BY <1>1, <1>2, <2>1
    <2>3. m * q \in Int /\ m * n \in Int /\ m * n = n * m
      BY <1>1, <1>2
    <2> QED
      BY <1>1, <1>2, <2>2, <2>3
  <1>4. q >= 0
    <2>1. SUFFICES ASSUME q <= -1 PROVE FALSE
      BY <1>2
    <2>2. m * q <= m * (-1)
      BY <1>1, <1>2, <2>1
    <2>3. m * q \in Int /\ m * (-1) = -m
      BY <1>1, <1>2
    <2> QED
      BY <1>1, <1>2, <2>2, <2>3
  <1> QED
    BY <1>1, <1>2, <1>3, <1>4 DEF q, m, n

\* The hops to a position: the clusters that end before it.
LEMMA HopsOf ==
    ASSUME NEW pos \in Nat, pos <= Size
    PROVE  /\ Hops(pos) \in Nat /\ 1 + Hops(pos) \in 1 .. Len(Chain)
           /\ pos > 0 => Hops(pos) = (pos - 1) \div CB
           /\ pos = 0 => Hops(pos) = 0
  <1>1. CASE pos = 0
    BY <1>1, FatNumbers DEF Hops
  <1>2. CASE pos > 0
    <2>1. pos - 1 \in Nat /\ pos - 1 < Size /\ Hops(pos) = (pos - 1) \div CB
      BY <1>2, FatNumbers DEF Hops
    <2>2. (pos - 1) \div CB \in Nat /\ 1 + ((pos - 1) \div CB) \in 1 .. Len(Chain)
      BY <2>1, InChain
    <2> QED
      BY <1>2, <2>1, <2>2
  <1> QED
    BY <1>1, <1>2

LEMMA HopsWithin ==
    ASSUME NEW pos \in Nat, pos < Size, pos % CB # 0 \/ pos = 0
    PROVE  Hops(pos) = pos \div CB
  <1>1. CASE pos = 0
    <2>1. CB \in Nat /\ CB > 0
      BY ClusterSize
    <2>2. 0 \div CB = 0
      BY <2>1
    <2> QED
      BY <1>1, <2>2 DEF Hops
  <1>2. CASE pos > 0
    <2> DEFINE x == pos - 1
    <2>0. x \in Nat /\ x + 1 = pos /\ CB \in Nat /\ CB > 0
      BY <1>2, ClusterSize
    <2>1. x % CB \in Int /\ 0 <= x % CB /\ x % CB < CB /\ x \div CB \in Int /\ x = CB * (x \div CB) + (x % CB)
      BY <2>0, DivMod, DivModType
    <2> HIDE DEF x
    <2>2. CASE (x % CB) + 1 < CB
      <3>1. (x + 1) \div CB = x \div CB
        BY <2>0, <2>2, WithinCluster
      <3> QED
        BY <1>2, <2>0, <3>1 DEF Hops, x
    <2>3. CASE (x % CB) + 1 = CB
      <3> DEFINE q == x \div CB
      <3>1. q \in Int /\ pos = CB * q + CB /\ CB * q \in Int
        BY <2>0, <2>1, <2>3
      <3> HIDE DEF q
      <3>2. pos = CB * (q + 1)
        BY <2>0, <3>1
      <3>3. pos % CB = 0
        BY <2>0, <3>1, <3>2, ModOfMultiple
      <3> QED
        BY <1>2, <3>3
    <2> QED
      BY <2>0, <2>1, <2>2, <2>3
  <1> QED
    BY <1>1, <1>2

LEMMA HopsAtEnd ==
    ASSUME NEW pos \in Nat, pos < Size, pos # 0, pos % CB = 0
    PROVE  Hops(pos) + 1 = pos \div CB
  <1> DEFINE q == pos \div CB
  <1>0. CB \in Nat /\ CB > 0 /\ q \in Int /\ pos = CB * q + 0 /\ CB * q \in Int
    BY ClusterSize, DivMod, DivModType
  <1> HIDE DEF q
  <1>1. pos - 1 = CB * (q - 1) + (CB - 1) /\ CB - 1 \in 0 .. CB - 1 /\ q - 1 \in Int
    BY <1>0
  <1>2. (CB * (q - 1) + (CB - 1)) \div CB = q - 1
    BY <1>0, <1>1, DivOf
  <1>3. Hops(pos) = q - 1
    BY <1>1, <1>2 DEF Hops
  <1> QED
    BY <1>0, <1>3 DEF q

\* What one turn of the loop copies ends in the cluster it began in.
LEMMA TurnEnds ==
    ASSUME NEW pos \in Nat, pos < Size, NEW k \in Nat, k > 0, (pos % CB) + k <= CB, pos + k <= Size
    PROVE  Hops(pos + k) = pos \div CB
  <1>0. pos + k > 0 /\ (pos + k) - 1 = pos + (k - 1) /\ k - 1 \in Nat /\ pos % CB \in Int /\ CB \in Nat
    BY ClusterSize, DivModType
  <1>1. (pos % CB) + (k - 1) < CB
    BY <1>0
  <1>2. (pos + (k - 1)) \div CB = pos \div CB
    BY <1>0, <1>1, WithinCluster
  <1> QED
    BY <1>0, <1>2 DEF Hops

\* The rest of the sector a position is in ends within the cluster.
LEMMA SectorEnds ==
    ASSUME NEW in \in Nat, in < CB
    PROVE  in % SEC \in Nat /\ in % SEC < SEC /\ in + (SEC - (in % SEC)) <= CB
  <1> DEFINE m == SEC
             q == in \div m
             r == in % m
             n == SPC
  <1>1. m \in Int /\ m > 0 /\ n \in Int /\ CB = m * n /\ m * n \in Int
    BY FatNumbers DEF CB
  <1> HIDE DEF m, n
  <1>2. q \in Int /\ r \in Int /\ 0 <= r /\ r < m /\ in = m * q + r /\ m * q \in Int
    BY <1>1, DivMod, DivModType
  <1> HIDE DEF q, r
  <1>3. q < n
    <2>1. SUFFICES ASSUME q >= n PROVE FALSE
      BY <1>1, <1>2
    <2>2. m * q >= m * n
      BY <1>1, <1>2, <2>1
    <2> QED
      BY <1>1, <1>2, <2>2
  <1>4. m * (q + 1) <= m * n
    BY <1>1, <1>2, <1>3
  <1>5. m * (q + 1) = m * q + m
    BY <1>1, <1>2
  <1>6. in + (m - r) <= m * n /\ r \in Nat /\ r < m
    BY <1>1, <1>2, <1>4, <1>5
  <1> QED
    BY <1>1, <1>6 DEF m, r

\* The whole sectors of x bytes.
LEMMA WholeSectors ==
    ASSUME NEW x \in Nat, x >= SEC
    PROVE  x \div SEC \in Nat /\ x \div SEC >= 1 /\ (x \div SEC) * SEC <= x
  <1> DEFINE m == SEC
             q == x \div m
             r == x % m
  <1>1. m \in Int /\ m > 0 /\ x >= m
    BY FatNumbers
  <1> HIDE DEF m
  <1>2. q \in Int /\ r \in Int /\ 0 <= r /\ r < m /\ x = m * q + r /\ m * q \in Int
    BY <1>1, DivMod, DivModType
  <1> HIDE DEF q, r
  <1>3. q >= 1
    <2>1. SUFFICES ASSUME q <= 0 PROVE FALSE
      BY <1>2
    <2>2. m * q <= 0
      BY <1>1, <1>2, <2>1
    <2> QED
      BY <1>1, <1>2, <2>2
  <1>4. q * m = m * q
    BY <1>1, <1>2
  <1> QED
    BY <1>2, <1>3, <1>4 DEF m, q

LEMMA FewerSectors ==
    ASSUME NEW x \in Nat, x >= SEC, NEW y \in Nat, y >= SEC, NEW run,
           run = IF x \div SEC > y \div SEC THEN y \div SEC ELSE x \div SEC
    PROVE  run * SEC \in Nat /\ run * SEC > 0 /\ run * SEC <= x /\ run * SEC <= y
  <1> DEFINE a == x \div SEC
             b == y \div SEC
  <1>1. a \in Nat /\ a >= 1 /\ a * SEC <= x /\ b \in Nat /\ b >= 1 /\ b * SEC <= y
    BY WholeSectors
  <1>2. run = IF a > b THEN b ELSE a
    OBVIOUS
  <1>3. SEC \in Nat /\ SEC > 0
    BY FatNumbers
  <1> HIDE DEF a, b
  <1>4. run \in Nat /\ run >= 1 /\ run <= a /\ run <= b
    BY <1>1, <1>2
  <1>5. run * SEC <= a * SEC /\ run * SEC <= b * SEC /\ run * SEC >= SEC
    BY <1>1, <1>3, <1>4
  <1>6. run * SEC \in Nat /\ a * SEC \in Nat /\ b * SEC \in Nat
    BY <1>1, <1>3, <1>4
  <1> QED
    BY <1>1, <1>3, <1>5, <1>6

\* The bytes of a turn are those the file has there.
LEMMA TurnBytes ==
    ASSUME NEW pos \in Nat, pos < Size, NEW k \in Nat, (pos % CB) + k <= CB,
           NEW c, c = Chain[1 + (pos \div CB)]
    PROVE  ~ \E i \in 0 .. k - 1 : Wanted(pos + i) # <<c, (pos % CB) + i>>
  <1>1. SUFFICES ASSUME NEW i \in 0 .. k - 1 PROVE Wanted(pos + i) = <<c, (pos % CB) + i>>
    OBVIOUS
  <1>2. i \in Nat /\ (pos % CB) + i < CB
    BY ClusterSize, DivModType
  <1>3. (pos + i) \div CB = pos \div CB /\ (pos + i) % CB = (pos % CB) + i
    BY <1>2, WithinCluster
  <1>4. (pos \div CB) + 1 = 1 + (pos \div CB)
    BY InChain
  <1> QED
    BY <1>3, <1>4 DEF Wanted

(* ---- the directory ---- *)
LEMMA DirTyped ==
    ASSUME NEW i \in 1 .. Len(Dir)
    PROVE  Dir[i].kind \in Kinds /\ Dir[i].ord \in Nat /\ Dir[i].sum \in Nat
  <1>1. Dir \in Seq([kind : Kinds, ord : Nat, sum : Nat])
    BY FatAssumption
  <1>2. Dir[i] \in [kind : Kinds, ord : Nat, sum : Nat]
    BY <1>1, ElementOfSeq
  <1> QED
    BY <1>2

LEMMA RunStep ==
    ASSUME NEW p \in 0 .. Len(Dir) - 1, NEW x \in Nat
    PROVE  Run(p + 1, x) <=> /\ Belongs(p + 1, x)
                             /\ \/ Dir[p + 1].kind = "last"
                                \/ Dir[p + 1].kind = "lfn" /\ Run(p, x)
  <1>0. p \in Nat /\ p + 1 \in 1 .. p + 1
    BY FatNumbers
  <1>1. ASSUME Run(p + 1, x)
        PROVE  Belongs(p + 1, x) /\ (Dir[p + 1].kind = "last" \/ (Dir[p + 1].kind = "lfn" /\ Run(p, x)))
    <2>1. PICK j \in 1 .. p + 1 : /\ Dir[j].kind = "last" /\ Belongs(j, x)
                                  /\ \A m \in j + 1 .. p + 1 : Dir[m].kind = "lfn" /\ Belongs(m, x)
      BY <1>1 DEF Run
    <2>2. CASE j = p + 1
      BY <2>1, <2>2
    <2>3. CASE j # p + 1
      <3>1. j \in 1 .. p /\ p + 1 \in j + 1 .. p + 1 /\ \A m \in j + 1 .. p : m \in j + 1 .. p + 1
        BY <1>0, <2>3
      <3>2. Dir[p + 1].kind = "lfn" /\ Belongs(p + 1, x)
        BY <2>1, <3>1
      <3>3. Run(p, x)
        BY <2>1, <3>1 DEF Run
      <3> QED
        BY <3>2, <3>3
    <2> QED
      BY <2>2, <2>3
  <1>2. ASSUME Belongs(p + 1, x), Dir[p + 1].kind = "last"
        PROVE  Run(p + 1, x)
    <2>1. \A m \in (p + 1) + 1 .. p + 1 : FALSE
      BY <1>0
    <2> QED
      BY <1>0, <1>2, <2>1 DEF Run
  <1>3. ASSUME Belongs(p + 1, x), Dir[p + 1].kind = "lfn", Run(p, x)
        PROVE  Run(p + 1, x)
    <2>1. PICK j \in 1 .. p : /\ Dir[j].kind = "last" /\ Belongs(j, x)
                              /\ \A m \in j + 1 .. p : Dir[m].kind = "lfn" /\ Belongs(m, x)
      BY <1>3 DEF Run
    <2>2. j \in 1 .. p + 1 /\ \A m \in j + 1 .. p + 1 : m \in j + 1 .. p \/ m = p + 1
      BY <1>0
    <2>3. \A m \in j + 1 .. p + 1 : Dir[m].kind = "lfn" /\ Belongs(m, x)
      BY <1>3, <2>1, <2>2
    <2> QED
      BY <2>1, <2>2, <2>3 DEF Run
  <1> QED
    BY <1>1, <1>2, <1>3

LEMMA LongNames ==
    ASSUME NEW p \in 0 .. Len(Dir) - 1
    PROVE  HasLongName(p + 1) <=> Run(p, Dir[p + 1].sum)
  <1>1. (p + 1) - 1 = p
    BY FatNumbers
  <1> QED
    BY <1>1 DEF HasLongName, Run

\* The files up to one more entry.
LEMMA UpStep ==
    ASSUME NEW p \in 0 .. Len(Dir) - 1, \A j \in 1 .. p : Dir[j].kind # "end"
    PROVE  /\ Dir[p + 1].kind # "short" => Up(p + 1) = Up(p)
           /\ Dir[p + 1].kind = "short" => Up(p + 1) = Up(p) \cup {p + 1}
           /\ Dir[p + 1].kind = "end" => Up(p) = Listed
           /\ Up(p) \subseteq 1 .. p
  <1>0. p \in Nat /\ p + 1 \in 1 .. Len(Dir) /\ Len(Dir) \in Nat
    BY FatNumbers
  <1>1. \A i \in Listed : i \in Nat /\ i >= 1 /\ Dir[i].kind = "short" /\ \A j \in 1 .. i : Dir[j].kind # "end"
    BY <1>0 DEF Listed
  <1>2. Up(p) \subseteq 1 .. p
    BY <1>0, <1>1 DEF Up
  <1>3. \A i \in Listed : (i <= p + 1) <=> (i <= p \/ i = p + 1)
    BY <1>0, <1>1
  <1>4. ASSUME Dir[p + 1].kind # "short" PROVE Up(p + 1) = Up(p)
    BY <1>1, <1>3, <1>4 DEF Up
  <1>5. ASSUME Dir[p + 1].kind = "short" PROVE Up(p + 1) = Up(p) \cup {p + 1}
    <2>1. \A j \in 1 .. p + 1 : j \in 1 .. p \/ j = p + 1
      BY <1>0
    <2>2. p + 1 \in Listed
      BY <1>0, <1>5, <2>1 DEF Listed
    <2>3. p + 1 <= p + 1
      BY <1>0
    <2> QED
      BY <1>3, <2>2, <2>3 DEF Up
  <1>6. ASSUME Dir[p + 1].kind = "end" PROVE Up(p) = Listed
    <2>1. SUFFICES ASSUME NEW i \in Listed, ~(i <= p) PROVE FALSE
      BY DEF Up
    <2>2. p + 1 \in 1 .. i
      BY <1>0, <1>1, <2>1
    <2> QED
      BY <1>1, <1>6, <2>2
  <1> QED
    BY <1>2, <1>4, <1>5, <1>6

LEMMA BelowNext ==
    ASSUME NEW p \in Nat, NEW F, F \subseteq 1 .. p
    PROVE  \A x \in F : x \in Nat /\ x < p + 1
  OBVIOUS

LEMMA ListsMore ==
    ASSUME NEW p \in Nat, NEW F, F \subseteq 1 .. p, NEW names \in Names,
           Lists(names, F), NEW v \in Nat \X {"long", "short"}, v = NameOf(p + 1)
    PROVE  Lists(Append(names, v), F \cup {p + 1})
  <1> DEFINE n == Len(names)
             more == Append(names, v)
             G == F \cup {p + 1}
  <1>1. n \in Nat /\ Len(more) = n + 1 /\ more[n + 1] = v /\ \A i \in 1 .. n : more[i] = names[i]
    BY AppendProperties, LenProperties
  <1>2. PICK at \in [1 .. n -> F] :
        /\ \A i, j \in 1 .. n : i < j => at[i] < at[j]
        /\ \A x \in F : \E i \in 1 .. n : at[i] = x
        /\ \A i \in 1 .. n : names[i] = NameOf(at[i])
    BY DEF Lists
  <1> HIDE DEF n, more
  <1> DEFINE b == [i \in 1 .. n + 1 |-> IF i = n + 1 THEN p + 1 ELSE at[i]]
  <1>3. \A i \in 1 .. n + 1 : i \in 1 .. n \/ i = n + 1
    BY <1>1
  <1>4. \A i \in 1 .. n : i \in 1 .. n + 1 /\ i # n + 1 /\ i < n + 1 /\ i \in Nat
    BY <1>1
  <1>5. n + 1 \in 1 .. n + 1 /\ n + 1 \in Nat
    BY <1>1
  <1>6. b[n + 1] = p + 1 /\ \A i \in 1 .. n : b[i] = at[i]
    BY <1>4, <1>5
  <1>7. b \in [1 .. n + 1 -> G]
    BY <1>3
  <1> HIDE DEF b
  <1>8. \A i \in 1 .. n : at[i] \in Nat /\ at[i] < p + 1
    <2>1. \A i \in 1 .. n : at[i] \in F
      BY <1>2
    <2>2. \A x \in F : x \in Nat /\ x < p + 1
      BY BelowNext
    <2> QED
      BY <2>1, <2>2
  <1>9. ASSUME NEW i \in 1 .. n + 1, NEW j \in 1 .. n + 1, i < j PROVE b[i] < b[j]
    <2>1. i \in 1 .. n
      BY <1>1, <1>9
    <2>2. CASE j = n + 1
      BY <2>1, <2>2, <1>6, <1>8
    <2>3. CASE j \in 1 .. n
      BY <2>1, <2>3, <1>6, <1>2, <1>9
    <2> QED
      BY <1>3, <2>2, <2>3
  <1>10. ASSUME NEW x \in G PROVE \E i \in 1 .. n + 1 : b[i] = x
    <2>1. CASE x = p + 1
      BY <2>1, <1>5, <1>6
    <2>2. CASE x \in F
      BY <2>2, <1>2, <1>4, <1>6
    <2> QED
      BY <2>1, <2>2
  <1>11. ASSUME NEW i \in 1 .. n + 1 PROVE more[i] = NameOf(b[i])
    <2>1. CASE i = n + 1
      BY <2>1, <1>1, <1>6
    <2>2. CASE i \in 1 .. n
      BY <2>2, <1>1, <1>2, <1>6
    <2> QED
      BY <1>3, <2>1, <2>2
  <1>12. Len(more) = n + 1
    BY <1>1
  <1> HIDE DEF G
  <1>13. Lists(more, G)
    <2>1. \A i, j \in 1 .. Len(more) : i < j => b[i] < b[j]
      BY <1>9, <1>12
    <2>2. \A x \in G : \E i \in 1 .. Len(more) : b[i] = x
      BY <1>10, <1>12
    <2>3. \A i \in 1 .. Len(more) : more[i] = NameOf(b[i])
      BY <1>11, <1>12
    <2>4. b \in [1 .. Len(more) -> G]
      BY <1>7, <1>12
    <2> QED
      BY <2>1, <2>2, <2>3, <2>4, Zenon DEF Lists
  <1> QED
    BY <1>13 DEF more, G

Spelt(e, lfn) == IF e.kind \in {"last", "lfn"} THEN Fragment(e, lfn) ELSE <<>>
Named(e, lfn, names) == IF e.kind = "short"
                        THEN Append(names, <<e.sum, IF lfn = <<e.sum>> THEN "long" ELSE "short">>) ELSE names

\* One entry is taken as the directory means it.
LEMMA EntryStep ==
    ASSUME NEW names \in Names, NEW lfn, NEW p \in Nat, p < Len(Dir),
           AtEntry(names, lfn, p), NEW e, e = Dir[p + 1]
    PROVE  /\ e.kind = "end" => Lists(Named(e, lfn, names), Listed)
           /\ e.kind # "end" => AtEntry(Named(e, lfn, names), Spelt(e, lfn), p + 1)
           /\ Lists(Named(e, lfn, names), Up(p + 1))
           /\ Named(e, lfn, names) \in Names /\ Spelt(e, lfn) \in Seq(Nat)
  <1>0. p \in 0 .. Len(Dir) - 1 /\ p + 1 \in 1 .. Len(Dir) /\ p + 1 \in 0 .. Len(Dir) /\ Len(Dir) \in Nat
    BY FatNumbers
  <1>1. e.kind \in Kinds /\ e.ord \in Nat /\ e.sum \in Nat
    BY <1>0, DirTyped
  <1>2. /\ \A j \in 1 .. p : Dir[j].kind # "end"
        /\ Lists(names, Up(p))
        /\ lfn = <<>> \/ \E x \in Nat : lfn = <<x>>
        /\ \A x \in Nat : lfn = <<x>> <=> Run(p, x)
    BY DEF AtEntry
  <1>3. /\ e.kind # "short" => Up(p + 1) = Up(p)
        /\ e.kind = "short" => Up(p + 1) = Up(p) \cup {p + 1}
        /\ e.kind = "end" => Up(p) = Listed
        /\ Up(p) \subseteq 1 .. p
    BY <1>0, <1>2, UpStep
  <1>4. e.kind # "end" => \A j \in 1 .. p + 1 : Dir[j].kind # "end"
    <2>1. \A j \in 1 .. p + 1 : j \in 1 .. p \/ j = p + 1
      BY <1>0
    <2> QED
      BY <1>2, <2>1
  <1>5. /\ Lists(Named(e, lfn, names), Up(p + 1))
        /\ Named(e, lfn, names) \in Names
    <2>1. CASE e.kind # "short"
      BY <2>1, <1>2, <1>3 DEF Named
    <2>2. CASE e.kind = "short"
      <3> DEFINE v == <<e.sum, IF lfn = <<e.sum>> THEN "long" ELSE "short">>
      <3>1. v \in Nat \X {"long", "short"}
        BY <1>1
      <3>2. HasLongName(p + 1) <=> lfn = <<e.sum>>
        BY <1>0, <1>1, <1>2, LongNames
      <3>3. v = NameOf(p + 1)
        BY <3>2 DEF NameOf
      <3> HIDE DEF v
      <3>4. Lists(Append(names, v), Up(p) \cup {p + 1})
        BY <3>1, <3>3, <1>2, <1>3, ListsMore
      <3>5. Append(names, v) \in Names
        BY <3>1, AppendProperties DEF Names
      <3> QED
        BY <3>4, <3>5, <2>2, <1>3 DEF Named, v
    <2> QED
      BY <2>1, <2>2
  <1>6. e.kind = "end" => Lists(Named(e, lfn, names), Listed)
    BY <1>2, <1>3 DEF Named
  <1>7. \A x \in Nat : Run(p + 1, x) <=> /\ e.ord # 0 /\ e.sum = x
                                         /\ e.kind = "last" \/ (e.kind = "lfn" /\ lfn = <<x>>)
    <2>1. SUFFICES ASSUME NEW x \in Nat
                   PROVE  Run(p + 1, x) <=> /\ e.ord # 0 /\ e.sum = x
                                            /\ e.kind = "last" \/ (e.kind = "lfn" /\ lfn = <<x>>)
      OBVIOUS
    <2>2. Run(p + 1, x) <=> /\ Belongs(p + 1, x)
                            /\ \/ Dir[p + 1].kind = "last"
                               \/ Dir[p + 1].kind = "lfn" /\ Run(p, x)
      BY <1>0, RunStep
    <2> QED
      BY <2>2, <1>2 DEF Belongs
  <1>8. /\ Spelt(e, lfn) = <<>> \/ \E x \in Nat : Spelt(e, lfn) = <<x>>
        /\ \A x \in Nat : Spelt(e, lfn) = <<x>> <=> Run(p + 1, x)
    <2>1. CASE e.kind \notin {"last", "lfn"} \/ e.ord = 0
      <3>1. Spelt(e, lfn) = <<>>
        BY <2>1 DEF Spelt, Fragment
      <3>2. \A x \in Nat : ~ Run(p + 1, x)
        BY <2>1, <1>7
      <3> QED
        BY <3>1, <3>2
    <2>2. CASE e.kind = "last" /\ e.ord # 0
      <3>1. Spelt(e, lfn) = <<e.sum>>
        BY <2>2 DEF Spelt, Fragment
      <3>2. \A x \in Nat : Run(p + 1, x) <=> e.sum = x
        BY <2>2, <1>7
      <3> QED
        BY <3>1, <3>2, <1>1
    <2>3. CASE e.kind = "lfn" /\ e.ord # 0
      <3>1. Spelt(e, lfn) = IF lfn = <<e.sum>> THEN lfn ELSE <<>>
        BY <2>3 DEF Spelt, Fragment
      <3>2. \A x \in Nat : Run(p + 1, x) <=> (e.sum = x /\ lfn = <<x>>)
        BY <2>3, <1>7
      <3>3. CASE lfn = <<e.sum>>
        <4>1. Spelt(e, lfn) = <<e.sum>> /\ \A x \in Nat : lfn = <<x>> <=> e.sum = x
          BY <3>1, <3>3
        <4> QED
          BY <4>1, <3>2, <1>1
      <3>4. CASE lfn # <<e.sum>>
        <4>1. Spelt(e, lfn) = <<>> /\ \A x \in Nat : ~(e.sum = x /\ lfn = <<x>>)
          BY <3>1, <3>4
        <4> QED
          BY <4>1, <3>2
      <3> QED
        BY <3>3, <3>4
    <2> QED
      BY <2>1, <2>2, <2>3
  <1>9. Spelt(e, lfn) \in Seq(Nat)
    <2>1. <<>> \in Seq(Nat) /\ \A x \in Nat : <<x>> \in Seq(Nat)
      OBVIOUS
    <2> QED
      BY <2>1, <1>8
  <1>10. e.kind # "end" => AtEntry(Named(e, lfn, names), Spelt(e, lfn), p + 1)
    BY <1>0, <1>4, <1>5, <1>8 DEF AtEntry
  <1> QED
    BY <1>5, <1>6, <1>9, <1>10

\* Where the entries of a sector are in the directory.
LEMMA PlaceIn ==
    ASSUME NEW i \in 1 .. Len(DirChain), NEW s \in 0 .. SPC - 1, NEW k \in 0 .. ENTS - 1
    PROVE  /\ Place(i, s, k) \in Nat /\ Place(i, s, k) < Len(Dir)
           /\ Place(i, s, k + 1) = Place(i, s, k) + 1
           /\ k + 1 = ENTS => Place(i, s + 1, 0) = Place(i, s, k) + 1
  <1> DEFINE E == ENTS
             S == SPC
             n == Len(DirChain)
             w == S * E
             a == (i - 1) * w
             b == s * E
  <1>1. E \in Int /\ E > 0 /\ S \in Int /\ S > 0 /\ n \in Int /\ Len(Dir) = n * w /\ i \in Int /\ s \in Int
        /\ k \in Int /\ 0 <= k /\ k + 1 <= E /\ 0 <= s /\ s + 1 <= S /\ 1 <= i /\ i <= n
    BY FatNumbers
  <1>2. Place(i, s, k) = a + b + k /\ Place(i, s, k + 1) = a + b + (k + 1) /\ Place(i, s + 1, 0) = a + (s + 1) * E + 0
    BY DEF Place
  <1> HIDE DEF E, S, n
  <1>3. w \in Int /\ w > 0 /\ (s + 1) * E <= w /\ (s + 1) * E = b + E /\ b \in Int /\ b >= 0
    BY <1>1
  <1> HIDE DEF b, w
  <1>4. a \in Int /\ a >= 0 /\ a + w = i * w /\ i * w <= n * w /\ n * w \in Int
    BY <1>1, <1>3
  <1> HIDE DEF a
  <1>5. a + b + k \in Nat /\ a + b + k < n * w /\ a + b + (k + 1) = (a + b + k) + 1
    BY <1>1, <1>3, <1>4
  <1>6. k + 1 = E => a + (s + 1) * E + 0 = (a + b + k) + 1
    BY <1>1, <1>3, <1>4
  <1> QED
    BY <1>1, <1>2, <1>5, <1>6 DEF E

LEMMA PlaceOver ==
    ASSUME NEW i \in 1 .. Len(DirChain)
    PROVE  Place(i + 1, 0, 0) = Place(i, SPC, 0) /\ (i = Len(DirChain) => Place(i, SPC, 0) = Len(Dir))
  <1> DEFINE w == SPC * ENTS
  <1>1. w \in Int /\ Len(Dir) = Len(DirChain) * w /\ i \in Int /\ 0 * ENTS = 0
    BY FatNumbers
  <1>2. Place(i + 1, 0, 0) = ((i + 1) - 1) * w + 0 * ENTS + 0 /\ Place(i, SPC, 0) = (i - 1) * w + w + 0
    BY DEF Place
  <1> HIDE DEF w
  <1>3. ((i + 1) - 1) * w = i * w /\ (i - 1) * w + w + 0 = i * w /\ i * w \in Int
    BY <1>1
  <1> QED
    BY <1>1, <1>2, <1>3

LEMMA EntryHeld ==
    ASSUME NEW i \in 1 .. Len(DirChain), NEW s \in 0 .. SPC - 1, NEW k \in 0 .. ENTS - 1
    PROVE  EntryIn(clus_lba(DirChain[i], s), k) = Dir[Place(i, s, k) + 1]
  <1> DEFINE h == clus_lba(DirChain[i], s)
  <1>1. h[1] = DirChain[i] /\ h[2] = s
    BY DEF clus_lba
  <1>2. \A j \in 1 .. Len(DirChain) : DirChain[j] = DirChain[i] => j = i
    BY ChainLinks
  <1>3. ClusterAt(DirChain[i]) = i
    BY <1>2 DEF ClusterAt
  <1>4. EntryAt(DirChain[i], s, k) = Place(i, s, k) + 1
    BY <1>3 DEF EntryAt, Place
  <1> HIDE DEF h
  <1>5. EntryIn(h, k) = Dir[EntryAt(h[1], h[2], k)]
    BY <1>1 DEF EntryIn
  <1> QED
    BY <1>1, <1>4, <1>5 DEF h

(* ---- the caches ---- *)
LEMMA LinkRead ==
    ASSUME CachesOK, NEW c \in Clusters, NEW ok \in BOOLEAN
    PROVE  NextLink(c, ok) = FAT[c] \/ NextLink(c, ok) = 0
  <1>1. fat_lba(c) # NOLBA
    BY DEF fat_lba, NOLBA
  <1> QED
    BY <1>1 DEF NextLink, CachesOK, SecOK

LEMMA LinkCached ==
    ASSUME SecOK(g_fatsec_lba, f_fatsec), NEW c, NEW ok \in BOOLEAN, fat_next(c, ok)
    PROVE  SecOK(g_fatsec_lba', f_fatsec')
  BY DEF SecOK, fat_next

LEMMA SectorCached ==
    ASSUME SecOK(g_sec_lba, f_sec), NEW c \in Clusters, NEW s, NEW ok \in BOOLEAN, load_sec(clus_lba(c, s), ok)
    PROVE  SecOK(g_sec_lba', f_sec') /\ (LoadOk(clus_lba(c, s), ok) => f_sec' = clus_lba(c, s))
  <1>1. c # 0
    BY ChainLinks
  <1>2. clus_lba(c, s) # NOLBA
    BY <1>1 DEF clus_lba, NOLBA
  <1> QED
    BY <1>2 DEF SecOK, load_sec, LoadOk

(* ---- files ---- *)
SetTo(g2, g, h, v) == g2 = [g EXCEPT ![h] = v]
MovedTo(v, f, c, pos) == v = [f EXCEPT !.cluster = c, !.pos = pos]
LEMMA FileSet ==
    ASSUME NEW file, NEW failed, NEW wrong, FilesTyped(file, failed, wrong),
           NEW h \in Handles, NEW v \in FileStates, NEW a \in BOOLEAN, NEW b \in BOOLEAN, FileOK(v, a, b),
           NEW file2, NEW failed2, NEW wrong2, SetTo(file2, file, h, v),
           SetTo(failed2, failed, h, a), SetTo(wrong2, wrong, h, b)
    PROVE  /\ FilesTyped(file2, failed2, wrong2)
           /\ file2[h] = v /\ failed2[h] = a
  <1>0. /\ file \in [Handles -> FileStates] /\ failed \in [Handles -> BOOLEAN] /\ wrong \in [Handles -> BOOLEAN]
        /\ \A x \in Handles : FileOK(file[x], failed[x], wrong[x])
    BY DEF FilesTyped
  <1>1. file2 \in [Handles -> FileStates] /\ failed2 \in [Handles -> BOOLEAN] /\ wrong2 \in [Handles -> BOOLEAN]
    BY <1>0 DEF SetTo
  <1>2. file2[h] = v /\ failed2[h] = a /\ wrong2[h] = b
    BY <1>0 DEF SetTo
  <1>3. \A x \in Handles : x # h => file2[x] = file[x] /\ failed2[x] = failed[x] /\ wrong2[x] = wrong[x]
    BY <1>0 DEF SetTo
  <1>4. \A x \in Handles : FileOK(file2[x], failed2[x], wrong2[x])
    <2>1. SUFFICES ASSUME NEW x \in Handles PROVE FileOK(file2[x], failed2[x], wrong2[x])
      OBVIOUS
    <2>2. CASE x = h
      BY <2>2, <1>2
    <2>3. CASE x # h
      BY <2>3, <1>0, <1>3
    <2> QED
      BY <2>2, <2>3
  <1> QED
    BY <1>1, <1>2, <1>4 DEF FilesTyped

LEMMA SameFlag ==
    ASSUME NEW f \in [Handles -> BOOLEAN], NEW h \in Handles
    PROVE  SetTo(f, f, h, f[h])
  BY DEF SetTo

LEMMA NobodyIn ==
    ASSUME NEW file, NEW failed
    PROVE  ReadOK(<<>>, file) /\ WalkOK(<<>>, file, failed)
  BY DEF ReadOK, WalkOK

LEMMA OpenKept ==
    ASSUME FilesOK, NEW h \in Handles, open_impl(h)
    PROVE  FilesOK'
  <1> DEFINE v == [open |-> TRUE, cluster |-> Chain[1], pos |-> 0]
  <1>1. /\ f_call = <<>> /\ f_walk = <<>> /\ f_call' = <<>> /\ f_walk' = <<>>
        /\ f_file' = [f_file EXCEPT ![h] = v]
        /\ f_wrong' = [f_wrong EXCEPT ![h] = FALSE] /\ f_failed' = [f_failed EXCEPT ![h] = FALSE]
    BY DEF open_impl, Unlocked
  <1>2. 1 \in 1 .. Len(Chain) /\ 0 \in 0 .. Size /\ Hops(0) = 0 /\ 1 + 0 = 1
    BY FatNumbers DEF Hops
  <1>3. Chain[1] \in Clusters /\ Chain[1] \in Nat
    BY <1>2, ChainLinks
  <1>4. v \in FileStates /\ v.open = TRUE /\ v.cluster = Chain[1] /\ v.pos = 0
    BY <1>2, <1>3 DEF FileStates
  <1> HIDE DEF v
  <1>5. FileOK(v, FALSE, FALSE)
    BY <1>2, <1>3, <1>4 DEF FileOK
  <1>6. FilesTyped(f_file', f_failed', f_wrong')
    <2> DEFINE no == FALSE
    <2>2. /\ no \in BOOLEAN /\ FileOK(v, no, no) /\ SetTo(f_failed', f_failed, h, no)
          /\ SetTo(f_wrong', f_wrong, h, no) /\ SetTo(f_file', f_file, h, v)
      BY <1>1, <1>5 DEF SetTo
    <2> HIDE DEF no
    <2> QED
      BY <1>4, <2>2, FileSet DEF FilesOK
  <1>7. ReadOK(<<>>, f_file') /\ WalkOK(<<>>, f_file', f_failed')
    BY NobodyIn
  <1> QED
    BY <1>1, <1>6, <1>7 DEF FilesOK

\* A file at another cluster and position.
LEMMA Moved ==
    ASSUME NEW f \in FileStates, NEW c \in Clusters, NEW pos \in 0 .. Size, NEW v,
           MovedTo(v, f, c, pos)
    PROVE  v \in FileStates /\ v.open = f.open /\ v.cluster = c /\ v.pos = pos
  <1>1. c \in Nat
    BY ChainLinks
  <1> QED
    BY <1>1 DEF FileStates, MovedTo

LEMMA SeekKept ==
    ASSUME FilesOK, NEW h \in Handles, NEW to \in SeekPositions, seek_impl(h, to)
    PROVE  FilesOK'
  <1> DEFINE f == f_file[h]
             pos == IF to > Size THEN Size ELSE to
             fwd == f.cluster >= 2 /\ Hops(pos) >= Hops(f.pos)
             hops == IF fwd THEN Hops(pos) - Hops(f.pos) ELSE Hops(pos)
             c == IF fwd THEN f.cluster ELSE Chain[1]
             v == [f EXCEPT !.cluster = c, !.pos = pos]
  <1>1. /\ f_call = <<>> /\ f_walk = <<>> /\ f.open /\ f_call' = f_call /\ f_wrong' = f_wrong /\ f_failed' = f_failed
        /\ hops = 0 => f_file' = [f_file EXCEPT ![h] = v] /\ f_walk' = f_walk
        /\ hops # 0 => f_file' = f_file /\ f_walk' = <<h, pos, c, hops>>
    BY DEF seek_impl, Unlocked
  <1>2. f \in FileStates /\ FileOK(f, f_failed[h], f_wrong[h]) /\ f_failed[h] \in BOOLEAN /\ f_wrong[h] \in BOOLEAN
    BY DEF FilesOK, FilesTyped
  <1>3. f.open = TRUE /\ f.pos \in 0 .. Size /\ f.cluster \in Clusters
    BY <1>1, <1>2 DEF FileStates, FileOK
  <1>4. pos \in 0 .. Size /\ to \in Nat /\ Size \in Nat
    BY FatNumbers, FatAssumption
  <1> HIDE DEF f, pos
  <1>5. pos \in Nat /\ pos <= Size /\ f.pos \in Nat /\ f.pos <= Size
    BY <1>3, <1>4
  <1>6. /\ Hops(pos) \in Nat /\ 1 + Hops(pos) \in 1 .. Len(Chain)
        /\ Hops(f.pos) \in Nat /\ 1 + Hops(f.pos) \in 1 .. Len(Chain)
    BY <1>5, HopsOf
  <1>7. f.cluster >= 2 /\ 1 \in 1 .. Len(Chain) /\ Chain[1] \in Clusters
    BY <1>3, FatNumbers, ChainLinks
  <1>8. hops \in Nat /\ hops <= Hops(pos) /\ c \in Clusters
    BY <1>3, <1>6, <1>7
  <1>9. f_failed[h] = FALSE => c = Chain[1 + Hops(pos) - hops]
    <2>1. CASE fwd
      <3>1. 1 + Hops(pos) - hops = 1 + Hops(f.pos)
        BY <2>1, <1>6
      <3> QED
        BY <2>1, <3>1, <1>2, <1>3 DEF FileOK
    <2>2. CASE ~fwd
      <3>1. 1 + Hops(pos) - hops = 1
        BY <2>2, <1>6
      <3> QED
        BY <2>2, <3>1
    <2> QED
      BY <2>1, <2>2
  <1> HIDE DEF c, hops
  <1>10. CASE hops = 0
    <2>0. MovedTo(v, f, c, pos)
      BY DEF MovedTo
    <2> HIDE DEF v
    <2>1. v \in FileStates /\ v.open = f.open /\ v.cluster = c /\ v.pos = pos
      BY <2>0, <1>2, <1>4, <1>8, Moved
    <2>2. 1 + Hops(pos) - hops = 1 + Hops(pos)
      BY <1>6, <1>10
    <2>3. FileOK(v, f_failed[h], f_wrong[h])
      BY <2>1, <2>2, <1>2, <1>8, <1>9 DEF FileOK
    <2>4. SetTo(f_failed', f_failed, h, f_failed[h]) /\ SetTo(f_wrong', f_wrong, h, f_wrong[h])
      BY <1>1, SameFlag DEF FilesOK, FilesTyped
    <2>5. FilesTyped(f_file', f_failed', f_wrong')
      <3>1. SetTo(f_file', f_file, h, v)
        BY <1>1, <1>10 DEF SetTo
      <3> QED
        BY <1>2, <2>1, <2>3, <2>4, <3>1, FileSet DEF FilesOK
    <2>6. ReadOK(<<>>, f_file') /\ WalkOK(<<>>, f_file', f_failed')
      BY NobodyIn
    <2>7. f_call' = <<>> /\ f_walk' = <<>>
      BY <1>1, <1>10
    <2> QED
      BY <2>5, <2>6, <2>7 DEF FilesOK
  <1>11. CASE hops # 0
    <2>1. hops \in Nat \ {0}
      BY <1>8, <1>11
    <2>2. WalkOK(<<h, pos, c, hops>>, f_file, f_failed)
      BY <2>1, <1>3, <1>4, <1>8, <1>9 DEF WalkOK, f
    <2>3. ReadOK(<<>>, f_file)
      BY NobodyIn
    <2> QED
      BY <1>1, <1>11, <2>2, <2>3 DEF FilesOK
  <1> QED
    BY <1>10, <1>11

LEMMA SeekHopKept ==
    ASSUME CachesOK, FilesOK, seek_hops
    PROVE  CachesOK' /\ FilesOK'
  <1>1. f_walk # <<>> /\ f_call = <<>> /\ f_call' = <<>> /\ f_wrong' = f_wrong /\ f_failed' = f_failed
        /\ g_sec_lba' = g_sec_lba /\ f_sec' = f_sec
    BY DEF seek_hops, FilesOK
  <1>2. PICK h \in Handles, pos \in 0 .. Size, c \in Clusters, hops \in Nat \ {0} :
        /\ f_walk = <<h, pos, c, hops>> /\ f_file[h].open = TRUE
        /\ f_failed[h] = FALSE => hops <= Hops(pos) /\ c = Chain[1 + Hops(pos) - hops]
    BY <1>1 DEF FilesOK, WalkOK
  <1>3. f_walk[1] = h /\ f_walk[2] = pos /\ f_walk[3] = c /\ f_walk[4] = hops
    BY <1>2
  <1>4. PICK ok \in BOOLEAN :
        /\ fat_next(c, ok)
        /\ \/ ~valid_cluster(NextLink(c, ok)) /\ f_walk' = <<>> /\ f_file' = f_file
           \/ /\ valid_cluster(NextLink(c, ok)) /\ hops = 1 /\ f_walk' = <<>>
              /\ f_file' = [f_file EXCEPT ![h] = [f_file[h] EXCEPT !.cluster = NextLink(c, ok), !.pos = pos]]
           \/ /\ valid_cluster(NextLink(c, ok)) /\ hops > 1 /\ f_file' = f_file
              /\ f_walk' = <<h, pos, NextLink(c, ok), hops - 1>>
    BY <1>3 DEF seek_hops
  <1> DEFINE next == NextLink(c, ok)
  <1>5. valid_cluster(next) => next \in Clusters
    BY DEF valid_cluster, Clusters
  <1>6. next = FAT[c] \/ next = 0
    BY LinkRead
  <1> HIDE DEF next
  <1>7. CachesOK'
    BY <1>1, <1>4, LinkCached DEF CachesOK
  <1>8. Hops(pos) \in Nat /\ 1 + Hops(pos) \in 1 .. Len(Chain) /\ Len(Chain) \in Nat
    <2>1. pos \in Nat /\ pos <= Size /\ Len(Chain) \in Nat
      BY FatNumbers
    <2> QED
      BY <2>1, HopsOf
  <1>9. next \in Clusters /\ f_failed[h] = FALSE => next = Chain[1 + Hops(pos) - (hops - 1)]
    <2>1. SUFFICES ASSUME next \in Clusters, f_failed[h] = FALSE PROVE next = Chain[1 + Hops(pos) - (hops - 1)]
      OBVIOUS
    <2> DEFINE i == 1 + Hops(pos) - hops
    <2>2. i \in 1 .. Len(Chain) /\ i < Len(Chain) /\ i + 1 = 1 + Hops(pos) - (hops - 1) /\ c = Chain[i]
      BY <1>2, <1>8, <2>1
    <2> HIDE DEF i
    <2>3. FAT[c] = Chain[i + 1]
      BY <2>2, ChainLinks
    <2>4. next # 0
      BY <2>1, ChainLinks
    <2> QED
      BY <1>6, <2>2, <2>3, <2>4
  <1>10. FilesTyped(f_file, f_failed, f_wrong)
    BY DEF FilesOK
  <1>11. f_file[h] \in FileStates /\ FileOK(f_file[h], f_failed[h], f_wrong[h]) /\ f_failed[h] \in BOOLEAN /\ f_wrong[h] \in BOOLEAN
    BY <1>10 DEF FilesTyped
  <1>12. CASE ~valid_cluster(next) /\ f_walk' = <<>> /\ f_file' = f_file
    <2>1. ReadOK(<<>>, f_file) /\ WalkOK(<<>>, f_file, f_failed)
      BY NobodyIn
    <2> QED
      BY <1>1, <1>7, <1>10, <1>12, <2>1 DEF FilesOK
  <1>13. CASE /\ valid_cluster(next) /\ hops = 1 /\ f_walk' = <<>>
              /\ f_file' = [f_file EXCEPT ![h] = [f_file[h] EXCEPT !.cluster = next, !.pos = pos]]
    <2> DEFINE v == [f_file[h] EXCEPT !.cluster = next, !.pos = pos]
    <2>1. MovedTo(v, f_file[h], next, pos) /\ SetTo(f_file', f_file, h, v)
      BY <1>13 DEF MovedTo, SetTo
    <2> HIDE DEF v
    <2>2. v \in FileStates /\ v.open = f_file[h].open /\ v.cluster = next /\ v.pos = pos
      BY <1>5, <1>11, <1>13, <2>1, Moved
    <2>3. 1 + Hops(pos) - (hops - 1) = 1 + Hops(pos)
      BY <1>8, <1>13
    <2>4. FileOK(v, f_failed[h], f_wrong[h])
      BY <2>2, <2>3, <1>5, <1>9, <1>11, <1>13 DEF FileOK
    <2>5. SetTo(f_failed', f_failed, h, f_failed[h]) /\ SetTo(f_wrong', f_wrong, h, f_wrong[h])
      BY <1>1, <1>10, SameFlag DEF FilesTyped
    <2>6. FilesTyped(f_file', f_failed', f_wrong')
      BY <1>10, <1>11, <2>1, <2>2, <2>4, <2>5, FileSet
    <2>7. ReadOK(<<>>, f_file') /\ WalkOK(<<>>, f_file', f_failed')
      BY NobodyIn
    <2> QED
      BY <1>1, <1>7, <1>13, <2>6, <2>7 DEF FilesOK
  <1>14. CASE /\ valid_cluster(next) /\ hops > 1 /\ f_file' = f_file
              /\ f_walk' = <<h, pos, next, hops - 1>>
    <2> DEFINE m == hops - 1
    <2>1. m \in Nat \ {0} /\ (hops <= Hops(pos) => m <= Hops(pos))
      BY <1>8, <1>14
    <2>2. f_failed[h] = FALSE => m <= Hops(pos) /\ next = Chain[1 + Hops(pos) - m]
      BY <1>2, <1>5, <1>9, <1>14, <2>1
    <2> HIDE DEF m
    <2>3. WalkOK(<<h, pos, next, m>>, f_file, f_failed)
      BY <1>2, <1>5, <1>14, <2>1, <2>2 DEF WalkOK
    <2>4. ReadOK(<<>>, f_file)
      BY NobodyIn
    <2>5. f_walk' = <<h, pos, next, m>>
      BY <1>14 DEF m
    <2> QED
      BY <1>1, <1>7, <1>10, <1>14, <2>3, <2>4, <2>5 DEF FilesOK
  <1> QED
    BY <1>4, <1>12, <1>13, <1>14 DEF next

LEMMA ReadKept ==
    ASSUME FilesOK, NEW h \in Handles, NEW n \in ReadSizes, fat_read(h, n)
    PROVE  FilesOK'
  <1> DEFINE left == Clipped(h, n)
  <1>1. /\ f_call = <<>> /\ f_walk = <<>> /\ f_walk' = <<>> /\ f_file' = f_file /\ f_wrong' = f_wrong
        /\ f_failed' = f_failed /\ f_file[h].open /\ left > 0 /\ f_call' = <<h, left>>
    BY DEF fat_read, Unlocked
  <1>2. f_file[h] \in FileStates /\ FilesTyped(f_file, f_failed, f_wrong)
    BY DEF FilesOK, FilesTyped
  <1>3. f_file[h].open = TRUE /\ f_file[h].pos \in 0 .. Size /\ n \in Nat /\ Size \in Nat
    BY <1>1, <1>2, FatAssumption, FatNumbers DEF FileStates
  <1>4. left \in Nat /\ left <= Size - f_file[h].pos
    <2> DEFINE p == f_file[h].pos
    <2>1. left = IF n > Size - p THEN Size - p ELSE n
      BY DEF Clipped
    <2>2. p \in 0 .. Size
      BY <1>3
    <2> HIDE DEF p, left
    <2>3. left \in Nat /\ left <= Size - p
      BY <1>3, <2>1, <2>2
    <2> QED
      BY <2>3 DEF p
  <1> HIDE DEF left
  <1>5. ReadOK(<<h, left>>, f_file)
    BY <1>1, <1>3, <1>4 DEF ReadOK
  <1>6. WalkOK(<<>>, f_file, f_failed)
    BY NobodyIn
  <1> QED
    BY <1>1, <1>2, <1>5, <1>6 DEF FilesOK

\* The cluster a turn of the loop reads from is the one of its position.
LEMMA TurnCluster ==
    ASSUME CachesOK, NEW f \in FileStates, NEW fail \in BOOLEAN, NEW wrong \in BOOLEAN, FileOK(f, fail, wrong),
           f.open = TRUE, f.pos < Size, NEW ok \in BOOLEAN, NEW c, NEW hop \in BOOLEAN,
           hop = (f.pos # 0 /\ f.pos % CB = 0 /\ f.cluster # 0),
           c = IF hop THEN NextLink(f.cluster, ok) ELSE f.cluster
    PROVE  valid_cluster(c) => c \in Clusters /\ (fail = FALSE => c = Chain[1 + (f.pos \div CB)])
  <1>1. f.cluster \in Clusters /\ f.pos \in Nat /\ f.cluster # 0
    BY ChainLinks, FatNumbers DEF FileOK, FileStates
  <1>2. valid_cluster(c) => c \in Clusters
    BY DEF valid_cluster, Clusters
  <1>3. ASSUME valid_cluster(c), fail = FALSE PROVE c = Chain[1 + (f.pos \div CB)]
    <2> DEFINE q == f.pos \div CB
    <2>0. f.cluster = Chain[1 + Hops(f.pos)]
      BY <1>3 DEF FileOK
    <2>1. Hops(f.pos) \in Nat /\ q \in Nat /\ 1 + q \in 1 .. Len(Chain)
      <3>1. f.pos <= Size
        BY <1>1, FatNumbers
      <3>2. Hops(f.pos) \in Nat
        BY <1>1, <3>1, HopsOf
      <3> QED
        BY <1>1, <3>2, InChain
    <2>2. CASE hop
      <3>1. Hops(f.pos) + 1 = q
        BY <1>1, <2>2, HopsAtEnd
      <3> HIDE DEF q
      <3>2. q \in 1 .. Len(Chain) /\ q < Len(Chain) /\ 1 + Hops(f.pos) = q /\ q + 1 = 1 + q
        BY <2>1, <3>1, FatNumbers
      <3>3. FAT[f.cluster] = Chain[1 + q]
        BY <2>0, <3>2, ChainLinks
      <3>4. c = FAT[f.cluster] \/ c = 0
        BY <1>1, <2>2, LinkRead
      <3>5. c # 0
        BY <1>2, <1>3, ChainLinks
      <3> QED
        BY <3>3, <3>4, <3>5 DEF q
    <2>3. CASE ~hop
      <3>1. Hops(f.pos) = q
        BY <1>1, <2>3, HopsWithin
      <3> QED
        BY <2>0, <2>3, <3>1
    <2> QED
      BY <2>2, <2>3
  <1> QED
    BY <1>2, <1>3

\* The call with k bytes fewer to go.
Rest(h, left, k) == IF left > k THEN <<h, left - k>> ELSE <<>>

\* Bytes copied out leave the file at the cluster of its new position.
LEMMA TurnTaken ==
    ASSUME NEW file, NEW failed, NEW wrong, FilesTyped(file, failed, wrong), NEW h \in Handles,
           NEW left \in Nat, left <= Size - file[h].pos, file[h].open = TRUE,
           NEW k \in Nat, k > 0, k <= left, (file[h].pos % CB) + k <= CB,
           NEW c \in Clusters, failed[h] = FALSE => c = Chain[1 + (file[h].pos \div CB)],
           NEW v, MovedTo(v, file[h], c, file[h].pos + k), NEW bad \in BOOLEAN, failed[h] = FALSE => bad = FALSE,
           NEW file2, NEW wrong2, SetTo(file2, file, h, v), SetTo(wrong2, wrong, h, bad)
    PROVE  FilesTyped(file2, failed, wrong2) /\ ReadOK(Rest(h, left, k), file2)
  <1> DEFINE f == file[h]
             pos == f.pos
  <1>1. f \in FileStates /\ FileOK(f, failed[h], wrong[h]) /\ failed[h] \in BOOLEAN /\ failed \in [Handles -> BOOLEAN]
    BY DEF FilesTyped
  <1>2. pos \in Nat /\ pos <= Size /\ Size \in Nat
    BY <1>1, FatNumbers DEF FileStates
  <1>3. left <= Size - pos /\ (pos % CB) + k <= CB /\ MovedTo(v, f, c, pos + k)
        /\ (failed[h] = FALSE => c = Chain[1 + (pos \div CB)])
    OBVIOUS
  <1> HIDE DEF pos
  <1>4. pos + k \in 0 .. Size /\ pos < Size /\ pos + k <= Size
    BY <1>2, <1>3
  <1>5. Hops(pos + k) = pos \div CB
    BY <1>2, <1>3, <1>4, TurnEnds
  <1>6. v \in FileStates /\ v.open = f.open /\ v.cluster = c /\ v.pos = pos + k
    BY <1>1, <1>3, <1>4, Moved
  <1>7. FileOK(v, failed[h], bad)
    BY <1>3, <1>5, <1>6 DEF FileOK
  <1>8. SetTo(failed, failed, h, failed[h])
    BY <1>1, SameFlag
  <1>9. FilesTyped(file2, failed, wrong2) /\ file2[h] = v
    BY <1>1, <1>6, <1>7, <1>8, FileSet
  <1>10. CASE left > k
    <2>1. left - k \in Nat /\ left - k > 0 /\ left - k <= Size - (pos + k)
      BY <1>2, <1>3, <1>10
    <2>2. ReadOK(<<h, left - k>>, file2)
      BY <2>1, <1>6, <1>9 DEF ReadOK
    <2> QED
      BY <1>9, <1>10, <2>2 DEF Rest
  <1>11. CASE ~(left > k)
    BY <1>9, <1>11, NobodyIn DEF Rest
  <1> QED
    BY <1>10, <1>11

LEMMA FailedKept ==
    ASSUME FilesOK, NEW h \in Handles, NEW c \in Clusters, ReadFails(h, c), f_walk = <<>>
    PROVE  FilesOK'
  <1> DEFINE v == [f_file[h] EXCEPT !.cluster = c]
             yes == TRUE
  <1>1. /\ f_call' = <<>> /\ f_walk' = <<>> /\ f_wrong' = f_wrong /\ SetTo(f_failed', f_failed, h, yes)
        /\ SetTo(f_file', f_file, h, v)
    BY DEF ReadFails, SetTo
  <1>2. /\ f_file[h] \in FileStates /\ f_wrong[h] \in BOOLEAN /\ FilesTyped(f_file, f_failed, f_wrong)
        /\ f_wrong \in [Handles -> BOOLEAN]
    BY DEF FilesOK, FilesTyped
  <1>3. c \in Nat
    BY ChainLinks
  <1>4. v \in FileStates /\ v.cluster = c
    BY <1>2, <1>3 DEF FileStates
  <1>5. yes \in BOOLEAN /\ yes # FALSE
    OBVIOUS
  <1> HIDE DEF v, yes
  <1>6. FileOK(v, yes, f_wrong[h])
    BY <1>4, <1>5 DEF FileOK
  <1>7. SetTo(f_wrong', f_wrong, h, f_wrong[h])
    BY <1>1, <1>2, SameFlag
  <1>8. FilesTyped(f_file', f_failed', f_wrong')
    BY <1>1, <1>2, <1>4, <1>5, <1>6, <1>7, FileSet
  <1>9. ReadOK(<<>>, f_file') /\ WalkOK(<<>>, f_file', f_failed')
    BY NobodyIn
  <1> QED
    BY <1>1, <1>8, <1>9 DEF FilesOK

LEMMA AdvanceKept ==
    ASSUME FilesOK, NEW h \in Handles, NEW left \in Nat, f_call = <<h, left>>, f_walk = <<>>,
           left <= Size - f_file[h].pos, left > 0, f_file[h].open = TRUE,
           NEW c \in Clusters, f_failed[h] = FALSE => c = Chain[1 + (f_file[h].pos \div CB)],
           NEW k \in Nat, k > 0, k <= left, (f_file[h].pos % CB) + k <= CB,
           NEW lba, Advance(h, c, k, lba, lba)
    PROVE  FilesOK'
  <1> DEFINE f == f_file[h]
             v == [f_file[h] EXCEPT !.cluster = c, !.pos = f_file[h].pos + k]
             off == \E i \in 0 .. k - 1 : Wanted(f_file[h].pos + i) # <<c, (f_file[h].pos % CB) + i>>
             bad == f_wrong[h] \/ lba # lba \/ off
  <1>0. f_call[2] = left
    OBVIOUS
  <1>1. /\ SetTo(f_file', f_file, h, v) /\ SetTo(f_wrong', f_wrong, h, bad) /\ f_failed' = f_failed
        /\ f_walk' = <<>> /\ f_call' = Rest(h, left, k)
    <2>1. SetTo(f_file', f_file, h, v)
      BY DEF Advance, SetTo
    <2>2. SetTo(f_wrong', f_wrong, h, bad)
      BY DEF Advance, SetTo
    <2>3. f_failed' = f_failed /\ f_walk' = <<>> /\ f_call' = Rest(h, left, k)
      BY <1>0 DEF Advance, Rest
    <2> QED
      BY <2>1, <2>2, <2>3
  <1>2. /\ f \in FileStates /\ f_wrong[h] \in BOOLEAN /\ FilesTyped(f_file, f_failed, f_wrong)
        /\ FileOK(f, f_failed[h], f_wrong[h])
    BY DEF FilesOK, FilesTyped
  <1>3. f.pos \in Nat /\ f.pos < Size
    BY <1>2, FatNumbers DEF FileStates
  <1>4. f_failed[h] = FALSE => ~off
    BY <1>3, TurnBytes
  <1>5. bad \in BOOLEAN /\ (f_failed[h] = FALSE => bad = FALSE)
    BY <1>2, <1>4 DEF FileOK
  <1>6. MovedTo(v, f, c, f.pos + k)
    BY DEF MovedTo
  <1> HIDE DEF v, bad, off
  <1>7. FilesTyped(f_file', f_failed, f_wrong') /\ ReadOK(Rest(h, left, k), f_file')
    BY <1>1, <1>2, <1>5, <1>6, TurnTaken
  <1>8. WalkOK(<<>>, f_file', f_failed)
    BY NobodyIn
  <1> QED
    BY <1>1, <1>7, <1>8 DEF FilesOK

\* The turn of a read of h with left bytes to go.
Turn(h, left) ==
    LET f    == f_file[h]
        hop  == f.pos # 0 /\ f.pos % CB = 0 /\ f.cluster # 0
    IN
    /\ \E okF \in BOOLEAN, okS \in BOOLEAN :
         LET c   == IF hop THEN NextLink(f.cluster, okF) ELSE f.cluster
             in  == f.pos % CB
             off == in % SEC
             lba == clus_lba(c, in \div SEC)
             k   == IF left < SEC - off THEN left ELSE SEC - off
             run == IF left \div SEC > (CB - in) \div SEC THEN (CB - in) \div SEC
                                                          ELSE left \div SEC
         IN
         /\ IF hop THEN fat_next(f.cluster, okF)
            ELSE okF /\ UNCHANGED <<g_fatsec_lba, f_fatsec>>
         /\ \/ /\ ~valid_cluster(c) /\ okS
               /\ ReadFails(h, f.cluster) /\ UNCHANGED <<g_sec_lba, f_sec>>
            \/ /\ valid_cluster(c) /\ off = 0 /\ k = SEC /\ UNCHANGED <<g_sec_lba, f_sec>>
               /\ IF okS THEN Advance(h, c, run * SEC, lba, lba) ELSE ReadFails(h, c)
            \/ /\ valid_cluster(c) /\ ~(off = 0 /\ k = SEC) /\ load_sec(lba, okS)
               /\ IF LoadOk(lba, okS) THEN Advance(h, c, k, f_sec', lba) ELSE ReadFails(h, c)

LEMMA ReadTurnKept ==
    ASSUME CachesOK, FilesOK, read_impl
    PROVE  CachesOK' /\ FilesOK'
  <1>1. f_call # <<>> /\ f_walk = <<>>
    BY DEF read_impl, FilesOK
  <1>2. PICK h \in Handles, left \in Nat :
          f_call = <<h, left>> /\ left > 0 /\ left <= Size - f_file[h].pos /\ f_file[h].open = TRUE
    BY <1>1 DEF FilesOK, ReadOK
  <1>3. f_call[1] = h /\ f_call[2] = left
    BY <1>2
  <1>30. Turn(h, left)
    <2>1. Turn(f_call[1], f_call[2])
      BY DEF read_impl, Turn
    <2> QED
      BY <1>3, <2>1
  <1> DEFINE f == f_file[h]
             hop == f.pos # 0 /\ f.pos % CB = 0 /\ f.cluster # 0
             in == f.pos % CB
             off == in % SEC
             k == IF left < SEC - off THEN left ELSE SEC - off
             run == IF left \div SEC > (CB - in) \div SEC THEN (CB - in) \div SEC ELSE left \div SEC
             at(okF) == IF hop THEN NextLink(f.cluster, okF) ELSE f.cluster
             lba(okF) == clus_lba(at(okF), in \div SEC)
  <1>4. PICK okF \in BOOLEAN, okS \in BOOLEAN :
         /\ IF hop THEN fat_next(f.cluster, okF)
            ELSE okF /\ UNCHANGED <<g_fatsec_lba, f_fatsec>>
         /\ \/ /\ ~valid_cluster(at(okF)) /\ okS
               /\ ReadFails(h, f.cluster) /\ UNCHANGED <<g_sec_lba, f_sec>>
            \/ /\ valid_cluster(at(okF)) /\ off = 0 /\ k = SEC /\ UNCHANGED <<g_sec_lba, f_sec>>
               /\ IF okS THEN Advance(h, at(okF), run * SEC, lba(okF), lba(okF)) ELSE ReadFails(h, at(okF))
            \/ /\ valid_cluster(at(okF)) /\ ~(off = 0 /\ k = SEC) /\ load_sec(lba(okF), okS)
               /\ IF LoadOk(lba(okF), okS) THEN Advance(h, at(okF), k, f_sec', lba(okF)) ELSE ReadFails(h, at(okF))
    BY <1>30 DEF Turn
  <1> DEFINE c == at(okF)
             sec == in \div SEC
  <1>5. /\ f \in FileStates /\ FileOK(f, f_failed[h], f_wrong[h]) /\ f_failed[h] \in BOOLEAN /\ f_wrong[h] \in BOOLEAN
        /\ f.open = TRUE
    BY <1>2 DEF FilesOK, FilesTyped
  <1>6. f.pos \in Nat /\ f.pos < Size /\ Size \in Nat /\ f.cluster \in Clusters
    BY <1>2, <1>5, FatNumbers DEF FileStates, FileOK
  <1>7. valid_cluster(c) => c \in Clusters /\ (f_failed[h] = FALSE => c = Chain[1 + (f.pos \div CB)])
    BY <1>5, <1>6, TurnCluster
  <1>8. SecOK(g_fatsec_lba', f_fatsec')
    BY <1>4, LinkCached DEF CachesOK
  <1>9. CB \in Nat /\ CB > 0 /\ SEC \in Nat /\ SEC > 0
    BY ClusterSize, FatNumbers
  <1>10. in \in Nat /\ in < CB
    BY <1>6, <1>9, DivModType
  <1>11. off \in Nat /\ off < SEC /\ in + (SEC - off) <= CB
    BY <1>10, SectorEnds
  <1>12. (f.pos % CB) + k <= CB /\ k \in Nat /\ k > 0 /\ k <= left
    <2>1. in + k <= CB /\ k \in Nat /\ k > 0 /\ k <= left
      <3> HIDE DEF in, off
      <3> QED
        BY <1>2, <1>9, <1>10, <1>11
    <2> QED
      BY <2>1
  <1>13. lba(okF) = clus_lba(c, sec)
    OBVIOUS
  <1> DEFINE block == clus_lba(c, sec)
  <1>14. CASE ~valid_cluster(c) /\ ReadFails(h, f.cluster) /\ UNCHANGED <<g_sec_lba, f_sec>>
    <2>1. FilesOK'
      BY <1>1, <1>6, <1>14, FailedKept
    <2>2. CachesOK'
      BY <1>8, <1>14 DEF CachesOK
    <2> QED
      BY <2>1, <2>2
  <1>15. CASE /\ valid_cluster(c) /\ off = 0 /\ k = SEC /\ UNCHANGED <<g_sec_lba, f_sec>>
              /\ IF okS THEN Advance(h, c, run * SEC, block, block) ELSE ReadFails(h, c)
    <2>1. CachesOK'
      BY <1>8, <1>15 DEF CachesOK
    <2>2. c \in Clusters
      BY <1>7, <1>15
    <2>3. CASE okS
      <3>1. left >= SEC /\ CB - in >= SEC /\ CB - in \in Nat
        <4> HIDE DEF in, off
        <4> QED
          BY <1>2, <1>9, <1>10, <1>11, <1>15
      <3> DEFINE x == run * SEC
      <3>2. x \in Nat /\ x > 0 /\ x <= left /\ x <= CB - in
        <4> HIDE DEF in
        <4> QED
          BY <3>1, FewerSectors
      <3>3. (f.pos % CB) + x <= CB
        <4>1. in + x <= CB
          <5> HIDE DEF in, x
          <5> QED
            BY <3>2, <1>9, <1>10
        <4> QED
          BY <4>1
      <3>4. Advance(h, c, x, block, block)
        BY <1>15, <2>3
      <3> HIDE DEF x, c, block
      <3> QED
        BY <1>1, <1>2, <1>7, <1>15, <2>1, <2>2, <3>2, <3>3, <3>4, AdvanceKept
    <2>4. CASE ~okS
      <3>1. ReadFails(h, c)
        BY <1>15, <2>4
      <3> HIDE DEF c
      <3> QED
        BY <1>1, <2>1, <2>2, <3>1, FailedKept
    <2> QED
      BY <2>3, <2>4
  <1>16. CASE /\ valid_cluster(c) /\ load_sec(block, okS)
              /\ IF LoadOk(block, okS) THEN Advance(h, c, k, f_sec', block) ELSE ReadFails(h, c)
    <2>2. c \in Clusters
      BY <1>7, <1>16
    <2>3. SecOK(g_sec_lba', f_sec') /\ (LoadOk(block, okS) => f_sec' = block)
      <3>1. load_sec(clus_lba(c, sec), okS)
        BY <1>16
      <3> HIDE DEF c, sec
      <3> QED
        BY <2>2, <3>1, SectorCached DEF CachesOK
    <2>1. CachesOK'
      BY <1>8, <2>3 DEF CachesOK
    <2>4. CASE LoadOk(block, okS)
      <3>1. Advance(h, c, k, block, block)
        BY <1>16, <2>3, <2>4
      <3> HIDE DEF c, block, k
      <3> QED
        BY <1>1, <1>2, <1>7, <1>12, <1>16, <2>1, <2>2, <3>1, AdvanceKept
    <2>5. CASE ~LoadOk(block, okS)
      <3>1. ReadFails(h, c)
        BY <1>16, <2>5
      <3> HIDE DEF c
      <3> QED
        BY <1>1, <2>1, <2>2, <3>1, FailedKept
    <2> QED
      BY <2>4, <2>5
  <1> QED
    BY <1>4, <1>13, <1>14, <1>15, <1>16

(* ---- directory iterators ---- *)
LEMMA IterSet ==
    ASSUME NEW dir, NEW names, NEW cut, ItersTyped(dir, names, cut),
           NEW d \in Iterators, NEW v \in IterStates, NEW a \in Names, NEW b \in BOOLEAN, IterOK(v, a, b),
           NEW dir2, NEW names2, NEW cut2, SetTo(dir2, dir, d, v), SetTo(names2, names, d, a), SetTo(cut2, cut, d, b)
    PROVE  ItersTyped(dir2, names2, cut2)
  <1>0. /\ dir \in [Iterators -> IterStates] /\ names \in [Iterators -> Names] /\ cut \in [Iterators -> BOOLEAN]
        /\ \A x \in Iterators : IterOK(dir[x], names[x], cut[x])
    BY DEF ItersTyped
  <1>1. dir2 \in [Iterators -> IterStates] /\ names2 \in [Iterators -> Names] /\ cut2 \in [Iterators -> BOOLEAN]
    BY <1>0 DEF SetTo
  <1>2. dir2[d] = v /\ names2[d] = a /\ cut2[d] = b
    BY <1>0 DEF SetTo
  <1>3. \A x \in Iterators : x # d => dir2[x] = dir[x] /\ names2[x] = names[x] /\ cut2[x] = cut[x]
    BY <1>0 DEF SetTo
  <1>4. \A x \in Iterators : IterOK(dir2[x], names2[x], cut2[x])
    <2>1. SUFFICES ASSUME NEW x \in Iterators PROVE IterOK(dir2[x], names2[x], cut2[x])
      OBVIOUS
    <2>2. CASE x = d
      BY <2>2, <1>2
    <2>3. CASE x # d
      BY <2>3, <1>0, <1>3
    <2> QED
      BY <2>2, <2>3
  <1> QED
    BY <1>1, <1>4 DEF ItersTyped

LEMMA NothingYet == AtEntry(<<>>, <<>>, 0) /\ Lists(<<>>, Up(0))
  <1>1. Len(<<>>) = 0 /\ \A i \in 1 .. 0 : FALSE
    OBVIOUS
  <1>2. Up(0) = {}
    <2>1. \A i \in Listed : i \in Nat /\ i >= 1
      BY FatNumbers DEF Listed
    <2> QED
      BY <2>1 DEF Up
  <1>3. Lists(<<>>, Up(0))
    <2> DEFINE none == [i \in 1 .. 0 |-> 0]
    <2>1. none \in [1 .. Len(<<>>) -> Up(0)]
      BY <1>1
    <2> HIDE DEF none
    <2> QED
      BY <1>1, <1>2, <2>1 DEF Lists
  <1>4. \A x \in Nat : ~ Run(0, x) /\ <<>> # <<x>>
    BY <1>1 DEF Run
  <1>5. 0 \in 0 .. Len(Dir)
    BY FatNumbers
  <1> QED
    BY <1>1, <1>3, <1>4, <1>5 DEF AtEntry

LEMMA DirOpenKept ==
    ASSUME ItersOK, NEW d \in Iterators, dir_open_impl(d)
    PROVE  ItersOK'
  <1> DEFINE v == [open |-> TRUE, cluster |-> DirChain[1], sector |-> 0, entry |-> 0, done |-> FALSE, lfn |-> <<>>]
             no == FALSE
             e == <<>>
  <1>1. SetTo(f_dir', f_dir, d, v) /\ SetTo(f_names', f_names, d, e) /\ SetTo(f_cut', f_cut, d, no)
    BY DEF dir_open_impl, SetTo
  <1>2. 1 \in 1 .. Len(DirChain) /\ DirChain[1] \in Nat /\ e \in Seq(Nat)
    BY FatNumbers, ChainLinks
  <1>3. /\ v \in IterStates /\ v.open = TRUE /\ v.cluster = DirChain[1] /\ v.sector = 0 /\ v.entry = 0
        /\ v.done = FALSE /\ v.lfn = <<>>
    BY <1>2 DEF IterStates
  <1>4. Place(1, 0, 0) = 0
    <2>1. SPC * ENTS \in Nat /\ 0 * ENTS = 0
      BY FatNumbers
    <2>2. (1 - 1) * (SPC * ENTS) = 0
      BY <2>1
    <2> QED
      BY <2>1, <2>2 DEF Place
  <1>5. 0 \in 0 .. SPC /\ 0 \in 0 .. ENTS - 1
    BY FatNumbers
  <1>6. no \in BOOLEAN /\ e \in Names
    BY DEF Names
  <1> HIDE DEF v, no
  <1>7. IterOK(v, e, no)
    BY <1>2, <1>3, <1>4, <1>5, NothingYet DEF IterOK
  <1> HIDE DEF e
  <1> QED
    BY <1>1, <1>3, <1>6, <1>7, IterSet DEF ItersOK

PassedTo(v, it, c, lfn, k, s, end) ==
    v = [it EXCEPT !.cluster = c, !.lfn = lfn, !.entry = k, !.sector = s, !.done = end]

Passed(v, it, c, s, e, end) ==
    PassedTo(v, it, c, Spelt(e, it.lfn), IF it.entry + 1 = ENTS THEN 0 ELSE it.entry + 1,
             IF it.entry + 1 = ENTS THEN s + 1 ELSE s, end)

\* The iterator is before entry e, the next one of the directory.
EntryNext(it, names, j, s, e) ==
    /\ it \in IterStates /\ it.open = TRUE /\ names \in Names /\ j \in 1 .. Len(DirChain) /\ s \in 0 .. SPC - 1
    /\ it.entry \in 0 .. ENTS - 1 /\ AtEntry(names, it.lfn, Place(j, s, it.entry))
    /\ e = Dir[Place(j, s, it.entry) + 1]
EndsAt(end, e) == end \in BOOLEAN /\ (end = TRUE <=> e.kind = "end")

LEMMA EntryTaken ==
    ASSUME NEW it, NEW names, NEW j, NEW s, NEW e, EntryNext(it, names, j, s, e), NEW cut \in BOOLEAN,
           NEW v, NEW end, EndsAt(end, e), Passed(v, it, DirChain[j], s, e, end)
    PROVE  v \in IterStates /\ Named(e, it.lfn, names) \in Names /\ IterOK(v, Named(e, it.lfn, names), cut)
  <1>0. /\ it \in IterStates /\ it.open = TRUE /\ names \in Names /\ j \in 1 .. Len(DirChain) /\ s \in 0 .. SPC - 1
        /\ it.entry \in 0 .. ENTS - 1 /\ AtEntry(names, it.lfn, Place(j, s, it.entry))
        /\ e = Dir[Place(j, s, it.entry) + 1] /\ end \in BOOLEAN /\ (end = TRUE <=> e.kind = "end")
    BY DEF EntryNext, EndsAt
  <1> DEFINE k == it.entry
             p == Place(j, s, k)
             k2 == IF k + 1 = ENTS THEN 0 ELSE k + 1
             s2 == IF k + 1 = ENTS THEN s + 1 ELSE s
             lfn == it.lfn
             more == Named(e, lfn, names)
             spelt == Spelt(e, lfn)
  <1>1. /\ p \in Nat /\ p < Len(Dir) /\ Place(j, s, k + 1) = p + 1
        /\ k + 1 = ENTS => Place(j, s + 1, 0) = p + 1
    BY <1>0, PlaceIn
  <1>2. AtEntry(names, lfn, p) /\ e = Dir[p + 1] /\ k \in 0 .. ENTS - 1
    BY <1>0
  <1>3. PassedTo(v, it, DirChain[j], spelt, k2, s2, end)
    BY DEF Passed
  <1> HIDE DEF k, p, lfn
  <1>4. Place(j, s2, k2) = p + 1
    BY <1>1
  <1>5. k2 \in 0 .. ENTS - 1 /\ s2 \in 0 .. SPC /\ (s2 = SPC => k2 = 0)
    BY <1>0, <1>2, FatNumbers
  <1>6. /\ e.kind = "end" => Lists(more, Listed)
        /\ e.kind # "end" => AtEntry(more, spelt, p + 1)
        /\ Lists(more, Up(p + 1)) /\ more \in Names /\ spelt \in Seq(Nat)
    BY <1>0, <1>1, <1>2, EntryStep
  <1>7. DirChain[j] \in Nat /\ k2 \in Nat /\ s2 \in Nat /\ p + 1 \in 0 .. Len(Dir)
    BY <1>0, <1>1, <1>5, FatNumbers, ChainLinks
  <1> HIDE DEF more, spelt, k2, s2
  <1>8. /\ v \in IterStates /\ v.open = TRUE /\ v.cluster = DirChain[j] /\ v.sector = s2 /\ v.entry = k2
        /\ v.done = end /\ v.lfn = spelt
    BY <1>0, <1>3, <1>6, <1>7 DEF PassedTo, IterStates
  <1>9. CASE end = TRUE
    <2>1. Lists(more, Listed)
      BY <1>0, <1>6, <1>9
    <2>2. \E q \in 0 .. Len(Dir) : Lists(more, Up(q))
      BY <1>6, <1>7
    <2>3. v.open = TRUE /\ v.done = TRUE
      BY <1>8, <1>9
    <2>4. IterOK(v, more, cut)
      BY <2>1, <2>2, <2>3 DEF IterOK
    <2> QED
      BY <1>6, <1>8, <2>4 DEF more, lfn
  <1>10. CASE end = FALSE
    <2>1. AtEntry(more, spelt, Place(j, s2, k2))
      BY <1>0, <1>4, <1>6, <1>10
    <2>3. v.open = TRUE /\ v.done = FALSE
      BY <1>8, <1>10
    <2>4. IterOK(v, more, cut)
      BY <2>1, <2>3, <1>0, <1>5, <1>8 DEF IterOK
    <2> QED
      BY <1>6, <1>8, <2>4 DEF more, lfn
  <1> QED
    BY <1>0, <1>9, <1>10

LEMMA DirNextKept ==
    ASSUME CachesOK, ItersOK, NEW d \in Iterators, dir_next_impl(d)
    PROVE  CachesOK' /\ ItersOK'
  <1> DEFINE it == f_dir[d]
             names == f_names[d]
             over == it.sector >= SPC
             s == IF over THEN 0 ELSE it.sector
             at(okF) == IF over THEN NextLink(it.cluster, okF) ELSE it.cluster
  <1>1. /\ it.open /\ ~it.done /\ UNCHANGED <<g_mounted, fileVars>>
        /\ \E okF \in BOOLEAN, okS \in BOOLEAN :
             /\ IF over THEN fat_next(it.cluster, okF) ELSE okF /\ UNCHANGED <<g_fatsec_lba, f_fatsec>>
             /\ IF ~valid_cluster(at(okF))
                THEN /\ okS /\ f_dir' = [f_dir EXCEPT ![d].done = TRUE]
                     /\ f_cut' = [f_cut EXCEPT ![d] = (at(okF) = 0)]
                     /\ UNCHANGED <<g_sec_lba, f_sec, f_names>>
                ELSE /\ load_sec(clus_lba(at(okF), s), okS) /\ UNCHANGED f_cut
                     /\ IF LoadOk(clus_lba(at(okF), s), okS) THEN Entry1(d, at(okF), s)
                        ELSE f_dir' = Unread(d, at(okF), s) /\ UNCHANGED f_names
    BY DEF dir_next_impl
  <1>2. PICK okF \in BOOLEAN, okS \in BOOLEAN :
             /\ IF over THEN fat_next(it.cluster, okF) ELSE okF /\ UNCHANGED <<g_fatsec_lba, f_fatsec>>
             /\ IF ~valid_cluster(at(okF))
                THEN /\ okS /\ f_dir' = [f_dir EXCEPT ![d].done = TRUE]
                     /\ f_cut' = [f_cut EXCEPT ![d] = (at(okF) = 0)]
                     /\ UNCHANGED <<g_sec_lba, f_sec, f_names>>
                ELSE /\ load_sec(clus_lba(at(okF), s), okS) /\ UNCHANGED f_cut
                     /\ IF LoadOk(clus_lba(at(okF), s), okS) THEN Entry1(d, at(okF), s)
                        ELSE f_dir' = Unread(d, at(okF), s) /\ UNCHANGED f_names
    BY <1>1
  <1> DEFINE n == at(okF)
             block == clus_lba(n, s)
  <1>3. /\ it \in IterStates /\ names \in Names /\ f_cut[d] \in BOOLEAN /\ IterOK(it, names, f_cut[d])
        /\ f_dir \in [Iterators -> IterStates] /\ f_names \in [Iterators -> Names] /\ f_cut \in [Iterators -> BOOLEAN]
    BY DEF ItersOK, ItersTyped
  <1>4. it.open = TRUE /\ it.done = FALSE /\ it.sector \in Nat /\ it.entry \in Nat /\ it.cluster \in Nat
    BY <1>1, <1>3 DEF IterStates
  <1>5. PICK i \in 1 .. Len(DirChain) :
            /\ it.cluster = DirChain[i] /\ it.sector \in 0 .. SPC /\ it.entry \in 0 .. ENTS - 1
            /\ it.sector = SPC => it.entry = 0
            /\ AtEntry(names, it.lfn, Place(i, it.sector, it.entry))
    BY <1>3, <1>4 DEF IterOK
  <1>6. it.cluster \in Clusters
    BY <1>5, ChainLinks
  <1>7. SecOK(g_fatsec_lba', f_fatsec')
    BY <1>2, LinkCached DEF CachesOK
  <1>8. over => it.sector = SPC /\ it.entry = 0
    BY <1>5, FatNumbers
  <1>9. over => n = FAT[it.cluster] \/ n = 0
    BY <1>6, LinkRead
  <1>10. FAT[it.cluster] = IF i < Len(DirChain) THEN DirChain[i + 1] ELSE EOC
    BY <1>5, ChainLinks
  <1>11. valid_cluster(n) <=> n \in Clusters
    BY DEF valid_cluster, Clusters
  <1>12. ~over => n = it.cluster /\ s = it.sector /\ it.sector \in 0 .. SPC - 1
    <2>1. ~over => n = it.cluster /\ s = it.sector
      OBVIOUS
    <2>2. it.sector \in 0 .. SPC /\ SPC \in Nat
      BY <1>5, FatNumbers
    <2>3. ~over => it.sector \in 0 .. SPC - 1
      BY <2>2
    <2> QED
      BY <2>1, <2>3
  <1>13. over => s = 0
    OBVIOUS
  <1> HIDE DEF at, n, s, over, it, names
  <1>14. CASE ~valid_cluster(n)
    <2>1. over
      BY <1>6, <1>11, <1>12, <1>14
    <2> DEFINE v == [it EXCEPT !.done = TRUE]
               gone == (n = 0)
    <2>2. /\ SetTo(f_dir', f_dir, d, v) /\ SetTo(f_cut', f_cut, d, gone) /\ f_names' = f_names
          /\ g_sec_lba' = g_sec_lba /\ f_sec' = f_sec
      BY <1>2, <1>14 DEF SetTo, n, it
    <2>3. v \in IterStates /\ v.open = TRUE /\ v.done = TRUE
      BY <1>3, <1>4 DEF IterStates
    <2>4. gone \in BOOLEAN /\ (gone = FALSE => n # 0)
      OBVIOUS
    <2> HIDE DEF v, gone
    <2> DEFINE p == Place(i, SPC, 0)
    <2>5. AtEntry(names, it.lfn, p)
      BY <1>5, <1>8, <2>1
    <2> HIDE DEF p
    <2>6. p \in 0 .. Len(Dir) /\ Lists(names, Up(p))
      BY <2>5 DEF AtEntry
    <2>7. ASSUME gone = FALSE PROVE Lists(names, Listed)
      <3>1. n = FAT[it.cluster]
        BY <1>9, <2>1, <2>4, <2>7
      <3>2. i = Len(DirChain)
        <4>1. SUFFICES ASSUME i < Len(DirChain) PROVE FALSE
          BY FatNumbers
        <4>2. i + 1 \in 1 .. Len(DirChain)
          BY <4>1, FatNumbers
        <4>3. DirChain[i + 1] \in Clusters
          BY <4>2, ChainLinks
        <4> QED
          BY <1>10, <1>11, <1>14, <3>1, <4>1, <4>3
      <3>3. p = Len(Dir)
        BY <3>2, PlaceOver DEF p
      <3>4. Up(p) = Listed
        BY <3>3, FatNumbers DEF Up, Listed
      <3> QED
        BY <2>6, <3>4
    <2>8. IterOK(v, names, gone)
      BY <2>3, <2>6, <2>7 DEF IterOK
    <2>9. SetTo(f_names', f_names, d, names)
      BY <2>2, <1>3 DEF SetTo, names
    <2>10. ItersOK'
      BY <1>3, <2>2, <2>3, <2>4, <2>8, <2>9, IterSet DEF ItersOK
    <2> QED
      BY <1>7, <2>2, <2>10 DEF CachesOK
  <1>15. CASE valid_cluster(n)
    <2>1. \E j \in 1 .. Len(DirChain) : /\ n = DirChain[j] /\ s \in 0 .. SPC - 1
                                        /\ AtEntry(names, it.lfn, Place(j, s, it.entry))
      <3>1. CASE over
        <4>1. n = FAT[it.cluster] /\ i < Len(DirChain)
          BY <1>9, <1>10, <1>11, <1>15, <3>1, ChainLinks
        <4>2. i + 1 \in 1 .. Len(DirChain) /\ n = DirChain[i + 1]
          BY <1>10, <4>1, FatNumbers
        <4>3. Place(i + 1, 0, 0) = Place(i, SPC, 0)
          BY PlaceOver
        <4>4. AtEntry(names, it.lfn, Place(i + 1, s, it.entry)) /\ s \in 0 .. SPC - 1
          BY <1>5, <1>8, <1>13, <3>1, <4>3, FatNumbers
        <4> QED
          BY <4>2, <4>4
      <3>2. CASE ~over
        BY <1>5, <1>12, <3>2
      <3> QED
        BY <3>1, <3>2
    <2>2. PICK j \in 1 .. Len(DirChain) : /\ n = DirChain[j] /\ s \in 0 .. SPC - 1
                                         /\ AtEntry(names, it.lfn, Place(j, s, it.entry))
      BY <2>1
    <2>3. /\ load_sec(block, okS) /\ f_cut' = f_cut
          /\ LoadOk(block, okS) => Entry1(d, n, s)
          /\ ~LoadOk(block, okS) => f_dir' = Unread(d, n, s) /\ f_names' = f_names
      BY <1>2, <1>15 DEF n
    <2>4. SecOK(g_sec_lba', f_sec') /\ (LoadOk(block, okS) => f_sec' = block)
      BY <1>11, <1>15, <2>3, SectorCached DEF CachesOK
    <2>5. CachesOK'
      BY <1>7, <2>4 DEF CachesOK
    <2>6. SetTo(f_cut', f_cut, d, f_cut[d])
      BY <1>3, <2>3 DEF SetTo
    <2>7. CASE LoadOk(block, okS)
      <3> DEFINE e == Dir[Place(j, s, it.entry) + 1]
                 end == (e.kind = "end")
                 lfn2 == Spelt(e, it.lfn)
                 k2 == IF it.entry + 1 = ENTS THEN 0 ELSE it.entry + 1
                 s2 == IF it.entry + 1 = ENTS THEN s + 1 ELSE s
                 v == [it EXCEPT !.cluster = n, !.lfn = lfn2, !.entry = k2, !.sector = s2, !.done = end]
                 more == Named(e, it.lfn, names)
      <3>1. EntryIn(block, it.entry) = e
        BY <1>5, <2>2, EntryHeld
      <3>2. EntryIn(f_sec', it.entry) = e
        BY <2>4, <2>7, <3>1
      <3> HIDE DEF e
      <3>3. SetTo(f_dir', f_dir, d, v) /\ SetTo(f_names', f_names, d, more)
        <4>1. Entry1(d, n, s)
          BY <2>3, <2>7
        <4>2. SetTo(f_dir', f_dir, d, v)
          BY <4>1, <3>2 DEF Entry1, SetTo, Spelt, it
        <4>3. SetTo(f_names', f_names, d, more)
          BY <4>1, <3>2, <1>3 DEF Entry1, SetTo, Named, it, names
        <4> QED
          BY <4>2, <4>3
      <3>4. Passed(v, it, DirChain[j], s, e, end)
        BY <2>2 DEF PassedTo, Passed
      <3>6. EntryNext(it, names, j, s, e)
        BY <1>3, <1>4, <1>5, <2>2 DEF EntryNext, e
      <3>7. EndsAt(end, e)
        BY DEF EndsAt
      <3> HIDE DEF v, end
      <3>8. v \in IterStates /\ more \in Names /\ IterOK(v, more, f_cut[d])
        BY <1>3, <3>4, <3>6, <3>7, EntryTaken
      <3> HIDE DEF more
      <3> QED
        BY <1>3, <2>5, <2>6, <3>3, <3>8, IterSet DEF ItersOK
    <2>8. CASE ~LoadOk(block, okS)
      <3> DEFINE v == [it EXCEPT !.cluster = n, !.sector = s]
      <3>1. SetTo(f_dir', f_dir, d, v)
        BY <2>3, <2>8 DEF SetTo, Unread, it
      <3>2. SetTo(f_names', f_names, d, names)
        BY <1>3, <2>3, <2>8 DEF SetTo, names
      <3>3. n \in Nat /\ s \in Nat /\ s \in 0 .. SPC /\ s # SPC
        BY <1>11, <1>15, <2>2, ChainLinks, FatNumbers
      <3>4. /\ v \in IterStates /\ v.open = TRUE /\ v.done = FALSE /\ v.cluster = n /\ v.sector = s
            /\ v.entry = it.entry /\ v.lfn = it.lfn
        BY <1>3, <1>4, <3>3 DEF IterStates
      <3> HIDE DEF v
      <3>5. IterOK(v, names, f_cut[d])
        BY <1>5, <2>2, <3>3, <3>4 DEF IterOK
      <3> QED
        BY <1>3, <2>5, <2>6, <3>1, <3>2, <3>4, <3>5, IterSet DEF ItersOK
    <2> QED
      BY <2>7, <2>8
  <1> QED
    BY <1>14, <1>15

LEMMA FatStarts ==
    ASSUME FatInit
    PROVE  FatInv
  <1> DEFINE shut == [open |-> FALSE, cluster |-> 0, pos |-> 0]
             idle == [open |-> FALSE, cluster |-> 0, sector |-> 0, entry |-> 0, done |-> FALSE, lfn |-> <<>>]
             no == FALSE
             e == <<>>
  <1>1. /\ f_file = [h \in Handles |-> shut] /\ f_wrong = [h \in Handles |-> no] /\ f_failed = [h \in Handles |-> no]
        /\ f_dir = [d \in Iterators |-> idle] /\ f_names = [d \in Iterators |-> e] /\ f_cut = [d \in Iterators |-> no]
        /\ f_call = <<>> /\ f_walk = <<>>
    BY DEF FatInit
  <1>2. CachesOK
    BY DEF FatInit, CachesOK, SecOK
  <1>3. e \in Seq(Nat) /\ e \in Names /\ no \in BOOLEAN /\ 0 \in 0 .. Size /\ no = FALSE
    BY FatNumbers DEF Names
  <1>4. shut \in FileStates /\ shut.open = FALSE
    BY <1>3 DEF FileStates
  <1>5. idle \in IterStates /\ idle.open = FALSE /\ idle.done = FALSE
    BY <1>3 DEF IterStates
  <1> HIDE DEF shut, idle, no
  <1>6. FileOK(shut, no, no)
    BY <1>3, <1>4 DEF FileOK
  <1>7. IterOK(idle, e, no)
    BY <1>5 DEF IterOK
  <1> HIDE DEF e
  <1>8. FilesTyped(f_file, f_failed, f_wrong)
    BY <1>1, <1>3, <1>4, <1>6 DEF FilesTyped
  <1>9. ItersTyped(f_dir, f_names, f_cut)
    BY <1>1, <1>3, <1>5, <1>7 DEF ItersTyped
  <1>10. FilesOK
    BY <1>1, <1>8, NobodyIn DEF FilesOK
  <1> QED
    BY <1>2, <1>9, <1>10 DEF FatInv, ItersOK

LEMMA FatKept ==
    ASSUME FatInv, [FatNext]_fatVars
    PROVE  FatInv'
  <1>1. CachesOK /\ FilesOK /\ ItersOK
    BY DEF FatInv
  <1>2. ASSUME UNCHANGED cacheVars PROVE CachesOK'
    BY <1>1, <1>2 DEF cacheVars, CachesOK
  <1>3. ASSUME UNCHANGED fileVars PROVE FilesOK'
    BY <1>1, <1>3 DEF fileVars, FilesOK
  <1>4. ASSUME UNCHANGED dirVars PROVE ItersOK'
    BY <1>1, <1>4 DEF dirVars, ItersOK
  <1>5. CASE mount_impl
    <2>1. CachesOK'
      BY <1>5 DEF mount_impl, CachesOK, SecOK
    <2> QED
      BY <1>3, <1>4, <1>5, <2>1 DEF mount_impl, FatInv
  <1>6. CASE fat_shell
    BY <1>2, <1>3, <1>4, <1>6 DEF fat_shell, FatInv
  <1>7. CASE seek_hops
    <2>1. UNCHANGED dirVars
      BY <1>7 DEF seek_hops
    <2> QED
      BY <1>1, <1>4, <1>7, <2>1, SeekHopKept DEF FatInv
  <1>8. CASE read_impl
    <2>1. UNCHANGED dirVars
      BY <1>8 DEF read_impl
    <2> QED
      BY <1>1, <1>4, <1>8, <2>1, ReadTurnKept DEF FatInv
  <1>9. ASSUME NEW h \in Handles, open_impl(h) PROVE FatInv'
    <2>1. UNCHANGED <<cacheVars, dirVars>>
      BY <1>9 DEF open_impl
    <2> QED
      BY <1>1, <1>2, <1>4, <1>9, <2>1, OpenKept DEF FatInv
  <1>10. ASSUME NEW h \in Handles, NEW n \in ReadSizes, fat_read(h, n) PROVE FatInv'
    <2>1. UNCHANGED <<cacheVars, dirVars>>
      BY <1>10 DEF fat_read
    <2> QED
      BY <1>1, <1>2, <1>4, <1>10, <2>1, ReadKept DEF FatInv
  <1>11. ASSUME NEW h \in Handles, NEW p \in SeekPositions, seek_impl(h, p) PROVE FatInv'
    <2>1. UNCHANGED <<cacheVars, dirVars>>
      BY <1>11 DEF seek_impl
    <2> QED
      BY <1>1, <1>2, <1>4, <1>11, <2>1, SeekKept DEF FatInv
  <1>12. ASSUME NEW d \in Iterators, dir_open_impl(d) PROVE FatInv'
    <2>1. UNCHANGED <<cacheVars, fileVars>>
      BY <1>12 DEF dir_open_impl
    <2> QED
      BY <1>1, <1>2, <1>3, <1>12, <2>1, DirOpenKept DEF FatInv
  <1>13. ASSUME NEW d \in Iterators, dir_next_impl(d) PROVE FatInv'
    <2>1. UNCHANGED fileVars
      BY <1>13 DEF dir_next_impl
    <2> QED
      BY <1>1, <1>3, <1>13, <2>1, DirNextKept DEF FatInv
  <1>14. CASE UNCHANGED fatVars
    BY <1>2, <1>3, <1>4, <1>14 DEF fatVars, FatInv
  <1> QED
    BY <1>5, <1>6, <1>7, <1>8, <1>9, <1>10, <1>11, <1>12, <1>13, <1>14 DEF FatNext

LEMMA FatHolds ==
    ASSUME FatInv
    PROVE  FilesAreExact
  <1>1. FilesTyped(f_file, f_failed, f_wrong) /\ ItersTyped(f_dir, f_names, f_cut)
    BY DEF FatInv, FilesOK, ItersOK
  <1>2. ReadsInOrder
    <2>1. SUFFICES ASSUME NEW h \in Handles, f_wrong[h] PROVE f_failed[h]
      BY DEF ReadsInOrder
    <2>2. f_wrong[h] \in BOOLEAN /\ f_failed[h] \in BOOLEAN /\ (f_failed[h] = FALSE => f_wrong[h] = FALSE)
      BY <1>1 DEF FilesTyped, FileOK
    <2> QED
      BY <2>1, <2>2
  <1>3. ListingIsExact
    <2>1. SUFFICES ASSUME NEW d \in Iterators
                   PROVE  /\ \E p \in 0 .. Len(Dir) : Lists(f_names[d], Up(p))
                          /\ f_dir[d].done /\ ~f_cut[d] => Lists(f_names[d], Listed)
      BY DEF ListingIsExact, Up
    <2>2. /\ IterOK(f_dir[d], f_names[d], f_cut[d]) /\ f_cut[d] \in BOOLEAN /\ f_dir[d].open \in BOOLEAN
          /\ f_dir[d].done \in BOOLEAN
      BY <1>1 DEF ItersTyped, IterStates
    <2>3. CASE f_dir[d].open = FALSE
      <3>1. f_names[d] = <<>> /\ f_dir[d].done = FALSE /\ 0 \in 0 .. Len(Dir)
        BY <2>2, <2>3, FatNumbers DEF IterOK
      <3> QED
        BY <3>1, NothingYet
    <2>4. CASE f_dir[d].open = TRUE /\ f_dir[d].done = FALSE
      <3>1. \E p : AtEntry(f_names[d], f_dir[d].lfn, p)
        BY <2>2, <2>4 DEF IterOK
      <3> QED
        BY <2>4, <3>1 DEF AtEntry
    <2>5. CASE f_dir[d].open = TRUE /\ f_dir[d].done = TRUE
      BY <2>2, <2>5 DEF IterOK
    <2> QED
      BY <2>2, <2>3, <2>4, <2>5
  <1> QED
    BY <1>2, <1>3 DEF FilesAreExact

\* For every volume whose file and directory lie in cluster chains, any handles and any
\* iterators, reads give back the bytes of the file at their positions and a scan lists
\* the files of the directory, each once and under its own name, whatever block reads
\* fail in between (read_impl, seek_impl and dir_next_impl of fat.c).
THEOREM FilesReadBack == FatSpec => []FilesAreExact
  <1>1. FatInit => FatInv
    BY FatStarts
  <1>2. FatInv /\ [FatNext]_fatVars => FatInv'
    BY FatKept
  <1>3. FatInv => FilesAreExact
    BY FatHolds
  <1> QED
    BY <1>1, <1>2, <1>3, PTL DEF FatSpec

=============================================================================
