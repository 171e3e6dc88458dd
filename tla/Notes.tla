------------------------------- MODULE Notes --------------------------------
(* Text from a finger: the multi-tap keyboard (keyboard.c) under its two        *)
(* editors, the note pad (notes.c) and the terminal (term.c); the notes saved   *)
(* in flash (messages.c) and the queue of typed characters programs read.        *)
EXTENDS Integers, Sequences, FiniteSets

CONSTANTS
    KB_TEXT_MAX,        \* the keyboard's own field, terminator included
    NOTES_MAX, INPUT_MAX,   \* the editors' texts, terminator included
    MSG_MAX, MSG_LEN,   \* messages kept, characters each
    KEYQ_MAX,           \* characters queued for programs
    MaxTaps             \* bound of the model: keys pressed in all

ASSUME NotesAssumption ==
    /\ {KB_TEXT_MAX, NOTES_MAX, INPUT_MAX, MSG_MAX, MSG_LEN, KEYQ_MAX} \subseteq Nat \ {0}
    /\ MaxTaps \in Nat

\* Letter keys, and the letters of each, in tap order.
LetterKeys == {1, 2}
Letters    == 0 .. 1
NOKEY      == 0
UNLOADABLE == <<<<>>>>     \* flash erased: no note is empty

VARIABLES
    e_view,             \* compose, inbox, terminal
    k_len, k_live, k_index, k_settled,      \* keyboard.c; NOKEY: nothing live
    n_text,             \* the note being written
    i_text,             \* the terminal's input line
    g_store,            \* messages.c: the record in memory
    n_flash,            \* the record a boot would load
    k_queue,            \* characters programs have not read
    h_text, h_key,      \* history: the note as its writer meant it, the key last tapped
    h_saved,            \* history: the notes reported saved, newest MSG_MAX of them
    h_full, h_lost,     \* history: a text or the keyboard was full; a save failed
    h_taps

kbVars    == <<k_len, k_live, k_index, k_settled>>
noteVars  == <<e_view, kbVars, n_text, i_text, g_store, n_flash, k_queue, h_text, h_key,
               h_saved, h_full, h_lost, h_taps>>

NotesInit ==
    /\ e_view = "compose" /\ k_len = 0 /\ k_live = NOKEY /\ k_index = 0 /\ k_settled = <<>>
    /\ n_text = <<>> /\ i_text = <<>> /\ g_store = <<>> /\ n_flash = <<>> /\ k_queue = <<>>
    /\ h_text = <<>> /\ h_key = NOKEY /\ h_saved = <<>> /\ h_full = FALSE /\ h_lost = FALSE
    /\ h_taps = 0

-----------------------------------------------------------------------------
(* keyboard.c *)

Settled == IF k_live # NOKEY /\ k_len > 0 THEN <<<<k_live, k_index>>>> ELSE k_settled

\* A letter key: cycle the live one, or settle it and begin another.
keyboard_letter(k) ==
    /\ k_live' = IF k = k_live \/ k_len + 1 < KB_TEXT_MAX THEN k ELSE NOKEY
    /\ IF k = k_live
       THEN k_index' = (k_index + 1) % Cardinality(Letters) /\ UNCHANGED <<k_len, k_settled>>
       ELSE /\ k_settled' = Settled
            /\ IF k_len + 1 < KB_TEXT_MAX
               THEN k_len' = k_len + 1 /\ k_index' = 0
               ELSE UNCHANGED <<k_len, k_index>>
Action(k) ==
    CASE k = k_live -> "replace" [] k # k_live /\ k_len + 1 < KB_TEXT_MAX -> "append"
      [] OTHER -> "none"

\* end_cycle: nothing is live any more; what a delivered character goes to.
end_cycle(settled) == k_live' = NOKEY /\ k_settled' = settled /\ UNCHANGED k_index

\* Mutant: a live key survives the change of view.
keyboard_reset_live == k_len' = 0 /\ UNCHANGED <<k_live, k_index, k_settled>>

keyboard_reset == k_len' = 0 /\ k_live' = NOKEY /\ UNCHANGED <<k_index, k_settled>>

\* What an editor with room for max characters makes of a key press.
Edited(text, k, max) ==
    LET ch == <<k, k_index'>>
        n  == Len(text)
    IN  CASE Action(k) = "append" /\ n + 1 < max -> Append(text, ch)
          [] Action(k) = "replace" /\ n > 0      -> [text EXCEPT ![n] = ch]
          [] OTHER                               -> text
Shorter(text) == IF text = <<>> THEN text ELSE SubSeq(text, 1, Len(text) - 1)

\* What the writer of the note meant: the same key again means the next letter.
Meant(k) ==
    IF k = h_key /\ h_text # <<>>
    THEN [h_text EXCEPT ![Len(h_text)] = <<k, (@[2] + 1) % Cardinality(Letters)>>]
    ELSE IF Len(h_text) + 1 < NOTES_MAX THEN Append(h_text, <<k, 0>>) ELSE h_text

-----------------------------------------------------------------------------
(* The note pad *)

Tapping == h_taps < MaxTaps /\ h_taps' = h_taps + 1
NotePad == e_view \in {"compose", "inbox"}

\* While reading, a letter is not an edit.
NotesLetter(k) ==
    /\ NotePad /\ Tapping /\ keyboard_letter(k)
    /\ IF e_view = "compose"
       THEN /\ n_text' = Edited(n_text, k, NOTES_MAX)
            /\ h_text' = Meant(k) /\ h_key' = k
            /\ h_full' = (h_full \/ k_len + 1 >= KB_TEXT_MAX \/ Len(n_text) + 1 >= NOTES_MAX)
       ELSE UNCHANGED <<n_text, h_text, h_key, h_full>>
    /\ UNCHANGED <<e_view, i_text, g_store, n_flash, k_queue, h_saved, h_lost>>

NotesBackspace ==
    /\ NotePad /\ Tapping
    /\ end_cycle(k_settled) /\ k_len' = IF k_len > 0 THEN k_len - 1 ELSE 0
    /\ n_text' = Shorter(n_text) /\ h_text' = Shorter(h_text) /\ h_key' = NOKEY
    /\ UNCHANGED <<e_view, i_text, g_store, n_flash, k_queue, h_saved, h_full, h_lost>>

\* The record with one more message: the oldest goes when it is full.
Newest(list) == IF Len(list) > MSG_MAX THEN Tail(list) ELSE list
Clip(text) == SubSeq(text, 1, IF Len(text) < MSG_LEN THEN Len(text) ELSE MSG_LEN)

\* Erase, write: either may fail, and the count is put back; the slide is not.
msg_save(text) ==
    LET full == Newest(Append(g_store, Clip(text)))
    IN  \/ /\ g_store' = full /\ n_flash' = full
           /\ h_saved' = Newest(Append(h_saved, Clip(text)))
           /\ n_text' = <<>> /\ h_text' = <<>> /\ UNCHANGED h_lost
        \/ /\ g_store' = SubSeq(full, 1, Len(full) - 1)
           /\ n_flash' \in {n_flash, UNLOADABLE}
           /\ h_lost' = TRUE /\ UNCHANGED <<h_saved, n_text, h_text>>

NotesSubmit ==
    /\ NotePad /\ Tapping
    /\ end_cycle(Settled) /\ UNCHANGED k_len /\ h_key' = NOKEY
    /\ IF n_text = <<>>
       THEN UNCHANGED <<g_store, n_flash, n_text, h_text, h_saved, h_lost>>
       ELSE msg_save(n_text)
    /\ UNCHANGED <<e_view, i_text, k_queue, h_full>>

\* A tap on the header swaps writing and reading and ends any live cycle.
NotesHeader ==
    /\ NotePad /\ Tapping /\ keyboard_reset
    /\ e_view' = IF e_view = "compose" THEN "inbox" ELSE "compose"
    /\ h_key' = NOKEY
    /\ UNCHANGED <<n_text, i_text, g_store, n_flash, k_queue, h_text, h_saved, h_full, h_lost>>

\* Power is lost and comes back: what was not saved is gone.
msg_load ==
    /\ h_taps < MaxTaps
    /\ e_view' = "compose" /\ k_len' = 0 /\ k_live' = NOKEY /\ k_index' = 0 /\ k_settled' = <<>>
    /\ n_text' = <<>> /\ i_text' = <<>> /\ k_queue' = <<>> /\ h_text' = <<>> /\ h_key' = NOKEY
    /\ h_full' = FALSE
    /\ g_store' = IF n_flash = UNLOADABLE THEN <<>> ELSE n_flash
    /\ UNCHANGED <<n_flash, h_saved, h_lost, h_taps>>

-----------------------------------------------------------------------------
(* The terminal *)

\* keyq_push: the oldest character goes when the queue is full.
Pushed(settled) ==
    LET q == k_queue \o settled
    IN  IF Len(q) > KEYQ_MAX THEN Tail(q) ELSE q

TermLetter(k) ==
    /\ e_view = "terminal" /\ Tapping
    /\ k_live' = IF k = k_live \/ k_len + 1 < KB_TEXT_MAX THEN k ELSE NOKEY
    /\ k_index' = CASE Action(k) = "replace" -> (k_index + 1) % Cardinality(Letters)
                    [] Action(k) = "append"  -> 0
                    [] OTHER                 -> k_index
    /\ i_text' = Edited(i_text, k, INPUT_MAX)
    /\ k_len' = IF Action(k) = "append" THEN k_len + 1 ELSE k_len
    /\ CASE Action(k) = "none"    -> k_settled' = Settled /\ UNCHANGED k_queue
         [] Action(k) = "append"  -> k_settled' = <<>> /\ k_queue' = Pushed(Settled)
         [] Action(k) = "replace" -> k_settled' = <<>> /\ k_queue' = Pushed(k_settled)
    /\ h_key' = k
    /\ UNCHANGED <<e_view, n_text, g_store, n_flash, h_text, h_saved, h_full, h_lost>>

TermBackspace ==
    /\ e_view = "terminal" /\ Tapping
    /\ end_cycle(<<>>) /\ k_len' = IF k_len > 0 THEN k_len - 1 ELSE 0
    /\ k_queue' = Pushed(k_settled) /\ i_text' = Shorter(i_text) /\ h_key' = NOKEY
    /\ UNCHANGED <<e_view, n_text, g_store, n_flash, h_text, h_saved, h_full, h_lost>>

\* The command runs and the line is cleared; the keyboard keeps its own count.
TermSubmit ==
    /\ e_view = "terminal" /\ Tapping
    /\ end_cycle(<<>>) /\ k_queue' = Pushed(Settled) /\ i_text' = <<>> /\ h_key' = NOKEY
    /\ UNCHANGED <<e_view, k_len, n_text, g_store, n_flash, h_text, h_saved, h_full, h_lost>>

term_key_pop ==
    /\ k_queue # <<>> /\ k_queue' = Tail(k_queue)
    /\ UNCHANGED <<e_view, kbVars, n_text, i_text, g_store, n_flash, h_text, h_key, h_saved,
                   h_full, h_lost, h_taps>>

\* The live character settles by itself after CYCLE_TICKS; only the terminal takes it.
keyboard_tick ==
    /\ k_live # NOKEY /\ h_key' = NOKEY
    /\ IF e_view = "terminal"
       THEN end_cycle(<<>>) /\ k_queue' = Pushed(Settled)
       ELSE end_cycle(Settled) /\ UNCHANGED k_queue
    /\ UNCHANGED <<e_view, k_len, n_text, i_text, g_store, n_flash, h_text, h_saved, h_full,
                   h_lost, h_taps>>

\* notes_open, term_open: the other editor takes the keyboard over.
OpenEditor(v) ==
    /\ Tapping /\ e_view' = v /\ keyboard_reset /\ h_key' = NOKEY
    /\ UNCHANGED <<n_text, i_text, g_store, n_flash, k_queue, h_text, h_saved, h_full, h_lost>>

NotesNext ==
    \/ \E k \in LetterKeys : NotesLetter(k) \/ TermLetter(k)
    \/ NotesBackspace \/ NotesSubmit \/ NotesHeader \/ msg_load
    \/ TermBackspace \/ TermSubmit \/ term_key_pop \/ keyboard_tick
    \/ \E v \in {"compose", "terminal"} : OpenEditor(v)

NotesSpec == NotesInit /\ [][NotesNext]_noteVars

-----------------------------------------------------------------------------
\* While neither the note nor the keyboard's own field is full, the note reads as its
\* writer tapped it, whatever views were visited in between (keyboard.c, end_cycle);
\* and unless a save failed, the record in memory and in flash is the newest MSG_MAX
\* notes reported saved, oldest first, across any loss of power (messages.c).
NoteIsKept ==
    /\ ~h_full => n_text = h_text
    /\ ~h_lost => g_store = h_saved /\ n_flash = h_saved

\* A letter key changes a note that has room for it (notes.c: the document "stays here,
\* because a module with a 64-byte field cannot hold it").
RoomIsRoom ==
    [][\A k \in LetterKeys :
        NotesLetter(k) /\ e_view = "compose" /\ Len(n_text) + 1 < NOTES_MAX
            => n_text' # n_text]_noteVars
=============================================================================
