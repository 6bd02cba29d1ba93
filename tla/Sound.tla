------------------------------- MODULE Sound -------------------------------
(***************************************************************************)
(* What makes a sound, after the boot that DriverModel models: the beep    *)
(* and melody commands on the PC speaker (drivers/sound.c), the ac97tone   *)
(* command on the controller the audio driver found (drivers/audio.c), and *)
(* the alert of a kernel panic (core/panic.c), which a fault may start at  *)
(* any moment and with interrupts off.                                     *)
(*                                                                         *)
(* All of them wait in loops that poll a clock: the tick counter that      *)
(* IRQ 0 advances, or, with interrupts off, the counter of PIT channel 0   *)
(* itself.  Time advances by quarters of a tick, and only while the CPU    *)
(* has nothing to do but poll: what it does between two waits takes far    *)
(* less.                                                                   *)
(***************************************************************************)
EXTENDS DriverModel

CONSTANTS
    Hz,          \* TIMER_FREQUENCY_HZ: 100
    Word,        \* the tick counter is a uint32_t: 2^32 in the code
    StartTicks,  \* the tick counts considered when a command begins
    BeepMs,      \* length of the beep: 350
    Melody,      \* the notes of sound_play_melody
    Alert,       \* the notes of sound_panic_alert
    ToneMs, MarginMs, GuardMs,  \* of the AC'97 tone: 300, 60, 120
    PlayTimes,   \* quarters of a tick the controller may take for the tone
    MaxHeld      \* bound: quarters counted while something sounds

VARIABLES
    mode,        \* "boot", "prompt", a command, "alert" or "halted"
    interrupts,  \* the interrupt flag
    timer_ticks,
    quarter,     \* quarters of a tick gone since the last one
    speaker,     \* bits 0 and 1 of port 0x61
    dma,         \* the controller's playback: running, and quarters still to play
    notes,       \* the notes still to play, the one at work included
    at,          \* where in the note or in the tone
    wait,        \* the wait under way: on which clock, from when, how much left
    held         \* quarters for which the speaker or the controller has played

soundVars == <<mode, interrupts, timer_ticks, quarter, speaker, dma, notes, at,
               wait, held>>
allVars   == <<vars, soundVars>>

Silent == [running |-> FALSE, left |-> 0]
NoWait == [clock |-> "none", start |-> 0, amount |-> 0]

SInit ==
    /\ Init
    /\ mode = "boot" /\ interrupts = FALSE
    /\ timer_ticks = 0 /\ quarter = 0
    /\ speaker = FALSE /\ dma = Silent
    /\ notes = <<>> /\ at = "idle" /\ wait = NoWait /\ held = 0

\* What virtio_init and audio_init leave: a driver for whose registration there was
\* no memory is missing, and without the first of virtio_init's two also the second.
BootDrivers ==
    \E v \in {<<>>, <<"virtio-pci">>, <<"virtio-pci", "virtio-blk">>},
       a \in {<<>>, <<"audio-pci">>} : drivers = v \o a

\* kernel_main, once its calls of virtio_init, audio_init and pci_init are over:
\* sound_init, timer_init and the sti.
EnterShell ==
    /\ mode = "boot"
    /\ BootDrivers
    /\ stack = <<>>
    /\ scan.slot = Slots
    /\ mode' = "prompt" /\ interrupts' = TRUE
    /\ speaker' = FALSE
    /\ UNCHANGED <<vars, timer_ticks, quarter, dma, notes, at, wait, held>>

-----------------------------------------------------------------------------
(* Time *)

\* Mutant: the division rounds down.
MutWaitTicksDown(ms) == LET t == (ms * Hz) \div 1000 IN IF t = 0 THEN 1 ELSE t

\* audio_duration_to_wait_ticks, and the same in both waits of sound.c
WaitTicks(ms) == LET t == (ms * Hz + 999) \div 1000 IN IF t = 0 THEN 1 ELSE t

\* The arguments of sound_play_note
Notes == [hz : Nat, ms : Nat \ {0}, gap : Nat]

\* The wait is shorter than a turn of the tick counter, and is counted to its end.
Counted(n) == n < Word /\ 4 * n <= MaxHeld

\* Notes have a length, the alert begins with one that is not a rest, and the
\* waits are far below 2^32 ticks.
ASSUME SoundAssumption ==
    /\ {Hz, Word, BeepMs} \subseteq Nat \ {0}
    /\ {ToneMs, MarginMs, GuardMs, MaxHeld} \subseteq Nat
    /\ StartTicks \subseteq 0 .. (Word - 1)
    /\ PlayTimes \subseteq Nat
    /\ Melody \in Seq(Notes)
    /\ Alert \in Seq(Notes) /\ Alert # <<>> /\ Head(Alert).hz # 0
    /\ Counted(WaitTicks(BeepMs))
    /\ \A i \in 1 .. Len(Melody) : Counted(WaitTicks(Melody[i].ms))
    /\ \A i \in 1 .. Len(Alert) : Counted(WaitTicks(Alert[i].ms))
    /\ Counted(WaitTicks(ToneMs + MarginMs) + WaitTicks(GuardMs))

\* sound_wait_ms and audio_wait_ticks read timer_ticks before their loop.
OnTicks(n) == [clock |-> "ticks", start |-> timer_ticks, amount |-> n]

\* sound_wait_noirq_ms counts how often the counter of channel 0 goes up.
OnCount(n) == [clock |-> "count", start |-> 0, amount |-> n]

\* timer_get_ticks() - start_ticks, unsigned
Elapsed == (timer_ticks - wait.start) % Word

\* The loop of the wait ends.
WaitOver ==
    CASE wait.clock = "ticks" -> Elapsed >= wait.amount
      [] wait.clock = "count" -> wait.amount = 0
      [] OTHER                -> TRUE

\* The status bits BCIS, LVBCI and DCH: the buffer is played.
Played == dma.left = 0

Polling == ~WaitOver /\ (at = "guard" => ~Played)

\* A quarter of a tick passes.  Every fourth raises IRQ 0.  In the mode that
\* timer_init programs the counter of channel 0 is reloaded twice a tick.
TimePasses ==
    /\ Polling
    /\ quarter' = (quarter + 1) % 4
    /\ timer_ticks' = IF quarter = 3 /\ interrupts THEN (timer_ticks + 1) % Word
                      ELSE timer_ticks
    /\ wait' = IF wait.clock = "count" /\ quarter \in {1, 3}
               THEN [wait EXCEPT !.amount = @ - 1] ELSE wait
    /\ dma' = IF dma.running /\ dma.left > 0 THEN [dma EXCEPT !.left = @ - 1] ELSE dma
    /\ held' = IF held < MaxHeld THEN held + 1 ELSE held
    /\ UNCHANGED <<vars, mode, interrupts, speaker, notes, at>>

-----------------------------------------------------------------------------
(* The PC speaker *)

\* Mutant: the alert waits for ticks, whether or not they come.
MutNoteWaitTicks(ms) == OnTicks(WaitTicks(ms))

\* The wait of ms for the note at work: sound_play_panic_note chooses the clock
\* by the interrupt flag.
NoteWait(ms) ==
    IF mode = "alert" /\ ~interrupts THEN OnCount(IF ms = 0 THEN 0 ELSE WaitTicks(ms))
    ELSE OnTicks(WaitTicks(ms))

\* sound_play_note, sound_play_note_noirq, sound_beep and sound_play_tone up to
\* the wait; a note of frequency 0 is a rest, and all others are in the range of
\* sound_play_tone.
NoteBegins ==
    /\ at = "note"
    /\ notes # <<>>
    /\ speaker' = (Head(notes).hz # 0)
    /\ wait' = NoteWait(Head(notes).ms)
    /\ at' = "sounding"
    /\ held' = 0
    /\ UNCHANGED <<vars, mode, interrupts, timer_ticks, quarter, dma, notes>>

\* Mutant: the speaker is left on for the gap.
MutNoteEndsOn ==
    /\ at = "sounding"
    /\ WaitOver
    /\ held' = 0
    /\ IF Head(notes).gap # 0
       THEN wait' = NoteWait(Head(notes).gap) /\ at' = "gap" /\ UNCHANGED notes
       ELSE wait' = NoWait /\ at' = "note" /\ notes' = Tail(notes)
    /\ UNCHANGED <<vars, mode, interrupts, timer_ticks, quarter, speaker, dma>>

\* sound_stop after the wait, and the gap that follows the note
NoteEnds ==
    /\ at = "sounding"
    /\ WaitOver
    /\ speaker' = FALSE
    /\ held' = 0
    /\ IF Head(notes).gap # 0
       THEN wait' = NoteWait(Head(notes).gap) /\ at' = "gap" /\ UNCHANGED notes
       ELSE wait' = NoWait /\ at' = "note" /\ notes' = Tail(notes)
    /\ UNCHANGED <<vars, mode, interrupts, timer_ticks, quarter, dma>>

GapEnds ==
    /\ at = "gap"
    /\ WaitOver
    /\ notes' = Tail(notes) /\ at' = "note" /\ wait' = NoWait /\ held' = 0
    /\ UNCHANGED <<vars, mode, interrupts, timer_ticks, quarter, speaker, dma>>

\* After the last note the command returns; the panic turns interrupts off and
\* halts (panic_prepare_screen, panic_halt).
NotesOver ==
    /\ at = "note"
    /\ notes = <<>>
    /\ at' = "idle"
    /\ IF mode = "alert" THEN mode' = "halted" /\ interrupts' = FALSE
       ELSE mode' = "prompt" /\ UNCHANGED interrupts
    /\ UNCHANGED <<vars, timer_ticks, quarter, speaker, dma, notes, wait, held>>

\* A command is typed, after any time at the prompt.
Typed(command) ==
    /\ mode = "prompt"
    /\ mode' = command
    /\ timer_ticks' \in StartTicks
    /\ quarter' \in 0 .. 3
    /\ held' = 0

\* beep, melody, and panic with the alert of kernel_panic_simple
PlayNotes(command, ns) ==
    /\ Typed(command)
    /\ notes' = ns /\ at' = "note" /\ wait' = NoWait
    /\ UNCHANGED <<vars, interrupts, speaker, dma>>

\* A fault or a failed assertion with interrupts off, wherever the CPU is.  One
\* in the middle of an alert is left out.
Fault ==
    /\ mode \notin {"boot", "alert", "halted"}
    /\ mode' = "alert" /\ interrupts' = FALSE
    /\ notes' = Alert /\ at' = "note" /\ wait' = NoWait /\ held' = 0
    /\ UNCHANGED <<vars, timer_ticks, quarter, speaker, dma>>

-----------------------------------------------------------------------------
(* audio_ac97_play_test_tone *)

\* Without a controller the command returns at once.  With one it calls
\* audio_ac97_prepare_pcm_buffer if that was not done: there is memory for both
\* blocks or not.
Ac97Tone ==
    /\ ac97.controller_ready
    /\ Typed("tone")
    /\ \E memory \in BOOLEAN : ac97' = [ac97 EXCEPT !.pcm_ready = @ \/ memory]
    /\ at' = IF ac97'.pcm_ready THEN "reset" ELSE "finish"
    /\ UNCHANGED <<config, registry, block_list, transport_count, logical_count,
                   blk_count, audio_count, pci_count, stack, scan, missed,
                   interrupts, speaker, dma, notes, wait>>

\* audio_ac97_reset_pcm_out: the playback is stopped and reset for a tick.
Reset(next) ==
    /\ dma' = Silent
    /\ wait' = [clock |-> "ticks", start |-> timer_ticks, amount |-> 1]
    /\ at' = next
    /\ held' = 0
    /\ UNCHANGED <<vars, mode, interrupts, timer_ticks, quarter, speaker, notes>>

ToneResets == at = "reset" /\ Reset("start")

\* audio_ac97_start_pcm_out, and the wait of audio_ac97_wait_for_completion
ToneStarts ==
    /\ at = "start"
    /\ WaitOver
    /\ \E t \in PlayTimes : dma' = [running |-> TRUE, left |-> t]
    /\ wait' = OnTicks(WaitTicks(ToneMs + MarginMs))
    /\ at' = "play"
    /\ held' = 0
    /\ UNCHANGED <<vars, mode, interrupts, timer_ticks, quarter, speaker, notes>>

\* Then it polls the status for a while longer.
ToneGuards ==
    /\ at = "play"
    /\ WaitOver
    /\ wait' = OnTicks(WaitTicks(GuardMs))
    /\ at' = "guard"
    /\ UNCHANGED <<vars, mode, interrupts, timer_ticks, quarter, speaker, dma,
                   notes, held>>

ToneStops == at = "guard" /\ (WaitOver \/ Played) /\ Reset("finish")

ToneReturns ==
    /\ at = "finish"
    /\ WaitOver
    /\ mode' = "prompt" /\ at' = "idle" /\ wait' = NoWait
    /\ UNCHANGED <<vars, interrupts, timer_ticks, quarter, speaker, dma, notes, held>>

-----------------------------------------------------------------------------
Typing ==
    \/ PlayNotes("beep", <<[hz |-> 880, ms |-> BeepMs, gap |-> 0]>>)
    \/ PlayNotes("melody", Melody)
    \/ PlayNotes("alert", Alert)
    \/ Ac97Tone

Playing ==
    \/ TimePasses
    \/ NoteBegins \/ NoteEnds \/ GapEnds \/ NotesOver
    \/ ToneResets \/ ToneStarts \/ ToneGuards \/ ToneStops \/ ToneReturns

SNext ==
    \/ mode = "boot" /\ Next /\ UNCHANGED soundVars
    \/ EnterShell
    \/ Typing
    \/ Playing
    \/ Fault

\* Time passes, IRQ 0 comes while interrupts are on, and the CPU goes on.
SSpec == SInit /\ [][SNext]_allVars /\ WF_allVars(Playing)

-----------------------------------------------------------------------------
\* At the prompt and after a panic the speaker is off, and at the prompt no
\* playback of the controller goes on: no command leaves its sound behind, and
\* the alert ends a note that a fault has cut in two.
Quiet ==
    /\ mode \in {"prompt", "halted"} => ~speaker
    /\ mode = "prompt" => ~dma.running

\* A note of ms has sounded for its time, to within a tick: its time in the
\* periods of the clock that it waited on, of which the counter of channel 0 has
\* two a tick.
InTime(ms) ==
    LET speed == IF wait.clock = "count" THEN 2 ELSE 1
        error == 1000 * speed * held - 4 * Hz * ms
    IN  -4000 < error /\ error < 4000

\* Every note sounds as long as it should, also if the tick counter wraps in the
\* middle of it (half as long with interrupts off, where each reload of channel 0
\* passes for a tick), and the controller is stopped only when it has played the tone
\* or has failed to in the time allowed.
SoundsAreWhole ==
    [][/\ speaker /\ ~speaker' => InTime(Head(notes).ms)
       /\ dma.running /\ ~dma'.running /\ mode = "tone" =>
             \/ Played
             \/ held > 4 * (WaitTicks(ToneMs + MarginMs) + WaitTicks(GuardMs) - 1)
      ]_allVars

\* Every command returns to the prompt unless a panic comes in between, and a
\* panic, with interrupts on or off, comes to its halt.
SoundsEnd ==
    /\ mode \in {"beep", "melody", "tone"} ~> mode \in {"prompt", "alert"}
    /\ mode = "alert" ~> mode = "halted"
=============================================================================
