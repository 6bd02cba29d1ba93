------------------------------ MODULE Keyboard ------------------------------
(***************************************************************************)
(* The keyboard, from its keys to what keyboard_process_scancode makes of  *)
(* their scancodes.  Keys are pressed, repeat while held and are released; *)
(* each time the keyboard sends one byte, or the prefix E0 and a byte.     *)
(* IRQ 1 puts the bytes into the ring of InputRing, which drops those that *)
(* find it full: a prefix, the byte after one, a release.                  *)
(*                                                                         *)
(* A scancode is the name of its key and the release bit; the right        *)
(* Control key has the code of the left one, behind the prefix.  What a    *)
(* key does to the command line is in Console.                             *)
(***************************************************************************)
EXTENDS InputRing, FiniteSets

CONSTANTS
    Modifiers,  \* the codes of Control and the two Shift keys
    CapsLock,   \* the code of Caps Lock
    Extended,   \* the codes that also come behind the prefix
    Prefix,     \* KEYBOARD_EXTENDED_SCANCODE_PREFIX
    NoKey,      \* keyboard_last_pressed_scancode = 0
    MaxHeld     \* the most keys down at a time

VARIABLES
    held,       \* the keys that are down
    typematic,  \* the one of them that repeats, if any
    wire,       \* the bytes the keyboard has yet to send

    modifiers_down,           \* keyboard_control_down, keyboard_left_shift_down,
                              \* keyboard_right_shift_down
    caps_lock_on,             \* keyboard_caps_lock_on
    extended_prefix_pending,  \* keyboard_extended_prefix_pending
    last_pressed_scancode,    \* keyboard_last_pressed_scancode

    framed,     \* history: was the last byte the ring took a prefix?
    missed,     \* history: the codes whose last byte was dropped or misread
    caps        \* history: what Caps Lock should be, "unknown" if missed once

keyboard == <<held, typematic, wire>>
decoder  == <<modifiers_down, caps_lock_on, extended_prefix_pending,
              last_pressed_scancode>>
history  == <<framed, missed, caps>>
kvars    == <<vars, keyboard, decoder, history>>

Plain       == Modifiers \cup {CapsLock}
Key(c, ext) == [code |-> c, ext |-> ext]
Keys        == {Key(c, FALSE) : c \in Plain} \cup {Key(c, TRUE) : c \in Extended}
PrefixByte  == [code |-> Prefix, up |-> TRUE]
Scancodes   == [code : Plain \cup Extended, up : BOOLEAN] \cup {PrefixByte}

ASSUME KeyboardAssumption ==
    /\ Byte = Scancodes
    /\ CapsLock \notin Modifiers
    /\ NoKey \notin Plain
    /\ Prefix \notin Plain \cup Extended

KInit ==
    /\ Init
    /\ held = {}
    /\ typematic = {}
    /\ wire = <<>>
    /\ modifiers_down = {}
    /\ caps_lock_on = FALSE
    /\ extended_prefix_pending = FALSE
    /\ last_pressed_scancode = NoKey
    /\ framed = FALSE
    /\ missed = {}
    /\ caps = "off"

-----------------------------------------------------------------------------
(* The keyboard *)

Sent(k, up) ==
    LET last == [byte |-> [code |-> k.code, up |-> up], ext |-> k.ext]
    IN  IF k.ext THEN <<[byte |-> PrefixByte, ext |-> TRUE], last>> ELSE <<last>>

Turned ==
    CASE caps = "off"     -> "on"
      [] caps = "on"      -> "off"
      [] caps = "unknown" -> "unknown"

Press(k) ==
    /\ wire = <<>>
    /\ k \notin held
    /\ Cardinality(held) < MaxHeld
    /\ held' = held \cup {k}
    /\ typematic' = {k}
    /\ wire' = Sent(k, FALSE)
    /\ caps' = IF k = Key(CapsLock, FALSE) THEN Turned ELSE caps
    /\ UNCHANGED <<vars, decoder, framed, missed>>

\* Only the key pressed last repeats, and none does once that one is released.
Repeat ==
    /\ wire = <<>>
    /\ \E k \in typematic : wire' = Sent(k, FALSE)
    /\ UNCHANGED <<vars, held, typematic, decoder, history>>

Release(k) ==
    /\ wire = <<>>
    /\ k \in held
    /\ held' = held \ {k}
    /\ typematic' = typematic \ {k}
    /\ wire' = Sent(k, TRUE)
    /\ UNCHANGED <<vars, decoder, history>>

-----------------------------------------------------------------------------
(* The kernel *)

\* The decoder will read a byte behind the prefix as extended, any other as
\* plain.  A code is missed if its byte was dropped or is read the wrong way,
\* until a byte of it is read the right way.
Note(b) ==
    LET full  == After(head) = tail
        isKey == b.byte # PrefixByte
        wrong == isKey /\ (IF full THEN ~b.ext ELSE framed # b.ext)
        right == isKey /\ ~full /\ ~b.ext /\ ~framed
    IN  /\ framed' = IF full THEN framed ELSE ~isKey
        /\ missed' = IF wrong THEN missed \cup {b.byte.code}
                     ELSE IF right THEN missed \ {b.byte.code} ELSE missed
        /\ caps' = IF wrong /\ b.byte.code = CapsLock THEN "unknown" ELSE caps

\* irq1_handler_c
Irq1 ==
    /\ wire # <<>>
    /\ Enqueue(Head(wire).byte)
    /\ Note(Head(wire))
    /\ wire' = Tail(wire)
    /\ UNCHANGED <<held, typematic, decoder>>

\* Mutant: a release does not end the suppression of repetitions.
MutReleasedKeepsLast(code) ==
    /\ modifiers_down' = modifiers_down \ {code}
    /\ UNCHANGED <<last_pressed_scancode, caps_lock_on>>

\* The branch for the release bit.
Released(code) ==
    /\ modifiers_down' = modifiers_down \ {code}
    /\ last_pressed_scancode' =
         IF code = last_pressed_scancode THEN NoKey ELSE last_pressed_scancode
    /\ UNCHANGED caps_lock_on

\* A modifier goes down again with each repetition; the repetition of another
\* key is left out.
Pressed(code) ==
    /\ modifiers_down' = modifiers_down \cup ({code} \cap Modifiers)
    /\ last_pressed_scancode' = code
    /\ caps_lock_on' = IF code = CapsLock /\ code # last_pressed_scancode
                       THEN ~caps_lock_on
                       ELSE caps_lock_on

\* keyboard_process_scancode
ProcessScancode(b) ==
    \/ /\ b = PrefixByte
       /\ extended_prefix_pending' = TRUE
       /\ UNCHANGED <<modifiers_down, caps_lock_on, last_pressed_scancode>>
    \/ /\ b # PrefixByte
       /\ extended_prefix_pending
       /\ extended_prefix_pending' = FALSE
       /\ UNCHANGED <<modifiers_down, caps_lock_on, last_pressed_scancode>>
    \/ /\ b # PrefixByte
       /\ ~extended_prefix_pending
       /\ IF b.up THEN Released(b.code) ELSE Pressed(b.code)
       /\ UNCHANGED extended_prefix_pending

\* keyboard_drain_pending
DrainPending ==
    /\ Drain
    /\ IF pc = "process" THEN ProcessScancode(taken) ELSE UNCHANGED decoder
    /\ UNCHANGED <<keyboard, history>>

KNext ==
    \/ \E k \in Keys : Press(k) \/ Release(k)
    \/ Repeat
    \/ Irq1
    \/ DrainPending

KSpec == KInit /\ [][KNext]_kvars

\* The main loop drains again and again (Scheduler!KernelComesBack).
KFairSpec == KSpec /\ WF_kvars(DrainPending)

-----------------------------------------------------------------------------
\* All that was sent is decoded.
CaughtUp == wire = <<>> /\ head = tail /\ pc \in {"out", "test"}

\* The ring drops bytes while a command runs; the decoder is wrong about a key
\* only until the next byte of that key comes through.  Whatever was dropped
\* elsewhere, with all bytes decoded and the last byte of key c intact:
\* a modifier is taken for down exactly if it is; if c is up, its next press
\* does not pass for a repetition; if c repeats, its repetitions do; and Caps
\* Lock, if no byte of it was ever lost, has changed once with each press.
LossesHeal ==
    CaughtUp =>
        /\ \A c \in Plain \ missed :
              /\ c \in Modifiers => (c \in modifiers_down <=> Key(c, FALSE) \in held)
              /\ Key(c, FALSE) \notin held => last_pressed_scancode # c
              /\ Key(c, FALSE) \in typematic => last_pressed_scancode = c
        /\ caps # "unknown" => (caps_lock_on <=> caps = "on")
=============================================================================
