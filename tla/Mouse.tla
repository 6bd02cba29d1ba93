------------------------------- MODULE Mouse --------------------------------
(***************************************************************************)
(* The PS/2 mouse driver (drivers/mouse.c): the set-up dialogue, which     *)
(* polls with a timeout and shares the controller's output buffer with the *)
(* keyboard, and then the stream of packets, byte by byte from the         *)
(* interrupt handler through a bounded queue to the main loop.  A full     *)
(* queue drops bytes, so the reader may lose its place in the stream.  The *)
(* queue is the bounded first-in first-out queue that InputRing implements.*)
(*                                                                         *)
(* A byte is modelled by its source, by its place pos in a packet of the   *)
(* device (0 if it is not part of one) and by bit 3, by which the driver   *)
(* takes it for the first byte of a packet.                                *)
(***************************************************************************)
EXTENDS Integers, Sequences

CONSTANTS
    QueueMax,  \* bytes the queue holds: MOUSE_QUEUE_SIZE - 1
    MaxKeys,   \* bound: keyboard bytes that arrive
    MaxLost    \* bound: bytes dropped

VARIABLES
    \* the device and the controller
    kind,      \* of the mouse: "none" if there is none
    plain,     \* no byte of a packet but the first has bit 3
    rates,     \* the last sample rates set
    sends,     \* size of the device's packets; 0 before it reports
    nextPos,   \* place of the next byte it sends
    pending,   \* bytes the device has not passed on
    out,       \* the controller's output buffer and what waits for it
    keys,
    kbd,       \* the configuration asks for the keyboard's interrupt
    irq1,      \* requests that the PIC has latched and the CPU has not taken
    irq12,
    \* the driver
    pc, step,
    size,      \* mouse_packet_size; a wheel is used (mouse_wheel_ready) iff 4
    ready,     \* mouse_ready
    queue,
    lost,      \* mouse_queue_dropped
    packet,    \* mouse_packet, up to mouse_packet_index
    used,      \* places of the bytes last taken for buttons and wheel
    disturbed, \* a wait timed out, or the keyboard answered for the mouse
    stolen     \* history: places of the mouse's bytes that IRQ 1 took

device == <<kind, plain, rates, sends, nextPos>>
irqs   == <<kbd, irq1, irq12, stolen>>
stream == <<queue, lost, packet, used>>
vars == <<device, pending, out, keys, irqs, pc, step, size, ready, stream,
          disturbed>>

Ack    == [src |-> "mouse", what |-> "ack", pos |-> 0, bit3 |-> TRUE]
Id(n)  == [src |-> "mouse", what |-> IF n = 4 THEN "wheel" ELSE "standard",
           pos |-> 0, bit3 |-> FALSE]
Config == [src |-> "controller", what |-> "config", pos |-> 0, bit3 |-> FALSE]
Key    == [src |-> "keyboard", what |-> "key", pos |-> 0, bit3 |-> FALSE]
Data(p, b) == [src |-> "mouse", what |-> "data", pos |-> p, bit3 |-> b]

\* The bytes mouse_init sends to the device
Script == <<"defaults", "rate", "200", "rate", "100", "rate", "80",
            "identify", "report">>
Last == Len(Script)

Init ==
    /\ kind \in {"none", "standard", "wheel"} /\ plain \in BOOLEAN
    /\ rates = <<>> /\ sends = 0 /\ nextPos = 1
    /\ pending = <<>> /\ out = <<>> /\ keys = 0
    /\ kbd = TRUE /\ irq1 = FALSE /\ irq12 = FALSE /\ stolen = <<>>
    /\ pc = "enable" /\ step = 1
    /\ size = 3 /\ ready = FALSE
    /\ queue = <<>> /\ lost = 0 /\ packet = <<>> /\ used = <<>>
    /\ disturbed = FALSE

-----------------------------------------------------------------------------
(* Outside the driver *)

\* The controller asks for IRQ 12 when a byte of the mouse comes to the front of
\* the output buffer and for IRQ 1 when another one does, if the configuration
\* says so.  The PIC keeps a request until the CPU takes it, even if mouse_init
\* has read the byte meanwhile.
Latches(one, twelve) ==
    /\ irq1' = (one \/ (out' # <<>> /\ Head(out').src # "mouse" /\ kbd'))
    /\ irq12' = (twelve \/ (out' # <<>> /\ Head(out').src = "mouse"))

\* A wheel mouse changes its packets after these three rates in a row.
PacketSize(r) == IF kind = "wheel" /\ r = <<"200", "100", "80">> THEN 4 ELSE 3

Latest(r, rate) == LET s == Append(r, rate)
                   IN  IF Len(s) > 3 THEN Tail(s) ELSE s

\* The device, if there is one, gets a byte of the script and answers.
DeviceTakes(cmd) ==
    \/ kind = "none" /\ UNCHANGED <<rates, sends, pending>>
    \/ /\ kind # "none"
       /\ rates' = IF cmd \in {"200", "100", "80"} THEN Latest(rates, cmd)
                   ELSE rates
       /\ sends' = IF cmd = "report" THEN PacketSize(rates) ELSE sends
       /\ pending' = pending \o (IF cmd = "identify"
                                 THEN <<Ack, Id(PacketSize(rates))>> ELSE <<Ack>>)

Deliver ==
    /\ pending # <<>>
    /\ Len(out) < 2
    /\ out' = Append(out, Head(pending))
    /\ pending' = Tail(pending)
    /\ UNCHANGED kbd /\ Latches(irq1, irq12)
    /\ UNCHANGED <<device, keys, pc, step, size, ready, stream, disturbed, stolen>>

\* A key is hit; while mouse_init runs interrupts are off.
KeyHit ==
    /\ keys < MaxKeys
    /\ keys' = keys + 1
    /\ out' = Append(out, Key)
    /\ UNCHANGED kbd /\ Latches(irq1, irq12)
    /\ UNCHANGED <<device, pending, pc, step, size, ready, stream, disturbed,
                   stolen>>

SendData ==
    /\ sends # 0
    /\ pending = <<>>
    /\ \E b \in (IF nextPos = 1 THEN {TRUE} ELSE IF plain THEN {FALSE}
                 ELSE BOOLEAN) : pending' = <<Data(nextPos, b)>>
    /\ nextPos' = IF nextPos = sends THEN 1 ELSE nextPos + 1
    /\ UNCHANGED <<kind, plain, rates, sends, out, keys, irqs, pc, step, size,
                   ready, stream, disturbed>>

-----------------------------------------------------------------------------
(* mouse_init *)

\* mouse_write_controller for the auxiliary port and for the configuration
Enable ==
    /\ pc = "enable"
    /\ out' = Append(out, Config)
    /\ pc' = "config"
    /\ UNCHANGED kbd /\ Latches(irq1, irq12)
    /\ UNCHANGED <<device, pending, keys, step, size, ready, stream,
                   disturbed, stolen>>

\* The configuration is read and written back with the mouse's bits changed.  A
\* byte of the keyboard read in its place decides about the keyboard's interrupt.
ReadConfig ==
    /\ pc = "config"
    /\ out # <<>>
    /\ out' = Tail(out)
    /\ disturbed' = (disturbed \/ Head(out) # Config)
    /\ kbd' \in IF Head(out) = Config THEN {kbd} ELSE BOOLEAN
    /\ Latches(irq1, irq12)
    /\ pc' = "send"
    /\ UNCHANGED <<device, pending, keys, step, size, ready, stream, stolen>>

\* mouse_write_device_command
Send ==
    /\ pc = "send"
    /\ DeviceTakes(Script[step])
    /\ pc' = "ack"
    /\ UNCHANGED <<kind, plain, nextPos, out, keys, irqs, step, size, ready,
                   stream, disturbed>>

\* A step of the dialogue fails: the steps between the first and the last only
\* decide about the wheel.
StepFails ==
    /\ IF step \in {1, Last} THEN pc' = "done" /\ UNCHANGED step
       ELSE pc' = "send" /\ step' = Last
    /\ UNCHANGED <<size, ready>>

\* mouse_expect_ack
ReadAck ==
    /\ pc = "ack"
    /\ out # <<>>
    /\ out' = Tail(out)
    /\ disturbed' = (disturbed \/ Head(out) # Ack)
    /\ IF Head(out).what # "ack" THEN StepFails
       ELSE IF Script[step] = "identify"
       THEN pc' = "id" /\ UNCHANGED <<step, size, ready>>
       ELSE IF step = Last
       THEN pc' = "done" /\ ready' = TRUE /\ UNCHANGED <<step, size>>
       ELSE pc' = "send" /\ step' = step + 1 /\ UNCHANGED <<size, ready>>
    /\ UNCHANGED kbd /\ Latches(irq1, irq12)
    /\ UNCHANGED <<device, pending, keys, stream, stolen>>

\* Mutant: the packet size of a wheel mouse is forgotten.
MutReadIdKeepsSize ==
    /\ pc = "id"
    /\ out # <<>>
    /\ out' = Tail(out)
    /\ disturbed' = (disturbed \/ Head(out).what \notin {"wheel", "standard"})
    /\ pc' = "send" /\ step' = step + 1
    /\ UNCHANGED kbd /\ Latches(irq1, irq12)
    /\ UNCHANGED <<device, pending, keys, size, ready, stream, stolen>>

\* The answer to mouse_identify.  The scan codes of the keys 2 and 3 are the
\* identifiers of mice with a wheel.
ReadId ==
    /\ pc = "id"
    /\ out # <<>>
    /\ out' = Tail(out)
    /\ disturbed' = (disturbed \/ Head(out).what \notin {"wheel", "standard"})
    /\ \/ Head(out).what = "wheel" /\ size' = 4
       \/ Head(out).what = "key" /\ size' = 4
       \/ Head(out).what # "wheel" /\ UNCHANGED size
    /\ pc' = "send" /\ step' = step + 1
    /\ UNCHANGED kbd /\ Latches(irq1, irq12)
    /\ UNCHANGED <<device, pending, keys, ready, stream, stolen>>

\* Mutant: the waits have no timeout.
MutTimesOutNever == FALSE /\ UNCHANGED vars

\* mouse_wait_output_ready or mouse_wait_input_ready gives up.
TimesOut ==
    /\ pc \in {"enable", "config", "send", "ack", "id"}
    /\ pc \in {"config", "ack", "id"} => out = <<>>
    /\ disturbed' = TRUE
    /\ IF pc \in {"enable", "config"}
       THEN pc' = "done" /\ UNCHANGED <<step, size, ready>>
       ELSE StepFails
    /\ UNCHANGED <<device, pending, out, keys, irqs, stream>>

-----------------------------------------------------------------------------
(* After the set-up *)

\* mouse_enqueue_byte
EnqueueByte(b) ==
    IF Len(queue) = QueueMax
    THEN lost < MaxLost /\ lost' = lost + 1 /\ UNCHANGED queue
    ELSE queue' = Append(queue, b) /\ UNCHANGED lost

\* mouse_handle_irq, when mouse_init has unmasked IRQ 12 at its end; IRQ 1 comes
\* first.  The byte at the front may be another one by now, or none.
MouseIrq ==
    /\ ready /\ irq12 /\ ~irq1
    /\ IF out # <<>> /\ Head(out).src = "mouse"
       THEN out' = Tail(out) /\ EnqueueByte(Head(out))
       ELSE UNCHANGED <<out, queue, lost>>
    /\ UNCHANGED kbd /\ Latches(irq1, FALSE)
    /\ UNCHANGED <<device, pending, keys, pc, step, size, ready, packet, used,
                   disturbed, stolen>>

\* irq1_handler_c takes any byte for a scancode.  Interrupts are on only after
\* mouse_init, and by then a request for a byte that mouse_init read may wait.
KeyIrq ==
    /\ pc = "done" /\ irq1
    /\ out' = IF out = <<>> THEN out ELSE Tail(out)
    /\ stolen' = IF out # <<>> /\ Head(out).src = "mouse"
                 THEN Append(stolen, Head(out).pos) ELSE stolen
    /\ UNCHANGED kbd /\ Latches(FALSE, irq12)
    /\ UNCHANGED <<device, pending, keys, pc, step, size, ready, stream,
                   disturbed>>

\* Mutant: bit 3 is not looked at.
MutSkipsNothing(v) == FALSE

\* Where a packet should start, a byte without bit 3 is passed over.
Skips(v) == packet = <<>> /\ ~v.bit3

\* mouse_process_packet takes the buttons from the first byte and the wheel from
\* the last; what scrolling does is in Console.
ProcessPacket(full) == used' = <<full[1], full[Len(full)]>>

\* One round of mouse_drain_pending
Drain ==
    /\ queue # <<>>
    /\ queue' = Tail(queue)
    /\ LET v    == Head(queue)
           full == Append(packet, v.pos)
       IN  IF Skips(v) THEN UNCHANGED <<packet, used>>
           ELSE IF Len(full) >= size
           THEN packet' = <<>> /\ ProcessPacket(full)
           ELSE packet' = full /\ UNCHANGED used
    /\ UNCHANGED <<device, pending, out, keys, irqs, pc, step, size, ready, lost,
                   disturbed>>

MouseInit == Enable \/ ReadConfig \/ Send \/ ReadAck \/ ReadId \/ TimesOut

Next ==
    \/ Deliver \/ KeyHit \/ SendData
    \/ MouseInit
    \/ MouseIrq \/ KeyIrq
    \/ Drain

\* The CPU runs mouse_init and then the main loop, takes the interrupts that the
\* controller raises, and the controller passes on what it gets.  Nobody has to
\* move the mouse or hit a key.
Spec ==
    /\ Init /\ [][Next]_vars
    /\ WF_vars(MouseInit) /\ WF_vars(Drain)
    /\ WF_vars(MouseIrq) /\ WF_vars(KeyIrq) /\ WF_vars(Deliver)

-----------------------------------------------------------------------------
(* Properties *)

\* A set-up in which every wait was answered, and by the mouse, ends with the
\* mouse in use, with the driver and the device agreeing on the size of a
\* packet, and with no answer left that would be read as part of one.
SetupAgrees ==
    pc = "done" /\ ~disturbed =>
        /\ ready
        /\ size = sends
        /\ \A b \in {out[i] : i \in DOMAIN out} \cup
                    {pending[i] : i \in DOMAIN pending} :
              b.src = "mouse" => b.what = "data"

\* After an undisturbed set-up IRQ 1, latched for the configuration byte that
\* mouse_init polled, takes at most the very first byte of the mouse.  If it took
\* none and none was dropped, buttons and wheel are read from the bytes the device
\* meant for them.  After a loss of either kind a packet may be put together from
\* two, but as long as no other byte of a packet has bit 3, every packet still
\* starts with the first byte of one, so that the next one is read properly.
FramingKept ==
    ~disturbed =>
        /\ stolen \in {<<>>, <<1>>}
        /\ lost = 0 /\ stolen = <<>> =>
              /\ packet = [i \in 1 .. Len(packet) |-> i]
              /\ used \in {<<>>, <<1, size>>}
        /\ plain =>
              /\ packet # <<>> => packet[1] = 1
              /\ used # <<>> => used[1] = 1

KeyWaits == \E i \in DOMAIN out : out[i].src = "keyboard"

\* mouse_init ends, whatever answers, and the kernel goes on with its boot; and
\* with the mouse in use a byte of the keyboard behind the mouse's in the
\* controller is taken in the end, whether the queue is full or not, as long as
\* the keyboard's interrupt was not turned off by a key read as configuration.
\* A set-up that gave up and left an answer of the mouse in the controller gives
\* no such promise: the driver never unmasks IRQ 12, and nothing else has to read
\* the byte.
KeyboardServed ==
    /\ pc # "done" ~> pc = "done"
    /\ ready /\ kbd /\ KeyWaits ~> ~KeyWaits
=============================================================================
