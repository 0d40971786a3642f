------------------------------- MODULE Ps2Input -------------------------------
(***************************************************************************)
(* Keyboard and mouse input after boot: the two interrupt handlers         *)
(* (kernel/src/interrupts.rs), the state they fill (kernel/src/ps2/mouse.rs*)
(* and keyboard.rs) and the main loop that empties it once per frame       *)
(* (kernel/src/main.rs).                                                   *)
(*                                                                         *)
(* The devices, the 8042 with its one-byte output buffer and the PIC are   *)
(* external.  ps2::init polls the 8042 with IRQ 1 and IRQ 12 unmasked, so  *)
(* both requests may still be latched, with no byte behind them, when      *)
(* interrupts are enabled; the handlers test the status register for that. *)
(* The status bit that tells a mouse byte from a keyboard byte is not read.*)
(* The mouse is of a known type: the handler drops the bytes of any other. *)
(***************************************************************************)
EXTENDS Integers, Sequences, SequencesExt

CONSTANTS Keys,                   \* keys of the keyboard
          Buttons, AllButtons,    \* buttons in use; all the mouse has
          Moves,                  \* x movement of one packet
          MOTION_LIMIT,           \* an i16 is less than this (2^15), and at least minus this
          BYTES_NEEDED,           \* packet length of the mouse type (3 or 4)
          KEYBOARD_EVENT_BUFFER,  \* capacity of the event ring (64 in the code)
          EarlyInput,             \* may devices send before stale IRQs are gone?
          MaxKeyActions,          \* bound: key presses and releases
          MaxPackets,             \* bound: mouse packets
          None

ASSUME InputAssumption ==
  /\ Buttons \subseteq AllButtons
  /\ MOTION_LIMIT \in Nat \ {0} /\ Moves \subseteq -MOTION_LIMIT .. MOTION_LIMIT - 1
  /\ BYTES_NEEDED \in {3, 4}
  /\ KEYBOARD_EVENT_BUFFER \in Nat \ {0}
  /\ EarlyInput \in BOOLEAN
  /\ MaxKeyActions \in Nat /\ MaxPackets \in Nat

\* What the devices send.  For history, a byte of the keyboard has the number of
\* presses made so far, and one of the mouse all the movement up to its packet.
KeyState == {"Down", "Up"}
KbdByte == [dev : {"kbd"}, key : Keys, state : KeyState, serial : Nat]
AuxByte == [dev : {"aux"}, part : 1 .. BYTES_NEEDED, held : SUBSET Buttons,
            dx : Moves, total : Int]

ASSUME NoneAssumption == None \notin KbdByte \cup AuxByte

VARIABLES
  \* hardware
  keysDown, held,      \* keys and buttons the user holds
  kbdOut, auxOut,      \* bytes the devices have yet to send
  ob,                  \* the 8042's output buffer
  irq,                 \* latched requests, a subset of {1, 12}
  inService,           \* interrupts without their end-of-interrupt
  settled,             \* stale requests have been taken since boot
  \* CPU
  cpu, intr,           \* "main" or a point of a handler; interrupts enabled
  data,                \* the byte a handler has read
  frame, holder,       \* step of the main loop; lock it holds
  \* Ps2Keyboard
  key_states, events,
  \* Ps2Mouse; packet_bytes holds the packet_state bytes received so far
  packet_bytes, buttons, previous_buttons, x, dx_this_frame,
  overflowed,          \* history: a dx_this_frame has wrapped around
  \* history
  keyActions, presses,  \* key actions made, presses among them
  popped,               \* number of the last press the main loop took
  packets, moved,       \* packets sent, sum of their movement
  turned,               \* movement the camera got
  pushed, clicked       \* per button: times pressed, clicks reported

hwVars == <<keysDown, held, kbdOut, auxOut, settled>>
userHist == <<keyActions, presses, packets, moved, pushed>>
mainHist == <<popped, turned, clicked>>
kbdVars == <<key_states, events>>
mouseVars == <<packet_bytes, buttons, previous_buttons, x, dx_this_frame, overflowed>>
vars == <<hwVars, ob, irq, inService, cpu, intr, data, frame, holder, kbdVars,
          mouseVars, userHist, mainHist>>

Init ==
  /\ keysDown = {} /\ held = {} /\ kbdOut = <<>> /\ auxOut = <<>> /\ ob = None
  /\ irq \in SUBSET {1, 12} /\ inService = {} /\ settled = FALSE
  /\ cpu = "main" /\ intr = FALSE /\ data = None
  /\ frame = "boot" /\ holder = None
  /\ key_states = {} /\ events = <<>>
  /\ packet_bytes = <<>> /\ buttons = {} /\ previous_buttons = {}
  /\ x = 0 /\ dx_this_frame = 0 /\ overflowed = FALSE
  /\ keyActions = 0 /\ presses = 0 /\ popped = 0
  /\ packets = 0 /\ moved = 0 /\ turned = 0
  /\ pushed = [b \in Buttons |-> 0] /\ clicked = [b \in Buttons |-> 0]

-----------------------------------------------------------------------------
(* Devices, 8042 and PIC (external).                                       *)

MaySend == settled \/ EarlyInput

\* A key goes down or up; a press is numbered.
KeyAction(k) ==
  /\ MaySend
  /\ keyActions < MaxKeyActions
  /\ LET state == IF k \in keysDown THEN "Up" ELSE "Down" IN
     /\ keysDown' = IF state = "Down" THEN keysDown \cup {k} ELSE keysDown \ {k}
     /\ presses' = IF state = "Down" THEN presses + 1 ELSE presses
     /\ kbdOut' = Append(kbdOut, [dev |-> "kbd", key |-> k, state |-> state,
                                  serial |-> presses'])
  /\ keyActions' = keyActions + 1
  /\ UNCHANGED <<held, auxOut, settled, ob, irq, inService, cpu, intr, data, frame,
                 holder, kbdVars, mouseVars, packets, moved, pushed, mainHist>>

\* The mouse reports which buttons are held now and how far it moved.
MouseReport(h, d) ==
  /\ MaySend
  /\ packets < MaxPackets
  /\ packets' = packets + 1
  /\ held' = h
  /\ moved' = moved + d
  /\ pushed' = [b \in Buttons |-> pushed[b] + (IF b \in h \ held THEN 1 ELSE 0)]
  /\ auxOut' = auxOut \o [i \in 1 .. BYTES_NEEDED |->
                            [dev |-> "aux", part |-> i, held |-> h, dx |-> d,
                             total |-> moved']]
  /\ UNCHANGED <<keysDown, kbdOut, settled, ob, irq, inService, cpu, intr, data,
                 frame, holder, kbdVars, mouseVars, keyActions, presses, mainHist>>

\* The 8042 takes a byte from a device when its buffer is empty and raises the
\* device's request.
LoadKbd ==
  /\ ob = None /\ kbdOut # <<>>
  /\ ob' = Head(kbdOut) /\ kbdOut' = Tail(kbdOut) /\ irq' = irq \cup {1}
  /\ UNCHANGED <<keysDown, held, auxOut, settled, inService, cpu, intr, data, frame,
                 holder, kbdVars, mouseVars, userHist, mainHist>>

LoadAux ==
  /\ ob = None /\ auxOut # <<>>
  /\ ob' = Head(auxOut) /\ auxOut' = Tail(auxOut) /\ irq' = irq \cup {12}
  /\ UNCHANGED <<keysDown, held, kbdOut, settled, inService, cpu, intr, data, frame,
                 holder, kbdVars, mouseVars, userHist, mainHist>>

\* The stale requests are gone.
Settle ==
  /\ ~settled
  /\ frame # "boot" /\ irq = {} /\ cpu = "main"
  /\ settled' = TRUE
  /\ UNCHANGED <<keysDown, held, kbdOut, auxOut, ob, irq, inService, cpu, intr, data,
                 frame, holder, kbdVars, mouseVars, userHist, mainHist>>

-----------------------------------------------------------------------------
(* Interrupt handlers.  The gate clears the interrupt flag, iret sets it.  *)

\* The PIC delivers the request with the highest priority, IRQ 1 before 12.
Deliver(n, handler) ==
  /\ cpu = "main" /\ intr
  /\ n \in irq /\ inService = {}
  /\ irq' = irq \ {n}
  /\ inService' = {n}
  /\ cpu' = handler
  /\ intr' = FALSE
  /\ UNCHANGED <<hwVars, ob, data, frame, holder, kbdVars, mouseVars, userHist,
                 mainHist>>

KbdInterrupt == Deliver(1, "kbd read")
MouseInterrupt == 1 \notin irq /\ Deliver(12, "mouse read")

EndOfInterrupt(n) == inService' = inService \ {n} /\ cpu' = "main" /\ intr' = TRUE

\* No byte: acknowledge and return.  Otherwise the byte is taken from port
\* 0x60, whichever device it came from.
\* Mutant: the early return forgets to acknowledge.
ReadNoEoi(n, at, next) ==
  /\ cpu = at
  /\ IF ob = None
     THEN cpu' = "main" /\ intr' = TRUE /\ UNCHANGED <<inService, ob, data>>
     ELSE data' = ob /\ ob' = None /\ cpu' = next /\ UNCHANGED <<inService, intr>>
  /\ UNCHANGED <<hwVars, irq, frame, holder, kbdVars, mouseVars, userHist, mainHist>>

Read(n, at, next) ==
  /\ cpu = at
  /\ IF ob = None
     THEN EndOfInterrupt(n) /\ UNCHANGED <<ob, data>>
     ELSE data' = ob /\ ob' = None /\ cpu' = next /\ UNCHANGED <<inService, intr>>
  /\ UNCHANGED <<hwVars, irq, frame, holder, kbdVars, mouseVars, userHist, mainHist>>

KbdRead == Read(1, "kbd read", "kbd handle")
MouseRead == Read(12, "mouse read", "mouse handle")

\* Ps2Keyboard::push_event drops the oldest event of a full ring.
\* Mutant: it drops the newest event.
PushEventRefuse(e) ==
  events' = IF Len(events) = KEYBOARD_EVENT_BUFFER THEN events ELSE Append(events, e)
PushEvent(e) ==
  events' = Append(IF Len(events) = KEYBOARD_EVENT_BUFFER THEN Tail(events) ELSE events, e)

\* Mutant: releases are ignored.
KeyEventDown(k, state, serial) ==
  IF state = "Down"
  THEN key_states' = key_states \cup {k} /\ PushEvent([key |-> k, serial |-> serial])
  ELSE UNCHANGED kbdVars

KeyEvent(k, state, serial) ==
  /\ key_states' = IF state = "Down" THEN key_states \cup {k} ELSE key_states \ {k}
  /\ IF state = "Down" THEN PushEvent([key |-> k, serial |-> serial]) ELSE UNCHANGED events

\* Ps2Keyboard::handle_interrupt.  A mouse byte is decoded as whatever scancode
\* it happens to be, or as none.
KbdHandle ==
  /\ cpu = "kbd handle"
  /\ holder # "keyboard"
  /\ \/ data.dev = "kbd" /\ KeyEvent(data.key, data.state, data.serial)
     \/ data.dev = "aux" /\ \E k \in Keys, state \in KeyState : KeyEvent(k, state, 0)
     \/ data.dev = "aux" /\ UNCHANGED kbdVars
  /\ EndOfInterrupt(1)
  /\ UNCHANGED <<hwVars, ob, irq, data, frame, holder, mouseVars, userHist, mainHist>>

\* The bytes of one packet, in order.
Aligned(bytes) == \A i \in DOMAIN bytes : bytes[i].dev = "aux" /\ bytes[i].part = i

\* MousePacket::from_bytes reads buttons and movement from their places in the
\* packet; out of step it reads some buttons and some movement.
Decodes(bytes, h, d) ==
  Aligned(bytes) => h = bytes[1].held /\ d = bytes[2].dx

\* Mutant: one byte more is waited for.
PacketLate(bytes) == Len(bytes) > BYTES_NEEDED
PacketComplete(bytes) == Len(bytes) >= BYTES_NEEDED

\* i16 arithmetic.  x is the position, of which only the log is told.
InI16(n) == n \in -MOTION_LIMIT .. MOTION_LIMIT - 1
Wrapped(n) ==
  IF n < -MOTION_LIMIT THEN n + 2 * MOTION_LIMIT
  ELSE IF n >= MOTION_LIMIT THEN n - 2 * MOTION_LIMIT ELSE n

\* Mutant: a packet replaces the movement of those before it.
SetMotion(d) == x' = Wrapped(x + d) /\ dx_this_frame' = d /\ UNCHANGED overflowed

AddMotion(d) ==
  /\ x' = Wrapped(x + d)
  /\ dx_this_frame' = Wrapped(dx_this_frame + d)
  /\ overflowed' = (overflowed \/ ~InI16(dx_this_frame + d))

Overflows(d) == ~InI16(x + d) \/ ~InI16(dx_this_frame + d)

\* Ps2Mouse::handle_interrupt.  Sums wrap around, or panic in a build with overflow
\* checks, and no code reads the mouse after that.
MouseHandle ==
  /\ cpu = "mouse handle"
  /\ holder # "mouse"
  /\ LET bytes == Append(packet_bytes, data) IN
     IF ~PacketComplete(bytes)
     THEN /\ packet_bytes' = bytes
          /\ EndOfInterrupt(12)
          /\ UNCHANGED <<buttons, previous_buttons, x, dx_this_frame, overflowed>>
     ELSE \E h \in SUBSET Buttons, d \in Moves :
            /\ Decodes(bytes, h, d)
            /\ packet_bytes' = <<>>
            /\ \/ /\ AddMotion(d)
                  /\ previous_buttons' = buttons
                  /\ buttons' = h
                  /\ EndOfInterrupt(12)
               \/ /\ Overflows(d)
                  /\ cpu' = "panic"
                  /\ UNCHANGED <<buttons, previous_buttons, x, dx_this_frame, overflowed,
                                 inService, intr>>
  /\ UNCHANGED <<hwVars, ob, irq, data, frame, holder, kbdVars, userHist, mainHist>>

\* The panic handler ends in hlt_loop, with interrupts off.
Halted == cpu = "panic" /\ UNCHANGED vars

-----------------------------------------------------------------------------
(* The main loop, one lock at a time.  with_ps2_mouse and with_ps2_keyboard*)
(* disable interrupts, lock, run their closure, unlock and enable again.   *)

EnableInterrupts ==
  /\ frame = "boot" /\ cpu = "main"
  /\ intr' = TRUE
  /\ frame' = "motion"
  /\ UNCHANGED <<hwVars, ob, irq, inService, cpu, data, holder, kbdVars, mouseVars,
                 userHist, mainHist>>

LockOf(step) == IF step \in {"motion", "clicks"} THEN "mouse" ELSE "keyboard"

\* Mutant: the lock alone.
LockOnly ==
  /\ cpu = "main" /\ frame # "boot"
  /\ holder = None
  /\ holder' = LockOf(frame)
  /\ UNCHANGED <<hwVars, ob, irq, inService, cpu, intr, data, frame, kbdVars, mouseVars,
                 userHist, mainHist>>

WithoutInterrupts ==
  /\ cpu = "main" /\ frame # "boot"
  /\ holder = None
  /\ intr' = FALSE
  /\ holder' = LockOf(frame)
  /\ UNCHANGED <<hwVars, ob, irq, inService, cpu, data, frame, kbdVars, mouseVars,
                 userHist, mainHist>>

Leave(step, next) ==
  /\ cpu = "main" /\ frame = step /\ holder = LockOf(step)
  /\ holder' = None
  /\ intr' = TRUE
  /\ frame' = next
  /\ UNCHANGED <<hwVars, ob, irq, inService, cpu, data, key_states, userHist>>

PopDelta ==
  /\ Leave("motion", "clicks")
  /\ turned' = turned + dx_this_frame
  /\ dx_this_frame' = 0
  /\ UNCHANGED <<packet_bytes, buttons, previous_buttons, x, overflowed, events, popped,
                 clicked>>

\* MouseButtons::is_left_down and is_right_down leave out the state in which
\* all three buttons are down.
IsDown(b, h) == b \in h /\ h # AllButtons

PopClicks ==
  /\ Leave("clicks", "events")
  /\ clicked' = [b \in Buttons |->
                   clicked[b] + (IF IsDown(b, buttons) /\ ~IsDown(b, previous_buttons)
                                 THEN 1 ELSE 0)]
  /\ previous_buttons' = buttons
  /\ UNCHANGED <<packet_bytes, buttons, x, dx_this_frame, overflowed, events, popped,
                 turned>>

PopEvents ==
  /\ Leave("events", "motion")
  /\ popped' = IF events = <<>> THEN popped ELSE Last(events).serial
  /\ events' = <<>>
  /\ UNCHANGED <<mouseVars, turned, clicked>>

-----------------------------------------------------------------------------
Handlers ==
  \/ KbdInterrupt \/ MouseInterrupt
  \/ KbdRead \/ MouseRead
  \/ KbdHandle \/ MouseHandle

Main == EnableInterrupts \/ WithoutInterrupts \/ PopDelta \/ PopClicks \/ PopEvents

Hardware == LoadKbd \/ LoadAux \/ Settle

User ==
  \/ \E k \in Keys : KeyAction(k)
  \/ \E h \in SUBSET Buttons, d \in Moves : MouseReport(h, d)

Next == User \/ Hardware \/ Handlers \/ Main \/ Halted

Spec == Init /\ [][Next]_vars

\* The CPU runs, the main loop never blocks, and the devices send what they
\* have; a pending interrupt is only as often enabled as the main loop leaves
\* its critical sections.
FairSpec ==
  /\ Spec
  /\ WF_vars(Hardware)
  /\ WF_vars(Main)
  /\ SF_vars(Handlers)

-----------------------------------------------------------------------------
(* Properties.                                                             *)

\* The bytes of a device that its handler has yet to take in, newest last: the one
\* it has read, the one in the 8042, and those in the device.
Held(dev, handle) == IF cpu = handle /\ data.dev = dev THEN <<data>> ELSE <<>>
Buffered(dev) == IF ob # None /\ ob.dev = dev THEN <<ob>> ELSE <<>>
KbdInFlight == Held("kbd", "kbd handle") \o (Buffered("kbd") \o kbdOut)
AuxInFlight == Held("aux", "mouse handle") \o (Buffered("aux") \o auxOut)

\* The bytes the mouse handler has collected are the first of one packet, in
\* order, and the next to come is the one that follows them: buttons are never
\* read from a movement byte (packet_state in Ps2Mouse::handle_interrupt).
PacketsAligned ==
  /\ Aligned(packet_bytes)
  /\ AuxInFlight # <<>> => AuxInFlight[1].part = Len(packet_bytes) + 1

\* Once every byte about a key has been handled, the handler's view of that key
\* is the user's: no key stays stuck down in key_states.
KeyStatesSettle ==
  \A k \in Keys :
    (\A i \in DOMAIN KbdInFlight : KbdInFlight[i].key # k)
      => (k \in key_states <=> k \in keysDown)

\* The presses handled and not yet drained are in the ring once each, in the
\* order of the presses, up to the newest; only a full ring has lost any, and
\* then the oldest (push_event, pop_event and the drain loop of main.rs).
EventsContiguous ==
  LET newest == IF KbdInFlight = <<>> THEN presses
                ELSE KbdInFlight[1].serial - (IF KbdInFlight[1].state = "Down" THEN 1 ELSE 0)
      n == Len(events)
  IN /\ n <= KEYBOARD_EVENT_BUFFER
     /\ \A i \in 1 .. n : events[i].serial = newest - n + i
     /\ newest - popped = n \/ (newest - popped > n /\ n = KEYBOARD_EVENT_BUFFER)

\* All the movement the mouse reported has turned the camera, waits for the next
\* frame, or is still on its way: none is lost or counted twice when packets
\* arrive between pop_delta and the next frame.  That ends with an overflow: of the
\* i16 that adds up the packets of one frame, or, in a build that panics on it, also
\* of the one that adds up all there ever were.
MotionConserved ==
  cpu # "panic" /\ ~overflowed =>
    turned + dx_this_frame =
      IF AuxInFlight = <<>> THEN moved ELSE AuxInFlight[1].total - AuxInFlight[1].dx

\* A handler never meets a lock the code it interrupted holds: it would spin on
\* the one CPU for ever (with_ps2_mouse, with_ps2_keyboard).
NoSelfDeadlock == cpu # "main" => holder = None

\* With every byte handled and no news pending for pop_clicks, each press of a
\* button has been reported to the game as a click.
EveryClickCounts ==
  AuxInFlight = <<>> /\ previous_buttons = buttons
    => \A b \in Buttons : clicked[b] = pushed[b]

\* A KeyboardEvent stands for a key press the user made.
EventsAreKeyPresses == \A i \in DOMAIN events : events[i].serial # 0

\* Every byte a device sends is handled in the end and what it told reaches the
\* main loop: no request is lost between the 8042, the PIC and the handlers, as long
\* as no sum of movements overflows.
EverythingServed ==
  <>[](cpu = "panic" \/ (/\ KbdInFlight = <<>> /\ AuxInFlight = <<>>
                         /\ moved = turned \/ overflowed))
===============================================================================
