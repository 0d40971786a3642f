---------------------------- MODULE Ps2InputProofs ----------------------------
(* Proofs about Ps2Input, for any keys, buttons, packets and event ring, and   *)
(* any number of key actions and packets.                                     *)
EXTENDS Ps2Input, SequenceTheorems, TLAPS

Event == [key : Keys, serial : Nat]
Bytes == KbdByte \cup AuxByte

TypeOK ==
  /\ keysDown \in SUBSET Keys /\ held \in SUBSET Buttons
  /\ kbdOut \in Seq(KbdByte) /\ auxOut \in Seq(AuxByte)
  /\ ob \in {None} \cup Bytes /\ data \in {None} \cup Bytes
  /\ irq \in SUBSET {1, 12} /\ inService \in SUBSET {1, 12}
  /\ cpu \in {"main", "kbd read", "kbd handle", "mouse read", "mouse handle",
             "panic"}
  /\ cpu \in {"kbd handle", "mouse handle"} => data \in Bytes
  /\ frame \in {"boot", "motion", "clicks", "events"}
  /\ key_states \in SUBSET Keys /\ events \in Seq(Event)
  /\ packet_bytes \in Seq(Bytes)
  /\ buttons \in SUBSET Buttons /\ previous_buttons \in SUBSET Buttons
  /\ InI16(x) /\ InI16(dx_this_frame) /\ overflowed \in BOOLEAN
  /\ moved \in Int /\ turned \in Int
  /\ presses \in Nat /\ popped \in Nat

\* Interrupts are taken away before a lock is taken and come back after it is free.
LockInv == intr \/ cpu # "main" \/ frame = "boot" => holder = None

\* Without early input a request stands for the byte in the 8042 once the stale
\* ones are gone, until then there is no byte, and so a handler reads its own device.
RequestInv ==
  /\ settled # TRUE =>
       /\ ob = None /\ kbdOut = <<>> /\ auxOut = <<>>
       /\ cpu \notin {"kbd handle", "mouse handle"}
  /\ settled = TRUE =>
       /\ 1 \in irq \/ cpu = "kbd read" <=> ob \in KbdByte
       /\ 12 \in irq \/ cpu = "mouse read" <=> ob \in AuxByte
  /\ cpu = "kbd read" => 1 \notin irq
  /\ cpu = "mouse read" => 12 \notin irq
  /\ cpu = "kbd handle" => data \in KbdByte
  /\ cpu = "mouse handle" => data \in AuxByte

-----------------------------------------------------------------------------
(* Invariants of the bytes in flight.                                      *)

\* Presses are numbered one by one, and the last byte about a key says whether
\* the user holds it.
KeysInOrder(q) ==
  /\ \A i \in 1 .. Len(q) - 1 :
       q[i + 1].serial = q[i].serial + (IF q[i + 1].state = "Down" THEN 1 ELSE 0)
  /\ q # <<>> => q[Len(q)].serial = presses
  /\ \A i \in 1 .. Len(q) :
       (\A j \in i + 1 .. Len(q) : q[j].key # q[i].key) =>
         (q[i].state = "Down" <=> q[i].key \in keysDown)

KeysInv == KeysInOrder(KbdInFlight) /\ KeyStatesSettle /\ EventsContiguous

\* b is the byte that follows a.
Follows(a, b) ==
  IF a.part < BYTES_NEEDED
  THEN b.part = a.part + 1 /\ b.held = a.held /\ b.dx = a.dx /\ b.total = a.total
  ELSE b.part = 1 /\ b.total - b.dx = a.total

\* Packets come whole and in order, with the totals of their movement.
PacketsInOrder(q) ==
  /\ \A i \in 1 .. Len(q) - 1 : Follows(q[i], q[i + 1])
  /\ q # <<>> => q[Len(q)].part = BYTES_NEEDED /\ q[Len(q)].total = moved

\* What has been received of a packet belongs to the byte to come.
PacketBegun ==
  /\ Len(packet_bytes) < BYTES_NEEDED
  /\ packet_bytes # <<>> => AuxInFlight # <<>>
  /\ \A i \in 1 .. Len(packet_bytes) :
       packet_bytes[i].held = AuxInFlight[1].held /\ packet_bytes[i].dx = AuxInFlight[1].dx

PacketsInv ==
  /\ PacketsInOrder(AuxInFlight) /\ PacketBegun /\ PacketsAligned /\ MotionConserved

IInv ==
  /\ TypeOK /\ LockInv
  /\ ~EarlyInput => RequestInv /\ KeysInv /\ PacketsInv

-----------------------------------------------------------------------------
(* Types.                                                                  *)

LEMMA Motions ==
  /\ MOTION_LIMIT \in Nat /\ MOTION_LIMIT > 0 /\ Moves \subseteq Int
  /\ \A n : InI16(n) => n \in Int
  /\ InI16(0)
  <1>1. MOTION_LIMIT \in Nat /\ MOTION_LIMIT > 0
    BY InputAssumption
  <1>2. -MOTION_LIMIT .. MOTION_LIMIT - 1 \subseteq Int
    BY <1>1
  <1>3. Moves \subseteq Int
    BY <1>2, InputAssumption, Zenon
  <1>4. \A n : InI16(n) => n \in Int
    BY <1>2, Zenon DEF InI16
  <1>5. InI16(0)
    <2>1. -MOTION_LIMIT <= 0 /\ 0 <= MOTION_LIMIT - 1
      BY <1>1
    <2> QED
      BY <1>1, <2>1 DEF InI16
  <1> QED
    BY <1>1, <1>3, <1>4, <1>5

LEMMA TypeInit == Init => TypeOK
  <1> SUFFICES ASSUME Init PROVE TypeOK
    OBVIOUS
  <1>1. InI16(x) /\ InI16(dx_this_frame)
    BY Motions, Zenon DEF Init
  <1>2. /\ keysDown \in SUBSET Keys /\ held \in SUBSET Buttons
        /\ kbdOut \in Seq(KbdByte) /\ auxOut \in Seq(AuxByte)
        /\ irq \in SUBSET {1, 12} /\ inService \in SUBSET {1, 12}
        /\ key_states \in SUBSET Keys /\ events \in Seq(Event)
        /\ packet_bytes \in Seq(Bytes)
        /\ buttons \in SUBSET Buttons /\ previous_buttons \in SUBSET Buttons
        /\ moved \in Int /\ turned \in Int
        /\ presses \in Nat /\ popped \in Nat
    BY DEF Init
  <1>3. overflowed \in BOOLEAN
    BY Zenon DEF Init
  <1>4. /\ ob \in {None} \cup Bytes /\ data \in {None} \cup Bytes
        /\ cpu \in {"main", "kbd read", "kbd handle", "mouse read", "mouse handle", "panic"}
        /\ cpu \notin {"kbd handle", "mouse handle"}
        /\ frame \in {"boot", "motion", "clicks", "events"}
    BY DEF Init
  <1> QED
    BY <1>1, <1>2, <1>3, <1>4, Zenon DEF TypeOK

\* i16 arithmetic stays in i16, and is exact where it does not overflow.
LEMMA WrappedSum ==
  ASSUME NEW n \in Int, InI16(n), NEW d \in Moves
  PROVE  /\ d \in Int /\ InI16(Wrapped(n + d))
         /\ InI16(n + d) => Wrapped(n + d) = n + d
  <1>1. /\ MOTION_LIMIT \in Nat /\ d \in Int
        /\ -MOTION_LIMIT <= d /\ d < MOTION_LIMIT /\ -MOTION_LIMIT <= n /\ n < MOTION_LIMIT
    BY InputAssumption DEF InI16
  <1> QED
    BY <1>1 DEF InI16, Wrapped

\* What push_event leaves in the ring.
LEMMA EventTypes ==
  ASSUME TypeOK, NEW k \in Keys, NEW state \in KeyState, NEW serial \in Nat,
         KeyEvent(k, state, serial)
  PROVE  key_states' \in SUBSET Keys /\ events' \in Seq(Event)
  <1> DEFINE e == [key |-> k, serial |-> serial]
  <1>0. /\ key_states' \in SUBSET Keys /\ events \in Seq(Event)
        /\ state = "Down" => PushEvent(e)
        /\ state # "Down" => events' = events
    BY DEF KeyEvent, TypeOK
  <1>1. e \in Event
    BY DEF Event
  <1> HIDE DEF e
  <1>2. CASE state # "Down"
    BY <1>0, <1>2
  <1>3. CASE state = "Down" /\ Len(events) = KEYBOARD_EVENT_BUFFER
    <2>1. events # <<>>
      BY <1>3, InputAssumption
    <2>2. Tail(events) \in Seq(Event)
      BY <1>0, <2>1, HeadTailProperties
    <2> QED BY <1>0, <1>1, <1>3, <2>2, AppendProperties DEF PushEvent
  <1>4. CASE state = "Down" /\ Len(events) # KEYBOARD_EVENT_BUFFER
    BY <1>0, <1>1, <1>4, AppendProperties DEF PushEvent
  <1> QED BY <1>2, <1>3, <1>4

LEMMA TypeStep == TypeOK /\ [Next]_vars => TypeOK'
  <1> SUFFICES ASSUME TypeOK, [Next]_vars PROVE TypeOK'
    OBVIOUS
  <1> USE InputAssumption, NoneAssumption DEF Bytes
  <1>1. ASSUME NEW k \in Keys, KeyAction(k) PROVE TypeOK'
    <2>0. PICK state \in KeyState :
            /\ keysDown' = IF state = "Down" THEN keysDown \cup {k} ELSE keysDown \ {k}
            /\ presses' = IF state = "Down" THEN presses + 1 ELSE presses
            /\ kbdOut' = Append(kbdOut, [dev |-> "kbd", key |-> k, state |-> state,
                                         serial |-> presses'])
      <3>1. CASE k \in keysDown
        BY <1>1, <3>1 DEF KeyAction, KeyState
      <3>2. CASE k \notin keysDown
        BY <1>1, <3>2 DEF KeyAction, KeyState
      <3> QED BY <3>1, <3>2
    <2>1. presses' \in Nat
      <3>1. presses \in Nat /\ (presses' = presses + 1 \/ presses' = presses)
        BY <2>0 DEF TypeOK
      <3> QED BY <3>1
    <2>2. [dev |-> "kbd", key |-> k, state |-> state, serial |-> presses'] \in KbdByte
      BY <2>1 DEF KbdByte
    <2>3. kbdOut' \in Seq(KbdByte)
      BY <2>0, <2>2, AppendProperties DEF TypeOK
    <2> QED BY <1>1, <2>0, <2>1, <2>3 DEF KeyAction, TypeOK, kbdVars, mouseVars, mainHist
  <1>2. ASSUME NEW h \in SUBSET Buttons, NEW d \in Moves, MouseReport(h, d) PROVE TypeOK'
    <2> DEFINE packet == [i \in 1 .. BYTES_NEEDED |->
                           [dev |-> "aux", part |-> i, held |-> h, dx |-> d, total |-> moved']]
    <2>1. moved' \in Int
      <3>1. d \in Int /\ moved \in Int /\ moved' = moved + d
        BY <1>2, Motions DEF MouseReport, TypeOK
      <3> QED BY <3>1
    <2>2. packet \in Seq(AuxByte)
      <3>1. \A i \in 1 .. BYTES_NEEDED : packet[i] \in AuxByte
        BY <2>1 DEF AuxByte
      <3>2. packet \in [1 .. BYTES_NEEDED -> AuxByte] /\ BYTES_NEEDED \in Nat
        BY <3>1, InputAssumption
      <3> QED BY <3>2, SeqDef
    <2>3. auxOut' = auxOut \o packet
      BY <1>2 DEF MouseReport
    <2>4. auxOut' \in Seq(AuxByte)
      BY <2>2, <2>3, ConcatProperties DEF TypeOK
    <2> QED BY <1>2, <2>1, <2>4 DEF MouseReport, TypeOK, kbdVars, mouseVars, mainHist
  <1>3. CASE LoadKbd
    BY <1>3, HeadTailProperties
    DEF LoadKbd, TypeOK, kbdVars, mouseVars, userHist, mainHist
  <1>4. CASE LoadAux
    BY <1>4, HeadTailProperties
    DEF LoadAux, TypeOK, kbdVars, mouseVars, userHist, mainHist
  <1>5. CASE Settle
    BY <1>5 DEF Settle, TypeOK, kbdVars, mouseVars, userHist, mainHist
  <1>6. CASE KbdInterrupt \/ MouseInterrupt
    BY <1>6 DEF KbdInterrupt, MouseInterrupt, Deliver, TypeOK, hwVars, kbdVars, mouseVars,
                userHist, mainHist
  <1>7. CASE KbdRead \/ MouseRead
    BY <1>7 DEF KbdRead, MouseRead, Read, EndOfInterrupt, TypeOK, hwVars, kbdVars,
                mouseVars, userHist, mainHist
  <1>8. CASE KbdHandle
    <2>1. key_states' \in SUBSET Keys /\ events' \in Seq(Event)
      <3>1. ASSUME data.dev = "kbd", KeyEvent(data.key, data.state, data.serial)
            PROVE  key_states' \in SUBSET Keys /\ events' \in Seq(Event)
        <4>1. data \in KbdByte
          BY <1>8, <3>1 DEF KbdHandle, TypeOK, AuxByte
        <4>2. data.key \in Keys /\ data.state \in KeyState /\ data.serial \in Nat
          BY <4>1 DEF KbdByte
        <4> QED BY <3>1, <4>2, EventTypes
      <3>2. ASSUME NEW k \in Keys, NEW state \in KeyState, KeyEvent(k, state, 0)
            PROVE  key_states' \in SUBSET Keys /\ events' \in Seq(Event)
        BY <3>2, EventTypes
      <3>3. CASE UNCHANGED kbdVars
        BY <3>3 DEF kbdVars, TypeOK
      <3> QED BY <1>8, <3>1, <3>2, <3>3 DEF KbdHandle
    <2> QED BY <1>8, <2>1
            DEF KbdHandle, EndOfInterrupt, TypeOK, hwVars, mouseVars, userHist, mainHist
  <1>9. CASE MouseHandle
    <2>1. Append(packet_bytes, data) \in Seq(Bytes)
      BY <1>9, AppendProperties DEF MouseHandle, TypeOK
    <2>2. /\ packet_bytes' \in Seq(Bytes)
          /\ buttons' \in SUBSET Buttons /\ previous_buttons' \in SUBSET Buttons
          /\ InI16(x') /\ InI16(dx_this_frame') /\ overflowed' \in BOOLEAN
          /\ cpu' \in {"main", "panic"} /\ inService' \in SUBSET {1, 12}
      <3>1. CASE ~PacketComplete(Append(packet_bytes, data))
        BY <1>9, <2>1, <3>1 DEF MouseHandle, EndOfInterrupt, TypeOK
      <3>2. CASE PacketComplete(Append(packet_bytes, data))
        <4>1. PICK h \in SUBSET Buttons, d \in Moves :
                /\ packet_bytes' = <<>>
                /\ \/ /\ AddMotion(d) /\ buttons' = h /\ previous_buttons' = buttons
                      /\ EndOfInterrupt(12)
                   \/ /\ cpu' = "panic"
                      /\ UNCHANGED <<buttons, previous_buttons, x, dx_this_frame, overflowed,
                                     inService, intr>>
          BY <1>9, <3>2, Zenon DEF MouseHandle
        <4>2. packet_bytes' \in Seq(Bytes)
          BY <4>1, EmptySeq
        <4>3. InI16(x) /\ InI16(dx_this_frame) /\ x \in Int /\ dx_this_frame \in Int
          BY Motions DEF TypeOK
        <4>4. InI16(Wrapped(x + d)) /\ InI16(Wrapped(dx_this_frame + d))
          BY <4>3, WrappedSum
        <4>5. CASE AddMotion(d) /\ buttons' = h /\ previous_buttons' = buttons
                   /\ EndOfInterrupt(12)
          BY <4>2, <4>4, <4>5 DEF AddMotion, EndOfInterrupt, TypeOK
        <4>6. CASE cpu' = "panic" /\ UNCHANGED <<buttons, previous_buttons, x,
                                                dx_this_frame, overflowed, inService, intr>>
          BY <4>2, <4>6 DEF TypeOK
        <4> QED BY <4>1, <4>5, <4>6
      <3> QED BY <3>1, <3>2
    <2> QED BY <1>9, <2>2
            DEF MouseHandle, TypeOK, hwVars, kbdVars, userHist, mainHist
  <1>10. CASE EnableInterrupts \/ WithoutInterrupts
    BY <1>10 DEF EnableInterrupts, WithoutInterrupts, LockOf, TypeOK, hwVars, kbdVars,
                 mouseVars, userHist, mainHist
  <1>11. CASE PopDelta \/ PopClicks
    <2>1. InI16(dx_this_frame') /\ turned' \in Int
      <3>1. /\ dx_this_frame \in Int /\ turned \in Int
            /\ InI16(dx_this_frame) /\ InI16(0)
        BY Motions DEF TypeOK
      <3>2. \/ turned' = turned + dx_this_frame /\ dx_this_frame' = 0
            \/ turned' = turned /\ dx_this_frame' = dx_this_frame
        BY <1>11 DEF PopDelta, PopClicks
      <3> QED BY <3>1, <3>2
    <2>2. frame' \in {"boot", "motion", "clicks", "events"}
      BY <1>11 DEF PopDelta, PopClicks, Leave
    <2> QED BY <1>11, <2>1, <2>2 DEF PopDelta, PopClicks, Leave, TypeOK, hwVars, userHist
  <1>12. CASE PopEvents
    <2>1. popped' \in Nat
      <3>1. CASE events = <<>>
        BY <1>12, <3>1 DEF PopEvents, TypeOK
      <3>2. CASE events # <<>>
        <4>1. events \in Seq(Event) /\ Len(events) \in 1 .. Len(events)
          <5>1. events \in Seq(Event)
            BY DEF TypeOK
          <5>2. Len(events) \in Nat /\ Len(events) # 0
            BY <3>2, <5>1, LenProperties, EmptySeq
          <5> QED BY <5>1, <5>2
        <4>2. events[Len(events)] \in Event
          BY <4>1, ElementOfSeq DEF TypeOK
        <4> QED BY <1>12, <3>2, <4>2 DEF PopEvents, Last, Event
      <3> QED BY <3>1, <3>2
    <2> QED BY <1>12, <2>1, EmptySeq DEF PopEvents, Leave, TypeOK, hwVars, mouseVars, userHist
  <1>13. CASE UNCHANGED vars
    BY <1>13 DEF vars, TypeOK, hwVars, kbdVars, mouseVars, userHist, mainHist
  <1> QED BY <1>1, <1>2, <1>3, <1>4, <1>5, <1>6, <1>7, <1>8, <1>9, <1>10, <1>11, <1>12, <1>13
          DEF Next, User, Hardware, Handlers, Main, Halted

-----------------------------------------------------------------------------
(* The locks and the requests.                                             *)

LEMMA LockStep == LockInv /\ [Next]_vars => LockInv'
  <1> SUFFICES ASSUME LockInv, [Next]_vars PROVE LockInv'
    OBVIOUS
  <1> USE DEF LockInv
  <1>1. ASSUME NEW k \in Keys, KeyAction(k) PROVE LockInv'
    BY <1>1 DEF KeyAction
  <1>2. ASSUME NEW h \in SUBSET Buttons, NEW d \in Moves, MouseReport(h, d) PROVE LockInv'
    BY <1>2 DEF MouseReport
  <1>3. CASE Hardware
    BY <1>3 DEF Hardware, LoadKbd, LoadAux, Settle
  <1>4. CASE KbdInterrupt \/ MouseInterrupt
    BY <1>4 DEF KbdInterrupt, MouseInterrupt, Deliver
  <1>5. CASE KbdRead \/ MouseRead
    BY <1>5 DEF KbdRead, MouseRead, Read, EndOfInterrupt
  <1>6. CASE KbdHandle \/ MouseHandle
    BY <1>6 DEF KbdHandle, MouseHandle, EndOfInterrupt
  <1>7. CASE EnableInterrupts \/ WithoutInterrupts
    BY <1>7 DEF EnableInterrupts, WithoutInterrupts
  <1>8. CASE PopDelta \/ PopClicks \/ PopEvents
    BY <1>8 DEF PopDelta, PopClicks, PopEvents, Leave
  <1>9. CASE UNCHANGED vars
    BY <1>9 DEF vars
  <1> QED BY <1>1, <1>2, <1>3, <1>4, <1>5, <1>6, <1>7, <1>8, <1>9
          DEF Next, User, Handlers, Main, Halted

LEMMA ByteKinds ==
  /\ \A b \in KbdByte : b.dev = "kbd" /\ b # None /\ b \notin AuxByte
  /\ \A b \in AuxByte : b.dev = "aux" /\ b # None /\ b \notin KbdByte
  /\ None \notin KbdByte /\ None \notin AuxByte
  <1>1. \A b \in KbdByte : b.dev = "kbd"
    BY DEF KbdByte
  <1>2. \A b \in AuxByte : b.dev = "aux"
    BY DEF AuxByte
  <1> QED BY <1>1, <1>2, NoneAssumption

\* A nonempty sequence and its first element.
LEMMA HeadIn ==
  ASSUME NEW S, NEW q \in Seq(S), q # <<>>
  PROVE  Head(q) \in S /\ Tail(q) \in Seq(S)
  BY HeadTailProperties

LEMMA RequestStep ==
  TypeOK /\ ~EarlyInput /\ RequestInv /\ [Next]_vars => RequestInv'
  <1>0. 1 # 12
    OBVIOUS
  <1> SUFFICES ASSUME TypeOK, ~EarlyInput, RequestInv, [Next]_vars PROVE RequestInv'
    OBVIOUS
  <1> USE DEF RequestInv
  <1>1. ASSUME NEW k \in Keys, KeyAction(k) PROVE RequestInv'
    BY <1>1 DEF KeyAction, MaySend
  <1>2. ASSUME NEW h \in SUBSET Buttons, NEW d \in Moves, MouseReport(h, d)
        PROVE  RequestInv'
    BY <1>2 DEF MouseReport, MaySend
  <1>3. CASE LoadKbd
    <2>1. kbdOut \in Seq(KbdByte)
      BY DEF TypeOK
    <2>2. ob' \in KbdByte
      BY <1>3, <2>1, HeadIn DEF LoadKbd
    <2>3. /\ settled = TRUE /\ 1 \notin irq /\ 12 \notin irq
          /\ cpu # "kbd read" /\ cpu # "mouse read"
      BY <1>3, ByteKinds DEF LoadKbd
    <2>4. /\ settled' = settled /\ 1 \in irq' /\ (12 \in irq' <=> 12 \in irq) /\ cpu' = cpu /\ data' = data
      BY <1>3, <1>0 DEF LoadKbd
    <2> QED BY <2>2, <2>3, <2>4, ByteKinds
  <1>4. CASE LoadAux
    <2>1. auxOut \in Seq(AuxByte)
      BY DEF TypeOK
    <2>2. ob' \in AuxByte
      BY <1>4, <2>1, HeadIn DEF LoadAux
    <2>3. /\ settled = TRUE /\ 1 \notin irq /\ 12 \notin irq
          /\ cpu # "kbd read" /\ cpu # "mouse read"
      BY <1>4, ByteKinds DEF LoadAux
    <2>4. /\ settled' = settled /\ 12 \in irq' /\ (1 \in irq' <=> 1 \in irq) /\ cpu' = cpu /\ data' = data
      BY <1>4, <1>0 DEF LoadAux
    <2> QED BY <2>2, <2>3, <2>4, ByteKinds
  <1>5. CASE Settle
    BY <1>5, ByteKinds DEF Settle
  <1>6. CASE KbdInterrupt \/ MouseInterrupt
    <2>1. /\ cpu = "main" /\ UNCHANGED <<settled, ob, kbdOut, auxOut, data>>
          /\ \/ 1 \in irq /\ irq' = irq \ {1} /\ cpu' = "kbd read"
             \/ 12 \in irq /\ irq' = irq \ {12} /\ cpu' = "mouse read"
      BY <1>6 DEF KbdInterrupt, MouseInterrupt, Deliver, hwVars
    <2>2. /\ irq' = irq \ {1} => 1 \notin irq' /\ (12 \in irq' <=> 12 \in irq)
          /\ irq' = irq \ {12} => 12 \notin irq' /\ (1 \in irq' <=> 1 \in irq)
      BY <1>0
    <2> QED BY <2>1, <2>2
  <1>7. CASE KbdRead \/ MouseRead
    BY <1>7, ByteKinds DEF KbdRead, MouseRead, Read, EndOfInterrupt, hwVars, TypeOK, Bytes
  <1>8. CASE KbdHandle \/ MouseHandle
    BY <1>8 DEF KbdHandle, MouseHandle, EndOfInterrupt, hwVars
  <1>9. CASE UNCHANGED <<settled, ob, kbdOut, auxOut, cpu, irq, data>>
    BY <1>9
  <1>10. CASE EnableInterrupts \/ WithoutInterrupts \/ PopDelta \/ PopClicks
                \/ PopEvents \/ UNCHANGED vars
    BY <1>9, <1>10 DEF EnableInterrupts, WithoutInterrupts, PopDelta, PopClicks,
                       PopEvents, Leave, hwVars, vars
  <1> QED BY <1>1, <1>2, <1>3, <1>4, <1>5, <1>6, <1>7, <1>8, <1>10
          DEF Next, User, Hardware, Handlers, Main, Halted

-----------------------------------------------------------------------------
(* What each step does to the bytes in flight.                             *)

LEMMA Flow ==
  ASSUME NEW S, NEW out \in Seq(S), NEW b \in S
  PROVE  /\ <<>> \o (<<>> \o out) = out
         /\ <<>> \o (<<b>> \o out) = <<b>> \o out
         /\ <<b>> \o (<<>> \o out) = <<b>> \o out
         /\ <<b>> \o out \in Seq(S)
  <1>1. <<b>> \in Seq(S)
    OBVIOUS
  <1>2. <<b>> \o out \in Seq(S)
    BY <1>1, ConcatProperties
  <1>3. <<>> \o out = out /\ <<>> \o (<<b>> \o out) = <<b>> \o out
    BY <1>2, ConcatEmptySeq
  <1> QED BY <1>2, <1>3

LEMMA FirstOfFlow ==
  ASSUME NEW S, NEW q \in Seq(S), NEW b \in S
  PROVE  /\ <<b>> \o q # <<>>
         /\ (<<b>> \o q)[1] = b
         /\ Len(<<b>> \o q) = Len(q) + 1
         /\ \A i \in 1 .. Len(q) : (<<b>> \o q)[i + 1] = q[i]
  <1>1. <<b>> \in Seq(S) /\ Len(<<b>>) = 1 /\ <<b>>[1] = b /\ Len(q) \in Nat
    BY LenProperties
  <1>2. /\ <<b>> \o q \in Seq(S)
        /\ Len(<<b>> \o q) = Len(q) + 1
        /\ \A i \in 1 .. Len(q) + 1 :
             (<<b>> \o q)[i] = IF i <= 1 THEN <<b>>[i] ELSE q[i - 1]
    BY <1>1, ConcatProperties
  <1>3. (<<b>> \o q)[1] = b
    BY <1>1, <1>2
  <1>4. \A i \in 1 .. Len(q) : (<<b>> \o q)[i + 1] = q[i]
    BY <1>1, <1>2
  <1>5. <<b>> \o q # <<>>
    BY <1>1, <1>2, EmptySeq
  <1> QED BY <1>2, <1>3, <1>4, <1>5

LEMMA HeadThenTail ==
  ASSUME NEW S, NEW q \in Seq(S), q # <<>>
  PROVE  <<Head(q)>> \o Tail(q) = q
  <1>1. /\ Head(q) \in S /\ Tail(q) \in Seq(S) /\ Len(Tail(q)) = Len(q) - 1
        /\ \A i \in 1 .. Len(Tail(q)) : Tail(q)[i] = q[i + 1]
    BY HeadTailProperties
  <1>2. Head(q) = q[1] /\ Len(q) \in Nat
    BY LenProperties
  <1> DEFINE r == <<Head(q)>> \o Tail(q)
  <1>3. /\ r \in Seq(S) /\ r[1] = q[1] /\ Len(r) = Len(q)
        /\ \A i \in 1 .. Len(Tail(q)) : r[i + 1] = Tail(q)[i]
    BY <1>1, <1>2, FirstOfFlow, Flow
  <1> HIDE DEF r
  <1>4. ASSUME NEW i \in 1 .. Len(r) PROVE r[i] = q[i]
    <2>1. CASE i = 1
      BY <2>1, <1>3
    <2>2. CASE i # 1
      <3>1. i - 1 \in 1 .. Len(Tail(q)) /\ (i - 1) + 1 = i
        BY <2>2, <1>1, <1>2, <1>3
      <3> QED BY <3>1, <1>1, <1>3
    <2> QED BY <2>1, <2>2
  <1> QED BY <1>3, <1>4, SeqEqual DEF r

\* The byte of a device that its handler holds and the one in the 8042.
FlightShape ==
  /\ Held("kbd", "kbd handle") = IF cpu = "kbd handle" THEN <<data>> ELSE <<>>
  /\ Held("aux", "mouse handle") = IF cpu = "mouse handle" THEN <<data>> ELSE <<>>
  /\ Buffered("kbd") = IF ob \in KbdByte THEN <<ob>> ELSE <<>>
  /\ Buffered("aux") = IF ob \in AuxByte THEN <<ob>> ELSE <<>>
  /\ cpu = "kbd handle" => data \in KbdByte
  /\ cpu = "mouse handle" => data \in AuxByte
  /\ kbdOut \in Seq(KbdByte) /\ auxOut \in Seq(AuxByte)

LEMMA FlightParts == TypeOK /\ RequestInv => FlightShape
  <1> SUFFICES ASSUME TypeOK, RequestInv PROVE FlightShape
    OBVIOUS
  <1>1. /\ ob = None \/ ob \in KbdByte \/ ob \in AuxByte
        /\ cpu = "kbd handle" => data \in KbdByte
        /\ cpu = "mouse handle" => data \in AuxByte
        /\ kbdOut \in Seq(KbdByte) /\ auxOut \in Seq(AuxByte)
    BY DEF TypeOK, RequestInv, Bytes
  <1>2. /\ Held("kbd", "kbd handle") = IF cpu = "kbd handle" THEN <<data>> ELSE <<>>
        /\ Held("aux", "mouse handle") = IF cpu = "mouse handle" THEN <<data>> ELSE <<>>
    BY <1>1, ByteKinds DEF Held
  <1>3. "kbd" # "aux"
    OBVIOUS
  <1>4. /\ Buffered("kbd") = IF ob \in KbdByte THEN <<ob>> ELSE <<>>
        /\ Buffered("aux") = IF ob \in AuxByte THEN <<ob>> ELSE <<>>
    <2>1. CASE ob = None
      BY <2>1, ByteKinds DEF Buffered
    <2>2. CASE ob \in KbdByte
      BY <2>2, <1>3, ByteKinds DEF Buffered
    <2>3. CASE ob \in AuxByte
      BY <2>3, <1>3, ByteKinds DEF Buffered
    <2> QED BY <2>1, <2>2, <2>3, <1>1
  <1> QED BY <1>1, <1>2, <1>4 DEF FlightShape

LEMMA NextFlightParts == TypeOK' /\ RequestInv' => FlightShape'
  BY FlightParts, PTL

FlightType == KbdInFlight \in Seq(KbdByte) /\ AuxInFlight \in Seq(AuxByte)

LEMMA FlightTypes == TypeOK /\ RequestInv => FlightType
  <1> SUFFICES ASSUME FlightShape PROVE FlightType
    BY FlightParts
  <1> USE DEF FlightType
  <1>0. \A S, a : a \in S => <<a>> \in Seq(S) /\ <<>> \in Seq(S)
    OBVIOUS
  <1>1. /\ Held("kbd", "kbd handle") \in Seq(KbdByte)
        /\ Held("aux", "mouse handle") \in Seq(AuxByte)
        /\ Buffered("kbd") \in Seq(KbdByte) /\ Buffered("aux") \in Seq(AuxByte)
    BY <1>0, EmptySeq DEF FlightShape
  <1>2. /\ Buffered("kbd") \o kbdOut \in Seq(KbdByte)
        /\ Buffered("aux") \o auxOut \in Seq(AuxByte)
    BY <1>1, ConcatProperties DEF FlightShape
  <1> QED BY <1>1, <1>2, ConcatProperties DEF KbdInFlight, AuxInFlight

\* A step of one device's side leaves the other's bytes alone.
LEMMA KbdFlightKept ==
  ASSUME TypeOK, RequestInv, TypeOK', RequestInv',
         \/ LoadKbd \/ LoadAux \/ Settle \/ KbdInterrupt \/ MouseInterrupt
         \/ KbdRead \/ MouseRead \/ MouseHandle \/ Main \/ UNCHANGED vars
         \/ \E h \in SUBSET Buttons, d \in Moves : MouseReport(h, d)
  PROVE  KbdInFlight' = KbdInFlight
  <1> DEFINE h == IF cpu = "kbd handle" THEN <<data>> ELSE <<>>
             b == IF ob \in KbdByte THEN <<ob>> ELSE <<>>
  <1>1. KbdInFlight = h \o (b \o kbdOut) /\ KbdInFlight' = h' \o (b' \o kbdOut')
    BY FlightParts, NextFlightParts DEF KbdInFlight, FlightShape
  <1>2. CASE UNCHANGED <<h, b, kbdOut>>
    BY <1>1, <1>2
  <1>3. CASE LoadKbd
    <2>1. kbdOut \in Seq(KbdByte) /\ Head(kbdOut) \in KbdByte /\ Tail(kbdOut) \in Seq(KbdByte)
      BY <1>3, FlightParts, HeadTailProperties DEF FlightShape, LoadKbd
    <2>2. /\ b = <<>> /\ b' = <<Head(kbdOut)>> /\ kbdOut' = Tail(kbdOut) /\ h' = h
          /\ kbdOut # <<>>
      BY <1>3, <2>1, ByteKinds DEF LoadKbd
    <2>3. b \o kbdOut = kbdOut /\ b' \o kbdOut' = kbdOut
      BY <2>1, <2>2, ConcatEmptySeq, HeadThenTail
    <2> QED BY <1>1, <2>2, <2>3
  <1>4. CASE KbdRead /\ ob # None
    <2>1. ob \in KbdByte
      BY <1>4 DEF KbdRead, Read, RequestInv, TypeOK, Bytes
    <2>2. h = <<>> /\ b = <<ob>> /\ h' = <<ob>> /\ b' = <<>> /\ kbdOut' = kbdOut
      BY <1>4, <2>1, ByteKinds DEF KbdRead, Read, hwVars
    <2> QED BY <1>1, <2>1, <2>2, Flow, FlightParts, ZenonT(60) DEF FlightShape
  <1>5. CASE KbdRead /\ ob = None
    BY <1>2, <1>5 DEF KbdRead, Read, EndOfInterrupt, hwVars
  <1>6. CASE LoadAux
    <2>1. ob' \in AuxByte /\ ob = None
      BY <1>6, HeadTailProperties, FlightParts DEF FlightShape, LoadAux
    <2> QED BY <1>2, <1>6, <2>1, ByteKinds DEF LoadAux
  <1>7. CASE MouseRead
    <2>1. ob = None \/ ob \in AuxByte
      BY <1>7 DEF MouseRead, Read, RequestInv, TypeOK, Bytes
    <2> QED BY <1>2, <1>7, <2>1, ByteKinds DEF MouseRead, Read, EndOfInterrupt, hwVars
  <1>8. CASE KbdInterrupt \/ MouseInterrupt \/ MouseHandle
    BY <1>2, <1>8
    DEF KbdInterrupt, MouseInterrupt, Deliver, MouseHandle, EndOfInterrupt, hwVars
  <1>9. CASE UNCHANGED <<cpu, data, ob, kbdOut>>
    BY <1>2, <1>9
  <1>10. CASE Settle \/ Main \/ UNCHANGED vars
    BY <1>9, <1>10
    DEF Settle, Main, EnableInterrupts, WithoutInterrupts, PopDelta, PopClicks, PopEvents,
        Leave, vars, hwVars
  <1>11. ASSUME NEW bs \in SUBSET Buttons, NEW d \in Moves, MouseReport(bs, d)
         PROVE  KbdInFlight' = KbdInFlight
    BY <1>9, <1>11 DEF MouseReport
  <1> QED BY <1>3, <1>4, <1>5, <1>6, <1>7, <1>8, <1>10, <1>11

LEMMA AuxFlightKept ==
  ASSUME TypeOK, RequestInv, TypeOK', RequestInv',
         \/ LoadKbd \/ LoadAux \/ Settle \/ KbdInterrupt \/ MouseInterrupt
         \/ KbdRead \/ MouseRead \/ KbdHandle \/ Main \/ UNCHANGED vars
         \/ \E k \in Keys : KeyAction(k)
  PROVE  AuxInFlight' = AuxInFlight
  <1> DEFINE h == IF cpu = "mouse handle" THEN <<data>> ELSE <<>>
             b == IF ob \in AuxByte THEN <<ob>> ELSE <<>>
  <1>1. AuxInFlight = h \o (b \o auxOut) /\ AuxInFlight' = h' \o (b' \o auxOut')
    BY FlightParts, NextFlightParts DEF AuxInFlight, FlightShape
  <1>2. CASE UNCHANGED <<h, b, auxOut>>
    BY <1>1, <1>2
  <1>3. CASE LoadAux
    <2>1. auxOut \in Seq(AuxByte) /\ Head(auxOut) \in AuxByte /\ Tail(auxOut) \in Seq(AuxByte)
      BY <1>3, FlightParts, HeadTailProperties DEF FlightShape, LoadAux
    <2>2. /\ b = <<>> /\ b' = <<Head(auxOut)>> /\ auxOut' = Tail(auxOut) /\ h' = h
          /\ auxOut # <<>>
      BY <1>3, <2>1, ByteKinds DEF LoadAux
    <2>3. b \o auxOut = auxOut /\ b' \o auxOut' = auxOut
      BY <2>1, <2>2, ConcatEmptySeq, HeadThenTail
    <2> QED BY <1>1, <2>2, <2>3
  <1>4. CASE MouseRead /\ ob # None
    <2>1. ob \in AuxByte
      BY <1>4 DEF MouseRead, Read, RequestInv, TypeOK, Bytes
    <2>2. h = <<>> /\ b = <<ob>> /\ h' = <<ob>> /\ b' = <<>> /\ auxOut' = auxOut
      BY <1>4, <2>1, ByteKinds DEF MouseRead, Read, hwVars
    <2> QED BY <1>1, <2>1, <2>2, Flow, FlightParts, ZenonT(60) DEF FlightShape
  <1>5. CASE MouseRead /\ ob = None
    BY <1>2, <1>5 DEF MouseRead, Read, EndOfInterrupt, hwVars
  <1>6. CASE LoadKbd
    <2>1. ob' \in KbdByte /\ ob = None
      BY <1>6, HeadTailProperties, FlightParts DEF FlightShape, LoadKbd
    <2> QED BY <1>2, <1>6, <2>1, ByteKinds DEF LoadKbd
  <1>7. CASE KbdRead
    <2>1. ob = None \/ ob \in KbdByte
      BY <1>7 DEF KbdRead, Read, RequestInv, TypeOK, Bytes
    <2> QED BY <1>2, <1>7, <2>1, ByteKinds DEF KbdRead, Read, EndOfInterrupt, hwVars
  <1>8. CASE KbdInterrupt \/ MouseInterrupt \/ KbdHandle
    BY <1>2, <1>8
    DEF KbdInterrupt, MouseInterrupt, Deliver, KbdHandle, EndOfInterrupt, hwVars
  <1>9. CASE UNCHANGED <<cpu, data, ob, auxOut>>
    BY <1>2, <1>9
  <1>10. CASE Settle \/ Main \/ UNCHANGED vars
    BY <1>9, <1>10
    DEF Settle, Main, EnableInterrupts, WithoutInterrupts, PopDelta, PopClicks, PopEvents,
        Leave, vars, hwVars
  <1>11. ASSUME NEW k \in Keys, KeyAction(k) PROVE AuxInFlight' = AuxInFlight
    BY <1>9, <1>11 DEF KeyAction
  <1> QED BY <1>3, <1>4, <1>5, <1>6, <1>7, <1>8, <1>10, <1>11

\* A handler takes the first byte of its device.
LEMMA KbdFlightTaken ==
  ASSUME TypeOK, RequestInv, TypeOK', RequestInv', KbdHandle
  PROVE  data \in KbdByte /\ KbdInFlight = <<data>> \o KbdInFlight'
  <1> DEFINE rest == (IF ob \in KbdByte THEN <<ob>> ELSE <<>>) \o kbdOut
  <1>1. /\ Held("kbd", "kbd handle") = <<data>> /\ Held("kbd", "kbd handle")' = <<>>
        /\ data \in KbdByte /\ ob' = ob /\ kbdOut' = kbdOut
    BY FlightParts, NextFlightParts DEF FlightShape, KbdHandle, EndOfInterrupt, hwVars
  <1>2. KbdInFlight = <<data>> \o rest /\ KbdInFlight' = <<>> \o rest
    BY <1>1, FlightParts, NextFlightParts DEF KbdInFlight, FlightShape
  <1>3. rest \in Seq(KbdByte)
    <2>1. (IF ob \in KbdByte THEN <<ob>> ELSE <<>>) \in Seq(KbdByte)
      BY EmptySeq
    <2> QED BY <2>1, FlightParts, ConcatProperties DEF FlightShape
  <1> QED BY <1>1, <1>2, <1>3, ConcatEmptySeq

LEMMA AuxFlightTaken ==
  ASSUME TypeOK, RequestInv, TypeOK', RequestInv', MouseHandle
  PROVE  data \in AuxByte /\ AuxInFlight = <<data>> \o AuxInFlight'
  <1> DEFINE rest == (IF ob \in AuxByte THEN <<ob>> ELSE <<>>) \o auxOut
  <1>1. /\ Held("aux", "mouse handle") = <<data>> /\ Held("aux", "mouse handle")' = <<>>
        /\ data \in AuxByte /\ ob' = ob /\ auxOut' = auxOut
    BY FlightParts, NextFlightParts DEF FlightShape, MouseHandle, EndOfInterrupt, hwVars
  <1>2. AuxInFlight = <<data>> \o rest /\ AuxInFlight' = <<>> \o rest
    BY <1>1, FlightParts, NextFlightParts DEF AuxInFlight, FlightShape
  <1>3. rest \in Seq(AuxByte)
    <2>1. (IF ob \in AuxByte THEN <<ob>> ELSE <<>>) \in Seq(AuxByte)
      BY EmptySeq
    <2> QED BY <2>1, FlightParts, ConcatProperties DEF FlightShape
  <1> QED BY <1>1, <1>2, <1>3, ConcatEmptySeq

\* A device sends.
LEMMA KbdFlightSent ==
  ASSUME TypeOK, RequestInv, TypeOK', RequestInv', NEW k \in Keys, KeyAction(k)
  PROVE  \E b \in KbdByte :
           /\ KbdInFlight' = Append(KbdInFlight, b)
           /\ b.key = k /\ b.serial = presses'
           /\ \/ /\ k \notin keysDown /\ b.state = "Down"
                 /\ keysDown' = keysDown \cup {k} /\ presses' = presses + 1
              \/ /\ k \in keysDown /\ b.state = "Up"
                 /\ keysDown' = keysDown \ {k} /\ presses' = presses
  <1> DEFINE b == [dev |-> "kbd", key |-> k, serial |-> presses',
                   state |-> IF k \in keysDown THEN "Up" ELSE "Down"]
             h == IF cpu = "kbd handle" THEN <<data>> ELSE <<>>
             o == IF ob \in KbdByte THEN <<ob>> ELSE <<>>
  <1>1. b \in KbdByte
    BY DEF KbdByte, KeyState, TypeOK
  <1>2. kbdOut' = Append(kbdOut, b)
    BY DEF KeyAction
  <1>3. /\ KbdInFlight = h \o (o \o kbdOut) /\ KbdInFlight' = h' \o (o' \o kbdOut')
        /\ h' = h /\ o' = o
        /\ h \in Seq(KbdByte) /\ o \in Seq(KbdByte) /\ kbdOut \in Seq(KbdByte)
    <2>1. KbdInFlight = h \o (o \o kbdOut) /\ KbdInFlight' = h' \o (o' \o kbdOut')
      BY FlightParts, NextFlightParts DEF FlightShape, KbdInFlight
    <2>2. h' = h /\ o' = o
      BY DEF KeyAction
    <2>3. h \in Seq(KbdByte) /\ o \in Seq(KbdByte) /\ kbdOut \in Seq(KbdByte)
      <3>1. \A a \in KbdByte : <<a>> \in Seq(KbdByte)
        OBVIOUS
      <3> QED BY <3>1, EmptySeq, FlightParts DEF FlightShape
    <2> QED BY <2>1, <2>2, <2>3
  <1>4. \/ /\ k \notin keysDown /\ b.state = "Down"
           /\ keysDown' = keysDown \cup {k} /\ presses' = presses + 1
        \/ /\ k \in keysDown /\ b.state = "Up"
           /\ keysDown' = keysDown \ {k} /\ presses' = presses
    BY DEF KeyAction
  <1>5. b.key = k /\ b.serial = presses'
    OBVIOUS
  <1> HIDE DEF b, h, o
  <1>6. KbdInFlight' = Append(KbdInFlight, b)
    <2>1. o \o kbdOut \in Seq(KbdByte) /\ h \o (o \o kbdOut) \in Seq(KbdByte)
      BY <1>3, ConcatProperties
    <2>2. <<b>> \in Seq(KbdByte)
      BY <1>1
    <2>3. o \o (kbdOut \o <<b>>) = (o \o kbdOut) \o <<b>>
      BY <1>3, <2>2, ConcatAssociative
    <2>4. h \o ((o \o kbdOut) \o <<b>>) = (h \o (o \o kbdOut)) \o <<b>>
      BY <1>3, <2>1, <2>2, ConcatAssociative
    <2>5. kbdOut' = kbdOut \o <<b>>
      BY <1>1, <1>2, <1>3, AppendIsConcat
    <2>6. Append(h \o (o \o kbdOut), b) = (h \o (o \o kbdOut)) \o <<b>>
      BY <1>1, <2>1, AppendIsConcat
    <2> QED BY <1>3, <2>3, <2>4, <2>5, <2>6
  <1> QED BY <1>1, <1>4, <1>5, <1>6

LEMMA AuxFlightSent ==
  ASSUME TypeOK, RequestInv, TypeOK', RequestInv',
         NEW bs \in SUBSET Buttons, NEW d \in Moves, MouseReport(bs, d)
  PROVE  \E packet \in Seq(AuxByte) :
           /\ AuxInFlight' = AuxInFlight \o packet
           /\ Len(packet) = BYTES_NEEDED
           /\ \A i \in 1 .. BYTES_NEEDED :
                packet[i] = [dev |-> "aux", part |-> i, held |-> bs, dx |-> d,
                             total |-> moved']
  <1> DEFINE packet == [i \in 1 .. BYTES_NEEDED |->
                          [dev |-> "aux", part |-> i, held |-> bs, dx |-> d,
                           total |-> moved']]
             h == IF cpu = "mouse handle" THEN <<data>> ELSE <<>>
             o == IF ob \in AuxByte THEN <<ob>> ELSE <<>>
  <1>1. packet \in Seq(AuxByte) /\ Len(packet) = BYTES_NEEDED
    <2>1. \A i \in 1 .. BYTES_NEEDED : packet[i] \in AuxByte
      BY DEF AuxByte, TypeOK
    <2>2. packet \in [1 .. BYTES_NEEDED -> AuxByte] /\ BYTES_NEEDED \in Nat
      BY <2>1, InputAssumption
    <2>3. packet \in Seq(AuxByte)
      BY <2>2, SeqDef
    <2>4. DOMAIN packet = 1 .. BYTES_NEEDED
      OBVIOUS
    <2> HIDE DEF packet
    <2>5. DOMAIN packet = 1 .. Len(packet) /\ Len(packet) \in Nat
      BY <2>3, LenProperties
    <2> QED BY <2>2, <2>3, <2>4, <2>5
  <1>2. auxOut' = auxOut \o packet
    BY DEF MouseReport
  <1>3. /\ AuxInFlight = h \o (o \o auxOut) /\ AuxInFlight' = h' \o (o' \o auxOut')
        /\ h' = h /\ o' = o
        /\ h \in Seq(AuxByte) /\ o \in Seq(AuxByte) /\ auxOut \in Seq(AuxByte)
    <2>1. AuxInFlight = h \o (o \o auxOut) /\ AuxInFlight' = h' \o (o' \o auxOut')
      BY FlightParts, NextFlightParts DEF FlightShape, AuxInFlight
    <2>2. h' = h /\ o' = o
      BY DEF MouseReport
    <2>3. h \in Seq(AuxByte) /\ o \in Seq(AuxByte) /\ auxOut \in Seq(AuxByte)
      <3>1. \A a \in AuxByte : <<a>> \in Seq(AuxByte)
        OBVIOUS
      <3> QED BY <3>1, EmptySeq, FlightParts DEF FlightShape
    <2> QED BY <2>1, <2>2, <2>3
  <1>4. \A i \in 1 .. BYTES_NEEDED :
          packet[i] = [dev |-> "aux", part |-> i, held |-> bs, dx |-> d, total |-> moved']
    OBVIOUS
  <1> HIDE DEF packet, h, o
  <1>5. o \o auxOut \in Seq(AuxByte)
    BY <1>3, ConcatProperties
  <1>6. AuxInFlight' = AuxInFlight \o packet
    <2>0. packet \in Seq(AuxByte)
      BY <1>1
    <2>1. o \o (auxOut \o packet) = (o \o auxOut) \o packet
      BY <1>3, <2>0, ConcatAssociative, SMTT(30)
    <2>2. h \o ((o \o auxOut) \o packet) = (h \o (o \o auxOut)) \o packet
      BY <1>3, <1>5, <2>0, ConcatAssociative, SMTT(30)
    <2> QED BY <1>2, <1>3, <2>1, <2>2
  <1> QED BY <1>1, <1>4, <1>6

-----------------------------------------------------------------------------
(* The keyboard: the user's keys, the bytes about them, the ring.          *)

\* The number of the newest press handled.
Newest ==
  IF KbdInFlight = <<>> THEN presses
  ELSE KbdInFlight[1].serial - (IF KbdInFlight[1].state = "Down" THEN 1 ELSE 0)

RingHolds(newest) ==
  /\ Len(events) <= KEYBOARD_EVENT_BUFFER
  /\ \A i \in 1 .. Len(events) : events[i].serial = newest - Len(events) + i
  /\ \/ newest - popped = Len(events)
     \/ newest - popped > Len(events) /\ Len(events) = KEYBOARD_EVENT_BUFFER

LEMMA RingIsContiguous == EventsContiguous <=> RingHolds(Newest)
  BY DEF EventsContiguous, RingHolds, Newest

LEMMA NextRingIsContiguous == EventsContiguous' <=> RingHolds(Newest)'
  BY RingIsContiguous, PTL

LEMMA KeysOfKeyAction ==
  ASSUME TypeOK, RequestInv, TypeOK', RequestInv', KeysInv,
         NEW k \in Keys, KeyAction(k)
  PROVE  KeysInv'
  <1> DEFINE q == KbdInFlight
             n == Len(q)
  <1>1. PICK b \in KbdByte :
          /\ q' = Append(q, b)
          /\ b.key = k /\ b.serial = presses'
          /\ \/ /\ k \notin keysDown /\ b.state = "Down"
                /\ keysDown' = keysDown \cup {k} /\ presses' = presses + 1
             \/ /\ k \in keysDown /\ b.state = "Up"
                /\ keysDown' = keysDown \ {k} /\ presses' = presses
    BY KbdFlightSent
  <1>2. /\ q \in Seq(KbdByte) /\ n \in Nat
        /\ q' # <<>> /\ Len(q') = n + 1 /\ q'[n + 1] = b
        /\ \A i \in 1 .. n : q'[i] = q[i]
    BY <1>1, FlightTypes, AppendProperties, LenProperties DEF FlightType
  <1>3. /\ \A i \in 1 .. n - 1 :
             q[i + 1].serial = q[i].serial + (IF q[i + 1].state = "Down" THEN 1 ELSE 0)
        /\ q # <<>> => q[n].serial = presses
        /\ \A i \in 1 .. n :
             (\A j \in i + 1 .. n : q[j].key # q[i].key) =>
               (q[i].state = "Down" <=> q[i].key \in keysDown)
    BY DEF KeysInv, KeysInOrder
  <1>4. DOMAIN q = 1 .. n /\ DOMAIN q' = 1 .. n + 1
    <2>1. q' \in Seq(KbdByte)
      BY <1>1, <1>2, AppendProperties
    <2> QED BY <1>2, <2>1, LenProperties
  <1>5. presses \in Nat /\ (q = <<>> <=> n = 0)
    BY <1>2, EmptySeq DEF TypeOK
  <1> HIDE DEF q, n
  <1>6. /\ \A i \in 1 .. Len(q') - 1 :
             q'[i + 1].serial = q'[i].serial + (IF q'[i + 1].state = "Down" THEN 1 ELSE 0)
        /\ q'[Len(q')].serial = presses'
    <2>1. ASSUME NEW i \in 1 .. n
          PROVE  q'[i + 1].serial = q'[i].serial + (IF q'[i + 1].state = "Down" THEN 1 ELSE 0)
      <3>1. CASE i = n
        <4>1. q'[i] = q[n] /\ q'[i + 1] = b /\ q[n].serial = presses
          BY <1>2, <1>3, <1>5, <3>1
        <4> QED BY <4>1, <1>1, <1>5
      <3>2. CASE i # n
        <4>1. i \in 1 .. n - 1 /\ i + 1 \in 1 .. n
          BY <1>2, <3>2
        <4> QED BY <4>1, <1>2, <1>3
      <3> QED BY <3>1, <3>2
    <2> QED BY <2>1, <1>1, <1>2
  <1>7. ASSUME NEW i \in 1 .. n + 1, \A j \in i + 1 .. n + 1 : q'[j].key # q'[i].key
        PROVE  q'[i].state = "Down" <=> q'[i].key \in keysDown'
    <2>1. CASE i = n + 1
      BY <2>1, <1>1, <1>2
    <2>2. CASE i # n + 1
      <3>1. i \in 1 .. n /\ n + 1 \in i + 1 .. n + 1 /\ q'[i] = q[i]
        BY <2>2, <1>2
      <3>2. q[i].key # k
        BY <3>1, <1>1, <1>2, <1>7
      <3>3. \A j \in i + 1 .. n : q[j].key # q[i].key
        <4>1. ASSUME NEW j \in i + 1 .. n PROVE q[j].key # q[i].key
          <5>1. j \in 1 .. n /\ j \in i + 1 .. n + 1
            BY <1>2, <3>1
          <5> QED BY <5>1, <1>2, <1>7, <3>1
        <4> QED BY <4>1
      <3> QED BY <3>1, <3>2, <3>3, <1>1, <1>3
    <2> QED BY <2>1, <2>2
  <1>8. KeysInOrder(KbdInFlight)'
    BY <1>2, <1>6, <1>7 DEF KeysInOrder, q
  <1>9. KeyStatesSettle'
    <2>1. ASSUME NEW m \in Keys, \A i \in DOMAIN KbdInFlight' : KbdInFlight'[i].key # m
          PROVE  m \in key_states' <=> m \in keysDown'
      <3>1. \A i \in 1 .. n + 1 : q'[i].key # m
        BY <2>1, <1>4 DEF q
      <3>2. n + 1 \in 1 .. n + 1 /\ \A i \in 1 .. n : i \in 1 .. n + 1
        BY <1>2
      <3>3. m # k /\ \A i \in 1 .. n : q[i].key # m
        BY <1>1, <1>2, <3>1, <3>2
      <3>4. m \in key_states <=> m \in keysDown
        BY <3>3, <1>4 DEF KeysInv, KeyStatesSettle, q
      <3>5. key_states' = key_states
        BY DEF KeyAction, kbdVars
      <3> QED BY <1>1, <3>3, <3>4, <3>5
    <2> QED BY <2>1 DEF KeyStatesSettle
  <1>10. EventsContiguous'
    <2>1. Newest' = Newest
      <3>1. CASE q = <<>>
        <4>1. q'[1] = b /\ q' # <<>> /\ Newest = presses
          BY <3>1, <1>2, <1>5 DEF Newest, q
        <4>2. Newest' = b.serial - (IF b.state = "Down" THEN 1 ELSE 0)
          BY <4>1 DEF Newest, q
        <4> QED BY <1>1, <1>5, <4>1, <4>2
      <3>2. CASE q # <<>>
        <4>1. q'[1] = q[1] /\ q' # <<>>
          BY <3>2, <1>2, <1>5
        <4> QED BY <3>2, <4>1 DEF Newest, q
      <3> QED BY <3>1, <3>2
    <2>2. events' = events /\ popped' = popped
      BY DEF KeyAction, kbdVars, mainHist
    <2>3. RingHolds(Newest)
      BY RingIsContiguous DEF KeysInv
    <2>4. RingHolds(Newest)'
      BY <2>1, <2>2, <2>3 DEF RingHolds
    <2> QED BY <2>4, NextRingIsContiguous
  <1> QED BY <1>8, <1>9, <1>10 DEF KeysInv

\* push_event with the next press keeps the ring contiguous.
LEMMA RingPush ==
  ASSUME TypeOK, NEW newest \in Int, RingHolds(newest),
         NEW k \in Keys, NEW s \in Nat, s = newest + 1,
         PushEvent([key |-> k, serial |-> s]), popped' = popped
  PROVE  RingHolds(s)'
  <1> DEFINE e == [key |-> k, serial |-> s]
             full == Len(events) = KEYBOARD_EVENT_BUFFER
  <1>1. /\ events \in Seq(Event) /\ e \in Event /\ Len(events) \in Nat
        /\ popped \in Nat /\ KEYBOARD_EVENT_BUFFER \in Nat \ {0}
    BY InputAssumption, LenProperties DEF TypeOK, Event
  <1>2. e.serial = s
    OBVIOUS
  <1>3. /\ full => events' = Append(Tail(events), e)
        /\ ~full => events' = Append(events, e)
    BY DEF PushEvent
  <1> HIDE DEF e
  <1>4. /\ Len(events) <= KEYBOARD_EVENT_BUFFER
        /\ \A i \in 1 .. Len(events) : events[i].serial = newest - Len(events) + i
        /\ \/ newest - popped = Len(events)
           \/ newest - popped > Len(events) /\ Len(events) = KEYBOARD_EVENT_BUFFER
    BY DEF RingHolds
  <1>5. CASE full
    <2> DEFINE t == Tail(events)
               n == Len(events)
    <2>1. /\ t \in Seq(Event) /\ Len(t) = n - 1
          /\ \A i \in 1 .. Len(t) : t[i] = events[i + 1]
      BY <1>1, <1>5, EmptySeq, HeadTailProperties
    <2>2. /\ Len(events') = n
          /\ \A i \in 1 .. n - 1 : events'[i] = events[i + 1]
          /\ events'[n] = e
      BY <1>1, <1>3, <1>5, <2>1, AppendProperties
    <2>3. n \in Nat \ {0} /\ n = KEYBOARD_EVENT_BUFFER
      BY <1>1, <1>5
    <2>4. \A i \in 1 .. n : events'[i].serial = s - n + i
      <3>1. ASSUME NEW i \in 1 .. n PROVE events'[i].serial = s - n + i
        <4>1. CASE i = n
          BY <4>1, <1>2, <2>2, <2>3
        <4>2. CASE i # n
          <5>1. i \in 1 .. n - 1 /\ i + 1 \in 1 .. n
            BY <4>2, <2>3
          <5>2. events'[i].serial = newest - n + (i + 1)
            BY <5>1, <2>2, <1>4
          <5> QED BY <5>1, <5>2, <2>3
        <4> QED BY <4>1, <4>2
      <3> QED BY <3>1
    <2>5. s - popped > n
      BY <1>1, <1>4, <2>3
    <2> QED BY <2>2, <2>3, <2>4, <2>5 DEF RingHolds
  <1>6. CASE ~full
    <2> DEFINE n == Len(events)
    <2>1. /\ Len(events') = n + 1
          /\ \A i \in 1 .. n : events'[i] = events[i]
          /\ events'[n + 1] = e
      BY <1>1, <1>3, <1>6, AppendProperties
    <2>2. n \in Nat /\ n + 1 <= KEYBOARD_EVENT_BUFFER /\ s - popped = n + 1
      BY <1>1, <1>4, <1>6
    <2>3. \A i \in 1 .. n + 1 : events'[i].serial = s - (n + 1) + i
      <3>1. ASSUME NEW i \in 1 .. n + 1 PROVE events'[i].serial = s - (n + 1) + i
        <4>1. CASE i = n + 1
          BY <4>1, <1>2, <2>1, <2>2
        <4>2. CASE i # n + 1
          <5>1. i \in 1 .. n
            BY <4>2, <2>2
          <5>2. events'[i].serial = newest - n + i
            BY <5>1, <2>1, <1>4
          <5> QED BY <5>1, <5>2, <2>2
        <4> QED BY <4>1, <4>2
      <3> QED BY <3>1
    <2> QED BY <2>1, <2>2, <2>3 DEF RingHolds
  <1> QED BY <1>5, <1>6

LEMMA KeysOfKbdHandle ==
  ASSUME TypeOK, RequestInv, TypeOK', RequestInv', KeysInv, KbdHandle
  PROVE  KeysInv'
  <1> DEFINE r == KbdInFlight'
             n == Len(r)
             q == <<data>> \o r
  <1>1. data \in KbdByte /\ KbdInFlight = q /\ r \in Seq(KbdByte)
    <2>1. FlightType'
      BY FlightTypes, PTL
    <2> QED BY <2>1, KbdFlightTaken DEF FlightType
  <1>2. /\ q # <<>> /\ q[1] = data /\ Len(q) = n + 1 /\ n \in Nat
        /\ \A i \in 1 .. n : q[i + 1] = r[i]
        /\ q \in Seq(KbdByte) /\ (r = <<>> <=> n = 0)
    <2>1. n \in Nat /\ (r = <<>> <=> n = 0) /\ q \in Seq(KbdByte)
      BY <1>1, LenProperties, EmptySeq, Flow
    <2> QED BY <1>1, <2>1, FirstOfFlow
  <1>3. DOMAIN q = 1 .. n + 1 /\ DOMAIN r = 1 .. n
    BY <1>1, <1>2, LenProperties
  <1>4. /\ KeyEvent(data.key, data.state, data.serial)
        /\ UNCHANGED <<keysDown, presses, popped>>
    BY <1>1, ByteKinds DEF KbdHandle, hwVars, userHist, mainHist, KbdByte
  <1>5. KeysInOrder(q)
    BY <1>1 DEF KeysInv
  <1>6. /\ data.key \in Keys /\ data.state \in KeyState /\ data.serial \in Nat
        /\ presses \in Nat
    BY <1>1 DEF KbdByte, TypeOK
  <1> HIDE DEF q, r, n
  <1>7. /\ \A i \in 1 .. n :
             q[i + 1].serial = q[i].serial + (IF q[i + 1].state = "Down" THEN 1 ELSE 0)
        /\ q[n + 1].serial = presses
        /\ \A i \in 1 .. n + 1 :
             (\A j \in i + 1 .. n + 1 : q[j].key # q[i].key) =>
               (q[i].state = "Down" <=> q[i].key \in keysDown)
    <2>1. Len(q) = n + 1 /\ (n + 1) - 1 = n /\ q # <<>>
      BY <1>2
    <2> QED BY <1>5, <2>1 DEF KeysInOrder
  <1>8. KeysInOrder(KbdInFlight)'
    <2>1. \A i \in 1 .. Len(r) - 1 :
            r[i + 1].serial = r[i].serial + (IF r[i + 1].state = "Down" THEN 1 ELSE 0)
      <3>1. ASSUME NEW i \in 1 .. n - 1
            PROVE  r[i + 1].serial = r[i].serial + (IF r[i + 1].state = "Down" THEN 1 ELSE 0)
        <4>1. i + 1 \in 1 .. n /\ i \in 1 .. n
          BY <1>2
        <4>2. r[i + 1] = q[(i + 1) + 1] /\ r[i] = q[i + 1]
          BY <4>1, <1>2
        <4> QED BY <4>1, <4>2, <1>7
      <3> QED BY <3>1 DEF n
    <2>2. r # <<>> => r[Len(r)].serial = presses'
      <3>1. ASSUME r # <<>> PROVE r[n].serial = presses
        <4>1. n \in 1 .. n
          BY <3>1, <1>2
        <4> QED BY <4>1, <1>2, <1>7
      <3> QED BY <3>1, <1>4 DEF n
    <2>3. \A i \in 1 .. Len(r) :
            (\A j \in i + 1 .. Len(r) : r[j].key # r[i].key) =>
               (r[i].state = "Down" <=> r[i].key \in keysDown')
      <3>1. ASSUME NEW i \in 1 .. n, \A j \in i + 1 .. n : r[j].key # r[i].key
            PROVE  r[i].state = "Down" <=> r[i].key \in keysDown
        <4>1. r[i] = q[i + 1] /\ i + 1 \in 1 .. n + 1
          BY <1>2
        <4>2. ASSUME NEW j \in (i + 1) + 1 .. n + 1 PROVE q[j].key # q[i + 1].key
          <5>1. j - 1 \in i + 1 .. n /\ j - 1 \in 1 .. n /\ (j - 1) + 1 = j
            BY <1>2
          <5>2. q[j] = r[j - 1]
            BY <5>1, <1>2
          <5> QED BY <5>1, <5>2, <4>1, <3>1
        <4> QED BY <4>1, <4>2, <1>7
      <3> QED BY <3>1, <1>4 DEF n
    <2> QED BY <2>1, <2>2, <2>3 DEF KeysInOrder, r
  <1>9. KeyStatesSettle'
    <2>1. ASSUME NEW m \in Keys, \A i \in 1 .. n : r[i].key # m
          PROVE  m \in key_states' <=> m \in keysDown'
      <3>1. CASE data.key = m
        <4>1. ASSUME NEW j \in 1 + 1 .. n + 1 PROVE q[j].key # q[1].key
          <5>1. j - 1 \in 1 .. n /\ (j - 1) + 1 = j
            BY <1>2
          <5>2. q[j] = r[j - 1]
            BY <5>1, <1>2
          <5> QED BY <5>1, <5>2, <2>1, <3>1, <1>2
        <4>2. data.state = "Down" <=> m \in keysDown
          <5>1. 1 \in 1 .. n + 1
            BY <1>2
          <5> QED BY <5>1, <4>1, <3>1, <1>2, <1>7
        <4> QED BY <3>1, <4>2, <1>4 DEF KeyEvent
      <3>2. CASE data.key # m
        <4>1. ASSUME NEW i \in 1 .. n + 1 PROVE q[i].key # m
          <5>1. CASE i = 1
            BY <5>1, <3>2, <1>2
          <5>2. CASE i # 1
            <6>1. i - 1 \in 1 .. n /\ (i - 1) + 1 = i
              BY <5>2, <1>2
            <6> QED BY <6>1, <2>1, <1>2
          <5> QED BY <5>1, <5>2
        <4>2. m \in key_states <=> m \in keysDown
          BY <4>1, <1>1, <1>3 DEF KeysInv, KeyStatesSettle
        <4>3. m \in key_states' <=> m \in key_states
          BY <3>2, <1>4 DEF KeyEvent
        <4> QED BY <4>2, <4>3, <1>4
      <3> QED BY <3>1, <3>2
    <2> QED BY <2>1, <1>3 DEF KeyStatesSettle, r
  <1>10. EventsContiguous'
    <2>1. Newest = data.serial - (IF data.state = "Down" THEN 1 ELSE 0)
      BY <1>1, <1>2 DEF Newest
    <2>2. Newest' = data.serial
      <3>1. CASE r = <<>>
        <4>1. Newest' = presses'
          BY <3>1 DEF Newest, r
        <4>2. q[1].serial = presses
          BY <3>1, <1>2, <1>7
        <4> QED BY <4>1, <4>2, <1>2, <1>4
      <3>2. CASE r # <<>>
        <4>1. Newest' = r[1].serial - (IF r[1].state = "Down" THEN 1 ELSE 0)
          BY <3>2 DEF Newest, r
        <4>2. 1 \in 1 .. n /\ r[1] = q[1 + 1]
          BY <3>2, <1>2
        <4>3. r[1].serial = data.serial + (IF r[1].state = "Down" THEN 1 ELSE 0)
          BY <4>2, <1>2, <1>7
        <4> QED BY <4>1, <4>3, <1>6
      <3> QED BY <3>1, <3>2
    <2>3. RingHolds(Newest)
      BY RingIsContiguous DEF KeysInv
    <2>4. PICK s \in Nat, k \in Keys, newest \in Int :
            s = data.serial /\ k = data.key /\ newest = Newest
      BY <1>6, <2>1
    <2>5. RingHolds(newest)
      BY <2>3, <2>4
    <2>6. RingHolds(s)'
      <3>1. CASE data.state = "Down"
        <4>1. PushEvent([key |-> k, serial |-> s])
          BY <2>4, <3>1, <1>4 DEF KeyEvent
        <4>2. s = newest + 1
          BY <2>1, <2>4, <3>1
        <4> QED BY <4>1, <4>2, <2>5, <1>4, RingPush
      <3>2. CASE data.state # "Down"
        <4>1. events' = events /\ popped' = popped
          BY <3>2, <1>4 DEF KeyEvent
        <4>2. newest = s
          BY <2>1, <2>4, <3>2
        <4> QED BY <4>1, <4>2, <2>5 DEF RingHolds
      <3> QED BY <3>1, <3>2
    <2>7. Newest' = s
      BY <2>2, <2>4
    <2>8. RingHolds(Newest)'
      BY <2>6, <2>7 DEF RingHolds
    <2> QED BY <2>8, NextRingIsContiguous
  <1> QED BY <1>8, <1>9, <1>10 DEF KeysInv, r

LEMMA KeysOfPop ==
  ASSUME TypeOK, RequestInv, TypeOK', RequestInv', KeysInv, PopEvents
  PROVE  KeysInv'
  <1> DEFINE n == Len(events)
  <1>1. KbdInFlight' = KbdInFlight
    BY KbdFlightKept DEF Main
  <1>2. keysDown' = keysDown /\ presses' = presses /\ key_states' = key_states
    BY DEF PopEvents, Leave, hwVars, userHist
  <1>3. KeysInOrder(KbdInFlight)' /\ KeyStatesSettle'
    BY <1>1, <1>2 DEF KeysInv, KeysInOrder, KeyStatesSettle
  <1>4. Newest' = Newest
    BY <1>1, <1>2 DEF Newest
  <1>5. RingHolds(Newest) /\ Len(events) \in Nat /\ (events = <<>> <=> n = 0)
    BY RingIsContiguous, LenProperties, EmptySeq DEF KeysInv, TypeOK
  <1>6. Newest \in Int /\ popped \in Nat /\ KEYBOARD_EVENT_BUFFER \in Nat \ {0}
    <2>1. KbdInFlight \in Seq(KbdByte)
      BY FlightTypes DEF FlightType
    <2>2. presses \in Nat /\ popped \in Nat /\ KEYBOARD_EVENT_BUFFER \in Nat \ {0}
      BY InputAssumption DEF TypeOK
    <2>3. CASE KbdInFlight = <<>>
      BY <2>2, <2>3 DEF Newest
    <2>4. CASE KbdInFlight # <<>>
      <3>1. Len(KbdInFlight) \in Nat \ {0}
        BY <2>1, <2>4, EmptySeq
      <3>2. 1 \in 1 .. Len(KbdInFlight)
        BY <3>1
      <3>3. KbdInFlight[1] \in KbdByte
        BY <2>1, <3>2, ElementOfSeq
      <3>4. KbdInFlight[1].serial \in Nat
        BY <3>3 DEF KbdByte
      <3>5. \/ Newest = KbdInFlight[1].serial - 1 \/ Newest = KbdInFlight[1].serial - 0
        BY <2>4 DEF Newest
      <3>6. Newest \in Int
        BY <3>4, <3>5
      <3> QED BY <2>2, <3>6
    <2> QED BY <2>3, <2>4
  <1>7. popped' = Newest
    <2>1. CASE events = <<>>
      <3>1. n = 0 /\ popped' = popped
        BY <2>1, <1>5 DEF PopEvents
      <3> QED BY <3>1, <1>5, <1>6 DEF RingHolds
    <2>2. CASE events # <<>>
      <3>1. n \in 1 .. n /\ popped' = events[n].serial
        BY <2>2, <1>5 DEF PopEvents, Last
      <3>2. events[n].serial = Newest - n + n
        BY <3>1, <1>5 DEF RingHolds
      <3> QED BY <3>1, <3>2, <1>6
    <2> QED BY <2>1, <2>2
  <1>8. events' = <<>> /\ Len(events') = 0
    BY DEF PopEvents
  <1>9. RingHolds(Newest)'
    <2>1. Newest' - popped' = 0 /\ 0 <= KEYBOARD_EVENT_BUFFER
      BY <1>4, <1>6, <1>7
    <2> QED BY <1>8, <2>1 DEF RingHolds
  <1> QED BY <1>3, <1>9, NextRingIsContiguous DEF KeysInv

LEMMA KeysKept ==
  ASSUME KeysInv, KbdInFlight' = KbdInFlight,
         UNCHANGED <<keysDown, presses, key_states, events, popped>>
  PROVE  KeysInv'
  <1>1. KeysInOrder(KbdInFlight)' /\ KeyStatesSettle'
    BY DEF KeysInv, KeysInOrder, KeyStatesSettle
  <1>2. Newest' = Newest
    BY DEF Newest
  <1>3. RingHolds(Newest)'
    BY <1>2, RingIsContiguous DEF RingHolds, KeysInv
  <1> QED BY <1>1, <1>3, NextRingIsContiguous DEF KeysInv

LEMMA KeysStep ==
  ASSUME TypeOK, RequestInv, TypeOK', RequestInv', KeysInv, [Next]_vars
  PROVE  KeysInv'
  <1>1. ASSUME NEW k \in Keys, KeyAction(k) PROVE KeysInv'
    BY <1>1, KeysOfKeyAction
  <1>2. ASSUME NEW h \in SUBSET Buttons, NEW d \in Moves, MouseReport(h, d) PROVE KeysInv'
    BY <1>2, KbdFlightKept, KeysKept DEF MouseReport, kbdVars, mainHist
  <1>3. CASE Hardware
    BY <1>3, KbdFlightKept, KeysKept
    DEF Hardware, LoadKbd, LoadAux, Settle, kbdVars, userHist, mainHist
  <1>4. CASE KbdInterrupt \/ MouseInterrupt
    BY <1>4, KbdFlightKept, KeysKept
    DEF KbdInterrupt, MouseInterrupt, Deliver, hwVars, kbdVars, userHist, mainHist
  <1>5. CASE KbdRead \/ MouseRead
    BY <1>5, KbdFlightKept, KeysKept
    DEF KbdRead, MouseRead, Read, hwVars, kbdVars, userHist, mainHist
  <1>6. CASE KbdHandle
    BY <1>6, KeysOfKbdHandle
  <1>7. CASE MouseHandle
    BY <1>7, KbdFlightKept, KeysKept DEF MouseHandle, hwVars, kbdVars, userHist, mainHist
  <1>8. CASE EnableInterrupts \/ WithoutInterrupts
    BY <1>8, KbdFlightKept, KeysKept
    DEF Main, EnableInterrupts, WithoutInterrupts, hwVars, kbdVars, userHist, mainHist
  <1>9. CASE PopDelta \/ PopClicks
    BY <1>9, KbdFlightKept, KeysKept DEF Main, PopDelta, PopClicks, Leave, hwVars, userHist
  <1>10. CASE PopEvents
    BY <1>10, KeysOfPop
  <1>11. CASE UNCHANGED vars
    BY <1>11, KbdFlightKept, KeysKept DEF vars, hwVars, kbdVars, userHist, mainHist
  <1> QED BY <1>1, <1>2, <1>3, <1>4, <1>5, <1>6, <1>7, <1>8, <1>9, <1>10, <1>11
          DEF Next, User, Handlers, Main, Halted

-----------------------------------------------------------------------------
(* The mouse: packets, the bytes of one received so far, the movement.     *)

LEMMA PacketsKept ==
  ASSUME PacketsInv, AuxInFlight' = AuxInFlight,
         UNCHANGED <<packet_bytes, moved>>,
         turned' + dx_this_frame' = turned + dx_this_frame,
         cpu = "panic" => cpu' = "panic", overflowed' = overflowed
  PROVE  PacketsInv'
  <1>1. PacketsInOrder(AuxInFlight)' /\ PacketBegun' /\ PacketsAligned'
    BY DEF PacketsInv, PacketsInOrder, PacketBegun, PacketsAligned, Aligned, Follows
  <1>2. MotionConserved'
    BY DEF PacketsInv, MotionConserved
  <1> QED BY <1>1, <1>2 DEF PacketsInv

\* The fields of a mouse byte that its packet shares.
LEMMA AuxFields ==
  ASSUME NEW b \in AuxByte
  PROVE  /\ b.dev = "aux" /\ b.part \in 1 .. BYTES_NEEDED
         /\ b.dx \in Int /\ b.total \in Int
  BY Motions DEF AuxByte

LEMMA PacketsOfReport ==
  ASSUME TypeOK, RequestInv, TypeOK', RequestInv', PacketsInv,
         NEW bs \in SUBSET Buttons, NEW d \in Moves, MouseReport(bs, d)
  PROVE  PacketsInv'
  <1> DEFINE q == AuxInFlight
             n == Len(q)
             N == BYTES_NEEDED
  <1>1. PICK packet \in Seq(AuxByte) :
          /\ q' = q \o packet
          /\ Len(packet) = N
          /\ \A i \in 1 .. N :
               packet[i] = [dev |-> "aux", part |-> i, held |-> bs, dx |-> d,
                            total |-> moved']
    BY AuxFlightSent
  <1>2. /\ \A i \in 1 .. N : packet[i].part = i /\ packet[i].held = bs
                             /\ packet[i].dx = d /\ packet[i].total = moved'
        /\ moved' = moved + d /\ moved \in Int /\ d \in Int /\ N \in {3, 4}
    <2>1. \A i \in 1 .. N : packet[i].part = i /\ packet[i].held = bs
                             /\ packet[i].dx = d /\ packet[i].total = moved'
      BY <1>1
    <2>2. moved' = moved + d /\ moved \in Int /\ d \in Int /\ N \in {3, 4}
      BY InputAssumption, Motions DEF MouseReport, TypeOK
    <2> QED BY <2>1, <2>2
  <1>3. /\ q \in Seq(AuxByte) /\ n \in Nat /\ (q = <<>> <=> n = 0)
        /\ Len(q') = n + N /\ q' # <<>>
        /\ \A i \in 1 .. n : q'[i] = q[i]
        /\ \A i \in 1 .. N : q'[n + i] = packet[i]
    <2>1. q \in Seq(AuxByte) /\ n \in Nat /\ (q = <<>> <=> n = 0)
      BY FlightTypes, LenProperties, EmptySeq DEF FlightType
    <2> HIDE DEF q, n
    <2>2. /\ q' \in Seq(AuxByte) /\ Len(q') = n + N
          /\ \A i \in 1 .. n + N : q'[i] = IF i <= n THEN q[i] ELSE packet[i - n]
      <3>1. q' = q \o packet /\ packet \in Seq(AuxByte) /\ Len(packet) = N
        BY <1>1
      <3>2. /\ q \o packet \in Seq(AuxByte)
            /\ Len(q \o packet) = Len(q) + Len(packet)
            /\ \A i \in 1 .. Len(q) + Len(packet) :
                 (q \o packet)[i] = IF i <= Len(q) THEN q[i] ELSE packet[i - Len(q)]
        <4>1. q \in Seq(AuxByte) /\ packet \in Seq(AuxByte)
          BY <2>1, <3>1
        <4> QED BY <4>1, ConcatProperties
      <3> HIDE DEF N
      <3> QED BY <3>1, <3>2 DEF n
    <2>3. \A i \in 1 .. n : q'[i] = q[i]
      BY <2>1, <2>2, <1>2
    <2>4. \A i \in 1 .. N : q'[n + i] = packet[i]
      <3>1. ASSUME NEW i \in 1 .. N PROVE q'[n + i] = packet[i]
        <4>1. n + i \in 1 .. n + N /\ ~(n + i <= n) /\ (n + i) - n = i
          BY <2>1, <1>2
        <4> QED BY <4>1, <2>2
      <3> QED BY <3>1
    <2>5. q' # <<>>
      <3>1. n + N # 0
        BY <2>1, <1>2
      <3> QED BY <2>2, <3>1, EmptySeq
    <2> QED BY <2>1, <2>2, <2>3, <2>4, <2>5
  <1>4. /\ PacketsInOrder(q) /\ PacketBegun /\ PacketsAligned /\ MotionConserved
        /\ UNCHANGED <<packet_bytes, turned, dx_this_frame, cpu, overflowed>>
    BY DEF PacketsInv, MouseReport, mouseVars, mainHist
  <1>5. /\ \A i \in 1 .. n - 1 : Follows(q[i], q[i + 1])
        /\ q # <<>> => q[n].part = N /\ q[n].total = moved
    BY <1>4 DEF PacketsInOrder
  <1>6. q'[n + 1] = packet[1] /\ 1 \in 1 .. N
    BY <1>2, <1>3
  <1>7. /\ q # <<>> => q'[1] = q[1]
        /\ q = <<>> => q'[1] = packet[1]
    <2> HIDE DEF q, n
    <2> QED BY <1>3, <1>6
  <1>8. PacketsInOrder(AuxInFlight)'
    <2> HIDE DEF q, n
    <2>1. ASSUME NEW i \in 1 .. (n + N) - 1 PROVE Follows(q'[i], q'[i + 1])
      <3>1. CASE i < n
        <4>1. i \in 1 .. n - 1 /\ i \in 1 .. n /\ i + 1 \in 1 .. n
          BY <3>1, <1>3
        <4> QED BY <4>1, <1>3, <1>5
      <3>2. CASE i = n
        <4>1. q'[i] = q[n] /\ q'[i + 1] = packet[1] /\ q # <<>>
          BY <3>2, <1>3, <1>6
        <4>2. q[n].part = N /\ q[n].total = moved
          BY <4>1, <1>5
        <4>3. packet[1].part = 1 /\ packet[1].total - packet[1].dx = moved
          BY <1>2, <1>6
        <4>4. ~(N < N)
          BY <1>2
        <4> QED BY <4>1, <4>2, <4>3, <4>4 DEF Follows
      <3>3. CASE i > n
        <4>1. PICK j \in 1 .. N - 1 : i = n + j
          <5>1. i - n \in 1 .. N - 1 /\ i = n + (i - n)
            BY <3>3, <1>2, <1>3
          <5> QED BY <5>1
        <4>2. j \in 1 .. N /\ j + 1 \in 1 .. N /\ i + 1 = n + (j + 1) /\ j < N
          BY <4>1, <1>2, <1>3
        <4>3. q'[i] = packet[j] /\ q'[i + 1] = packet[j + 1]
          BY <4>1, <4>2, <1>3
        <4> QED BY <4>2, <4>3, <1>2 DEF Follows
      <3>4. i < n \/ i = n \/ i > n
        BY <1>2, <1>3
      <3> QED BY <3>1, <3>2, <3>3, <3>4
    <2>2. q'[n + N] = packet[N] /\ packet[N].part = N /\ packet[N].total = moved'
      BY <1>2, <1>3
    <2>3. Len(q') = n + N
      BY <1>3
    <2> QED BY <2>1, <2>2, <2>3 DEF PacketsInOrder, q
  <1>9. PacketBegun' /\ PacketsAligned'
    <2>1. CASE q # <<>>
      BY <2>1, <1>3, <1>4, <1>7 DEF PacketBegun, PacketsAligned, Aligned
    <2>2. CASE q = <<>>
      <3>1. packet_bytes = <<>>
        BY <2>2, <1>4 DEF PacketBegun
      <3>2. Len(packet_bytes) = 0 /\ packet_bytes' = <<>> /\ AuxInFlight'[1].part = 1
        BY <3>1, <2>2, <1>2, <1>4, <1>6, <1>7
      <3> QED BY <3>1, <3>2, <1>3, <1>4 DEF PacketBegun, PacketsAligned, Aligned
    <2> QED BY <2>1, <2>2
  <1>10. MotionConserved'
    <2>1. CASE q # <<>>
      BY <2>1, <1>3, <1>4, <1>7 DEF MotionConserved
    <2>2. CASE q = <<>>
      <3>1. AuxInFlight'[1].total - AuxInFlight'[1].dx = moved
        BY <2>2, <1>2, <1>6, <1>7
      <3> QED BY <2>2, <3>1, <1>3, <1>4 DEF MotionConserved
    <2> QED BY <2>1, <2>2
  <1> QED BY <1>8, <1>9, <1>10 DEF PacketsInv

LEMMA PacketsOfMouseHandle ==
  ASSUME TypeOK, RequestInv, TypeOK', RequestInv', PacketsInv, MouseHandle
  PROVE  PacketsInv'
  <1> DEFINE r == AuxInFlight'
             n == Len(r)
             q == <<data>> \o r
             N == BYTES_NEEDED
             p == Len(packet_bytes)
             bytes == Append(packet_bytes, data)
  <1>1. data \in AuxByte /\ AuxInFlight = q /\ r \in Seq(AuxByte)
    <2>1. FlightType'
      BY FlightTypes, PTL
    <2> QED BY <2>1, AuxFlightTaken DEF FlightType
  <1>2. /\ q # <<>> /\ q[1] = data /\ Len(q) = n + 1 /\ n \in Nat
        /\ \A i \in 1 .. n : q[i + 1] = r[i]
        /\ (r = <<>> <=> n = 0)
    <2>1. n \in Nat /\ (r = <<>> <=> n = 0)
      BY <1>1, LenProperties, EmptySeq
    <2> QED BY <1>1, <2>1, FirstOfFlow
  <1>3. /\ N \in {3, 4} /\ data.dev = "aux" /\ data.part \in 1 .. N
        /\ data.dx \in Int /\ data.total \in Int
        /\ moved \in Int /\ turned \in Int /\ dx_this_frame \in Int
        /\ packet_bytes \in Seq(Bytes) /\ p \in Nat
    <2>1. packet_bytes \in Seq(Bytes) /\ p \in Nat
      BY LenProperties DEF TypeOK
    <2>2. moved \in Int /\ turned \in Int /\ dx_this_frame \in Int
      BY Motions DEF TypeOK
    <2> QED BY <1>1, <2>1, <2>2, AuxFields, InputAssumption
  <1>4. PacketsInOrder(q) /\ PacketBegun /\ PacketsAligned /\ MotionConserved
    BY <1>1 DEF PacketsInv
  <1>5. moved' = moved /\ turned' = turned
    BY DEF MouseHandle, userHist, mainHist
  <1>6. /\ bytes \in Seq(Bytes) /\ Len(bytes) = p + 1 /\ bytes[p + 1] = data
        /\ \A i \in 1 .. p : bytes[i] = packet_bytes[i]
    BY <1>1, <1>3, AppendProperties DEF Bytes
  <1>7. /\ p < N /\ Aligned(packet_bytes) /\ data.part = p + 1
        /\ \A i \in 1 .. p : packet_bytes[i].held = data.held /\ packet_bytes[i].dx = data.dx
        /\ ~overflowed => turned + dx_this_frame = data.total - data.dx
    BY <1>1, <1>2, <1>4 DEF MouseHandle, PacketBegun, PacketsAligned, MotionConserved
  <1> HIDE DEF q, r, n, p, bytes
  <1>8. Aligned(bytes)
    <2>1. DOMAIN bytes = 1 .. p + 1 /\ DOMAIN packet_bytes = 1 .. p
      BY <1>3, <1>6, LenProperties DEF p
    <2>2. ASSUME NEW i \in 1 .. p + 1 PROVE bytes[i].dev = "aux" /\ bytes[i].part = i
      <3>1. CASE i = p + 1
        BY <3>1, <1>3, <1>6, <1>7
      <3>2. CASE i # p + 1
        <4>1. i \in 1 .. p
          BY <3>2, <1>3
        <4> QED BY <4>1, <2>1, <1>6, <1>7 DEF Aligned
      <3> QED BY <3>1, <3>2
    <2> QED BY <2>1, <2>2 DEF Aligned
  <1>9. /\ \A i \in 1 .. n : Follows(q[i], q[i + 1])
        /\ q[n + 1].part = N /\ q[n + 1].total = moved
    <2>1. Len(q) = n + 1 /\ (n + 1) - 1 = n /\ q # <<>>
      BY <1>2
    <2> QED BY <1>4, <2>1 DEF PacketsInOrder
  <1>10. PacketsInOrder(AuxInFlight)'
    <2>1. ASSUME NEW i \in 1 .. n - 1 PROVE Follows(r[i], r[i + 1])
      <3>1. i + 1 \in 1 .. n /\ i \in 1 .. n
        BY <1>2
      <3>2. r[i + 1] = q[(i + 1) + 1] /\ r[i] = q[i + 1]
        BY <3>1, <1>2
      <3> QED BY <3>1, <3>2, <1>9
    <2>2. r # <<>> => r[n].part = N /\ r[n].total = moved
      <3>1. ASSUME r # <<>> PROVE r[n].part = N /\ r[n].total = moved
        <4>1. n \in 1 .. n
          BY <3>1, <1>2
        <4> QED BY <4>1, <1>2, <1>9
      <3> QED BY <3>1
    <2> QED BY <2>1, <2>2, <1>5 DEF PacketsInOrder, r, n
  <1>11. r = <<>> => data.part = N /\ data.total = moved
    BY <1>2, <1>9
  <1>12. r # <<>> => Follows(data, r[1])
    <2>1. ASSUME r # <<>> PROVE Follows(data, r[1])
      <3>1. 1 \in 1 .. n
        BY <2>1, <1>2
      <3> QED BY <3>1, <1>2, <1>9
    <2> QED BY <2>1
  <1>13. CASE ~PacketComplete(bytes)
    <2>1. /\ packet_bytes' = bytes /\ dx_this_frame' = dx_this_frame
          /\ overflowed' = overflowed
      BY <1>13 DEF MouseHandle, bytes
    <2>2. p + 1 < N
      BY <1>3, <1>6, <1>13 DEF PacketComplete
    <2>3. /\ r # <<>> /\ r[1].part = p + 2 /\ r[1].held = data.held
          /\ r[1].dx = data.dx /\ r[1].total = data.total
      <3>1. r # <<>> /\ data.part < N
        BY <2>2, <1>3, <1>7, <1>11
      <3>2. r[1].part = data.part + 1
        BY <3>1, <1>12 DEF Follows
      <3>3. r[1].part = p + 2
        BY <3>2, <1>3, <1>7
      <3> QED BY <3>1, <3>3, <1>12 DEF Follows
    <2>4. PacketBegun'
      <3>1. ASSUME NEW i \in 1 .. p + 1
            PROVE  bytes[i].held = data.held /\ bytes[i].dx = data.dx
        <4>1. CASE i = p + 1
          BY <4>1, <1>6
        <4>2. CASE i # p + 1
          <5>1. i \in 1 .. p
            BY <4>2, <1>3
          <5> QED BY <5>1, <1>6, <1>7
        <4> QED BY <4>1, <4>2
      <3> QED BY <3>1, <2>1, <2>2, <2>3, <1>6 DEF PacketBegun, r
    <2>5. PacketsAligned'
      <3>1. r[1].part = Len(bytes) + 1
        BY <2>3, <1>3, <1>6
      <3> QED BY <3>1, <2>1, <1>8 DEF PacketsAligned, Aligned, r
    <2>6. MotionConserved'
      BY <2>1, <2>3, <1>5, <1>7 DEF MotionConserved, r
    <2> QED BY <2>4, <2>5, <2>6, <1>10 DEF PacketsInv
  <1>14. CASE PacketComplete(bytes)
    <2>1. p + 1 = N
      BY <1>3, <1>6, <1>7, <1>14 DEF PacketComplete
    <2>2. bytes[2].dx = data.dx
      <3>1. 2 \in 1 .. p
        BY <2>1, <1>3
      <3> QED BY <3>1, <1>6, <1>7
    <2>3. /\ packet_bytes' = <<>>
          /\ AddMotion(data.dx) \/ cpu' = "panic"
      BY <1>8, <1>14, <2>2 DEF MouseHandle, Decodes, bytes
    <2>4. r # <<>> => r[1].part = 1 /\ r[1].total - r[1].dx = data.total
      <3>1. ~(data.part < N)
        BY <2>1, <1>3, <1>7
      <3> QED BY <3>1, <1>12 DEF Follows
    <2>5. PacketBegun' /\ PacketsAligned'
      <3>1. Len(<<>>) = 0 /\ 0 < N /\ DOMAIN <<>> = {}
        BY <1>3
      <3> QED BY <3>1, <2>3, <2>4 DEF PacketBegun, PacketsAligned, Aligned, r
    <2>6. overflowed \in BOOLEAN /\ overflowed' \in BOOLEAN
      BY DEF TypeOK
    <2>7. MotionConserved'
      <3> SUFFICES ASSUME cpu' # "panic", overflowed' = FALSE PROVE MotionConserved'
        BY <2>6 DEF MotionConserved
      <3>1. /\ overflowed = FALSE /\ InI16(dx_this_frame + data.dx)
            /\ dx_this_frame' = Wrapped(dx_this_frame + data.dx)
        BY <2>3, <2>6 DEF AddMotion
      <3>2. data.dx \in Moves /\ InI16(dx_this_frame)
        BY <1>1 DEF AuxByte, TypeOK
      <3>3. dx_this_frame' = dx_this_frame + data.dx
        BY <3>1, <3>2, <1>3, WrappedSum
      <3>4. turned' + dx_this_frame' = data.total
        BY <3>1, <3>3, <1>3, <1>5, <1>7
      <3> QED BY <3>4, <2>4, <1>5, <1>11 DEF MotionConserved, r
    <2> QED BY <2>5, <2>7, <1>10 DEF PacketsInv
  <1> QED BY <1>13, <1>14

LEMMA PacketsStep ==
  ASSUME TypeOK, RequestInv, TypeOK', RequestInv', PacketsInv, [Next]_vars
  PROVE  PacketsInv'
  <1>1. ASSUME NEW k \in Keys, KeyAction(k) PROVE PacketsInv'
    BY <1>1, AuxFlightKept, PacketsKept DEF KeyAction, mouseVars, mainHist
  <1>2. ASSUME NEW h \in SUBSET Buttons, NEW d \in Moves, MouseReport(h, d)
        PROVE  PacketsInv'
    BY <1>2, PacketsOfReport
  <1>3. CASE Hardware
    BY <1>3, AuxFlightKept, PacketsKept
    DEF Hardware, LoadKbd, LoadAux, Settle, mouseVars, userHist, mainHist
  <1>4. CASE KbdInterrupt \/ MouseInterrupt
    BY <1>4, AuxFlightKept, PacketsKept
    DEF KbdInterrupt, MouseInterrupt, Deliver, mouseVars, userHist, mainHist
  <1>5. CASE KbdRead \/ MouseRead
    BY <1>5, AuxFlightKept, PacketsKept
    DEF KbdRead, MouseRead, Read, mouseVars, userHist, mainHist
  <1>6. CASE KbdHandle
    BY <1>6, AuxFlightKept, PacketsKept DEF KbdHandle, mouseVars, userHist, mainHist
  <1>7. CASE MouseHandle
    BY <1>7, PacketsOfMouseHandle
  <1>8. CASE EnableInterrupts \/ WithoutInterrupts
    BY <1>8, AuxFlightKept, PacketsKept
    DEF Main, EnableInterrupts, WithoutInterrupts, mouseVars, userHist, mainHist
  <1>9. CASE PopDelta
    <2>1. turned' + dx_this_frame' = turned + dx_this_frame
      <3>1. /\ turned' = turned + dx_this_frame /\ dx_this_frame' = 0
            /\ turned \in Int /\ dx_this_frame \in Int
        BY <1>9, Motions DEF PopDelta, TypeOK
      <3> QED BY <3>1
    <2>2. UNCHANGED <<packet_bytes, moved, overflowed, cpu>>
      BY <1>9 DEF PopDelta, Leave, userHist
    <2> QED BY <1>9, <2>1, <2>2, AuxFlightKept, PacketsKept DEF Main
  <1>10. CASE PopClicks \/ PopEvents
    BY <1>10, AuxFlightKept, PacketsKept
    DEF Main, PopClicks, PopEvents, Leave, mouseVars, userHist
  <1>11. CASE UNCHANGED vars
    BY <1>11, AuxFlightKept, PacketsKept DEF vars, mouseVars, userHist, mainHist
  <1> QED BY <1>1, <1>2, <1>3, <1>4, <1>5, <1>6, <1>7, <1>8, <1>9, <1>10, <1>11
          DEF Next, User, Handlers, Main, Halted

-----------------------------------------------------------------------------
(* The theorems.                                                           *)

LEMMA InitInvariant == Init => IInv
  <1> SUFFICES ASSUME Init PROVE IInv
    OBVIOUS
  <1>1. TypeOK /\ LockInv
    BY TypeInit DEF Init, LockInv
  <1>2. RequestInv
    BY ByteKinds DEF Init, RequestInv
  <1>3. KbdInFlight = <<>> /\ AuxInFlight = <<>>
    <2>1. <<>> \o <<>> = <<>>
      OBVIOUS
    <2> QED BY <2>1 DEF Init, Held, Buffered, KbdInFlight, AuxInFlight
  <1>4. KeysInv
    BY <1>3, InputAssumption
    DEF Init, KeysInv, KeysInOrder, KeyStatesSettle, EventsContiguous
  <1>5. PacketsInv
    BY <1>3, InputAssumption
    DEF Init, PacketsInv, PacketsInOrder, PacketBegun, PacketsAligned, Aligned,
        MotionConserved
  <1> QED BY <1>1, <1>2, <1>4, <1>5 DEF IInv

LEMMA StepInvariant == IInv /\ [Next]_vars => IInv'
  <1> SUFFICES ASSUME IInv, [Next]_vars PROVE IInv'
    OBVIOUS
  <1>1. TypeOK /\ LockInv /\ TypeOK' /\ LockInv'
    BY TypeStep, LockStep DEF IInv
  <1>2. ASSUME ~EarlyInput PROVE RequestInv' /\ KeysInv' /\ PacketsInv'
    <2>1. RequestInv /\ KeysInv /\ PacketsInv
      BY <1>2 DEF IInv
    <2>2. RequestInv'
      BY <1>1, <1>2, <2>1, RequestStep
    <2> QED BY <1>1, <2>1, <2>2, KeysStep, PacketsStep
  <1> QED BY <1>1, <1>2 DEF IInv

THEOREM Invariant == Spec => []IInv
  BY InitInvariant, StepInvariant, PTL DEF Spec

\* Every variable keeps its type, in particular the ring holds events and the packet
\* buffer bytes, whatever the devices send and whenever.
THEOREM TypeCorrect == Spec => []TypeOK
  <1>1. IInv => TypeOK
    BY DEF IInv
  <1> QED BY <1>1, Invariant, PTL

\* A handler never meets a lock the code it interrupted holds.
THEOREM HandlersNeverSpin == Spec => []NoSelfDeadlock
  <1>1. IInv => NoSelfDeadlock
    BY DEF IInv, LockInv, NoSelfDeadlock
  <1> QED BY <1>1, Invariant, PTL

\* When no byte comes before the stale requests of boot are gone, the mouse handler
\* never reads buttons from a movement byte or movement from a button byte.
THEOREM MouseInStep ==
  ASSUME ~EarlyInput PROVE Spec => []PacketsAligned
  <1>1. IInv => PacketsAligned
    BY DEF IInv, PacketsInv
  <1> QED BY <1>1, Invariant, PTL

\* Under the same condition, no key stays stuck down in the keyboard's state.
THEOREM NoKeyStuck ==
  ASSUME ~EarlyInput PROVE Spec => []KeyStatesSettle
  <1>1. IInv => KeyStatesSettle
    BY DEF IInv, KeysInv
  <1> QED BY <1>1, Invariant, PTL

\* Under the same condition, the main loop gets every press once and in order,
\* except the oldest ones of a full ring, for a ring of any size.
THEOREM PressesReachTheLoop ==
  ASSUME ~EarlyInput PROVE Spec => []EventsContiguous
  <1>1. IInv => EventsContiguous
    BY DEF IInv, KeysInv
  <1> QED BY <1>1, Invariant, PTL

\* Under the same condition, no movement is lost or counted twice between the
\* mouse, dx_this_frame and the camera, unless an i16 has overflowed.
THEOREM MotionReachesTheCamera ==
  ASSUME ~EarlyInput PROVE Spec => []MotionConserved
  <1>1. IInv => MotionConserved
    BY DEF IInv, PacketsInv
  <1> QED BY <1>1, Invariant, PTL
===============================================================================
