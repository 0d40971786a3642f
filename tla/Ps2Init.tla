-------------------------------- MODULE Ps2Init --------------------------------
(***************************************************************************)
(* ps2::init (kernel/src/ps2/mod.rs): the polled initialisation of the 8042*)
(* and of the two devices behind it.  Commands are sent and answers read   *)
(* from the one output buffer, where a byte does not say what it answers;  *)
(* some reads give up after a while and the others wait for ever.          *)
(*                                                                         *)
(* The 8042 and the devices are external: a device answers one byte at a   *)
(* time into an empty buffer while its clock is on, drops what it had to    *)
(* say when it gets a command, and may speak up by itself when it is used. *)
(* Without an 8042 the ports read as all ones or all zeros.                *)
(***************************************************************************)
EXTENDS Naturals, Sequences, SequencesExt

CONSTANTS MaxStrays,  \* bound: bytes that devices send unasked
          None

VARIABLES
  \* driver
  ppc, dev, step, more,  \* where in init; device, exchange and bytes to read
  first,                 \* first byte of the answer to the keyboard's reset
  config,                \* Ps2Config: the byte as the driver knows it
  dual, works,           \* is_dual_channel; ports that passed their test
  mouse_type,            \* Ps2Mouse::mouse_type
  \* hardware
  ctl,                   \* the configuration byte of the 8042
  out,                   \* its output buffer, controller answers behind a byte
  todo, speaks,          \* per device: bytes to send, may send unasked
  wired,                 \* what is attached, see Wirings
  \* history
  sent,                  \* number of the last command that is answered
  strays, late           \* bytes sent unasked, timeouts before an answer

driverVars == <<ppc, dev, step, more, first, config, dual, works, mouse_type>>
hwVars == <<ctl, out, todo, speaks, wired>>
ps2Vars == <<driverVars, hwVars, sent, strays, late>>

Devs == {"kbd", "mouse"}

\* The bits of the configuration byte that the driver uses: interrupts, clocks
\* switched off, translation.
Bits == {"irq1", "irq12", "off1", "off2", "translate"}

Off(d) == IF d = "kbd" THEN "off1" ELSE "off2"

\* Where init is when it has the answer to a port's test, and in a device's reset.
TestedStep == [kbd |-> "kbd_tested", mouse |-> "mouse_tested"]
ResetStep == [kbd |-> "kbd_reset", mouse |-> "mouse_reset"]
AckStep == [kbd |-> "kbd_ack", mouse |-> "mouse_ack"]
ResultStep == [kbd |-> "kbd_result", mouse |-> "mouse_result"]

\* What is at the 8042's ports, or what they read as; and attached to it: the
\* devices, whether they answer within the poll, the ports that pass their test,
\* and the interrupts firmware left enabled.
Wirings ==
  [i8042 : {"present"},
   kbd : {"absent", "at", "mf2", "failing"},
   mouse : {"absent", "standard", "wheel", "failing"},
   slow : BOOLEAN, ports : SUBSET Devs, irqs : SUBSET {"irq1", "irq12"}]
  \cup
  [i8042 : {"ones", "zeros"}, kbd : {"absent"}, mouse : {"absent"}, slow : {FALSE},
   ports : {{}}, irqs : {{}}]

Present == wired.i8042 = "present"

Byte(of, val, bits) == [of |-> of, val |-> val, bits |-> bits]

\* Firmware may leave a byte behind, and devices that talk.
Start(w, stale, talking) ==
  /\ ppc = "start" /\ dev = "kbd" /\ step = 1 /\ more = 0 /\ first = None
  /\ config = {} /\ dual = FALSE /\ works = {} /\ mouse_type = "unknown"
  /\ ctl = w.irqs \cup {"translate"}
  /\ out = IF stale /\ w.i8042 = "present" THEN <<Byte(0, "stale", {})>> ELSE <<>>
  /\ todo = [d \in Devs |-> <<>>]
  /\ speaks = [d \in Devs |-> talking /\ w[d] # "absent"]
  /\ wired = w
  /\ sent = 0 /\ strays = 0 /\ late = 0

-----------------------------------------------------------------------------
(* Controller and devices (external).                                      *)

\* The 8042 answers a command of its own at once, if there is one.
Ask(val, bits) ==
  /\ sent' = sent + 1
  /\ out' = IF Present THEN Append(out, Byte(sent', val, bits)) ELSE out

Answers(d, cmd) ==
  CASE cmd = "reset" ->
         IF wired[d] = "failing" THEN <<"ack", "failed">>
         ELSE IF d = "kbd" THEN <<"ack", "passed">> ELSE <<"ack", "passed", wired[d]>>
    [] cmd = "identify" /\ wired[d] = "mf2" -> <<"ack", "ab", "83">>
    [] cmd = "get_set" -> <<"ack", "set_2">>
    [] cmd = "read_type" -> <<"ack", wired[d]>>
    [] OTHER -> <<"ack">>

\* A device that is there prepares its answer.  Keyboards talk after a reset and
\* mice do not; both can be told to.
Receive(d, cmd) ==
  /\ sent' = sent + 1
  /\ IF wired[d] = "absent" THEN UNCHANGED <<todo, speaks>>
     ELSE /\ todo' = [todo EXCEPT ![d] =
                LET a == Answers(d, cmd) IN [i \in DOMAIN a |-> Byte(sent', a[i], {})]]
          /\ speaks' = [speaks EXCEPT ![d] =
               CASE cmd \in {"enable_scanning", "enable_reporting"} -> TRUE
                 [] cmd \in {"disable_scanning", "set_defaults"} -> FALSE
                 [] cmd = "reset" -> d = "kbd"
                 [] OTHER -> @]

\* A byte goes into the empty buffer while the clock of its device is on.
Deliver(d) ==
  /\ todo[d] # <<>> /\ out = <<>> /\ Off(d) \notin ctl
  /\ out' = <<Head(todo[d])>>
  /\ todo' = [todo EXCEPT ![d] = Tail(@)]
  /\ UNCHANGED <<driverVars, ctl, speaks, wired, sent, strays, late>>

\* A key is pressed, the mouse is moved.
Stray(d) ==
  /\ ppc \notin {"start", "done"}
  /\ speaks[d] /\ strays < MaxStrays
  /\ todo' = [todo EXCEPT ![d] = Append(@, Byte(0, "stray", {}))]
  /\ strays' = strays + 1
  /\ UNCHANGED <<driverVars, ctl, out, speaks, wired, sent, late>>

-----------------------------------------------------------------------------
(* Reads.  The driver waits for a byte; a read with a timeout also ends when *)
(* no byte is due, and a slow device lets it end before its byte is there.  *)

Take == out # <<>> /\ out' = Tail(out)

Due == \E d \in Devs : todo[d] # <<>> /\ Off(d) \notin ctl

RunsOut ==
  /\ out = <<>>
  /\ Due => wired.slow
  /\ late' = IF Due THEN late + 1 ELSE late
  /\ UNCHANGED out

Goto(p) == ppc' = p /\ UNCHANGED <<dev, step, more>>

-----------------------------------------------------------------------------
(* Steps 2 to 8: the controller.                                           *)

\* wait_input_empty ends: the input buffer is not full, as status bits of ones say.
InputEmpty == wired.i8042 # "ones"

\* Mutant: the ports stay as they are.
DisableNot ==
  /\ ppc = "start" /\ InputEmpty
  /\ Goto("flush")
  /\ UNCHANGED <<first, config, dual, works, mouse_type, hwVars, sent, strays, late>>

\* A FADT without an 8042 is a warning in the log (step 2), and init goes on.  Where
\* this first command finds the input buffer empty, those after it do.
Disable ==
  /\ ppc = "start" /\ InputEmpty
  /\ ctl' = ctl \cup {"off1", "off2"}
  /\ Goto("flush")
  /\ UNCHANGED <<first, config, dual, works, mouse_type, out, todo, speaks, wired,
                 sent, strays, late>>

\* Mutant: what is in the buffer is left there.
FlushNot ==
  /\ ppc = "flush"
  /\ Goto("read_config")
  /\ UNCHANGED <<first, config, dual, works, mouse_type, hwVars, sent, strays, late>>

Flush ==
  /\ ppc = "flush"
  /\ out' = <<>>
  /\ Goto("read_config")
  /\ UNCHANGED <<first, config, dual, works, mouse_type, ctl, todo, speaks, wired,
                 sent, strays, late>>

\* Commands that the 8042 answers: for the byte, its own test, those of the ports.
Passes(ok) == IF ok THEN "passed" ELSE "failed"

Command ==
  /\ \/ ppc = "read_config" /\ Ask("config", ctl) /\ Goto("configure") /\ UNCHANGED ctl
     \/ /\ ppc = "self_test" /\ Ask("passed", {}) /\ Goto("tested")
        /\ ctl' \in {ctl, {"off1", "off2"}}     \* it may reset the byte, too
     \/ /\ ppc = "test_kbd" /\ Ask(Passes("kbd" \in wired.ports), {})
        /\ Goto("kbd_tested") /\ UNCHANGED ctl
     \/ /\ ppc = "test_mouse" /\ Ask(Passes("mouse" \in wired.ports), {})
        /\ Goto("mouse_tested") /\ UNCHANGED ctl
  /\ UNCHANGED <<first, config, dual, works, mouse_type, todo, speaks, wired,
                 strays, late>>

\* The byte is read and written back; that turns the first clock on again.
Configure ==
  /\ ppc = "configure" /\ Take
  /\ config' = Head(out).bits \ {"irq1", "translate", "off1"}
  /\ ctl' = config'
  /\ Goto("self_test")
  /\ UNCHANGED <<first, dual, works, mouse_type, todo, speaks, wired, sent, strays, late>>

SelfTested ==
  /\ ppc = "tested" /\ Take
  /\ ctl' = config
  /\ Goto("probe")
  /\ UNCHANGED <<first, config, dual, works, mouse_type, todo, speaks, wired, sent,
                 strays, late>>

\* Whether there is a second channel is read off the byte of before.
Probe ==
  /\ ppc = "probe"
  /\ ctl' = ctl \ {"off2"}
  /\ dual' = ("irq12" \in config)
  /\ Goto("probed")
  /\ UNCHANGED <<first, config, works, mouse_type, out, todo, speaks, wired, sent,
                 strays, late>>

Probed ==
  /\ ppc = "probed"
  /\ config' = IF dual THEN config \ {"irq12", "off2"} ELSE config
  /\ ctl' = IF dual THEN config' ELSE ctl \cup {"off2"}
  /\ Goto("test_kbd")
  /\ UNCHANGED <<first, dual, works, mouse_type, out, todo, speaks, wired, sent,
                 strays, late>>

Tested(d) ==
  /\ ppc = TestedStep[d] /\ Take
  /\ works' = IF Head(out).val = "passed" THEN works \cup {d} ELSE works
  /\ Goto(IF d = "kbd" /\ dual THEN "test_mouse" ELSE "enable")
  /\ UNCHANGED <<first, config, dual, mouse_type, ctl, todo, speaks, wired, sent,
                 strays, late>>

-----------------------------------------------------------------------------
(* Step 9: the devices.                                                    *)

\* Where init goes when it is through with a device.
After(d) ==
  IF d = "none" /\ "kbd" \in works THEN "kbd_reset"
  ELSE IF d # "mouse" /\ "mouse" \in works THEN "mouse_reset"
  ELSE "finish"

Enable ==
  /\ ppc = "enable"
  /\ config' = (config \cup (IF "kbd" \in works THEN {"irq1"} ELSE {})
                       \cup (IF "mouse" \in works THEN {"irq12"} ELSE {}))
               \ (IF "mouse" \in works THEN {"off2"} ELSE {})
  /\ ctl' = config'
  /\ Goto(After("none"))
  /\ UNCHANGED <<first, dual, works, mouse_type, out, todo, speaks, wired, sent,
                 strays, late>>

\* After the reset, the commands of init_keyboard and init_mouse: each is sent and
\* acknowledged, and answered by so many more bytes.
KbdScript ==
  <<[cmd |-> "disable_scanning", more |-> 0], [cmd |-> "identify", more |-> 2],
    [cmd |-> "scancode_set", more |-> 0], [cmd |-> "set_2", more |-> 0],
    [cmd |-> "scancode_set", more |-> 0], [cmd |-> "get_set", more |-> 1],
    [cmd |-> "enable_scanning", more |-> 0]>>
MouseScript ==
  <<[cmd |-> "set_defaults", more |-> 0], [cmd |-> "read_type", more |-> 1],
    [cmd |-> "enable_reporting", more |-> 0]>>
Script == [kbd |-> KbdScript, mouse |-> MouseScript]

Begin(d) == ppc' = "send" /\ dev' = d /\ step' = 1 /\ more' = 0

NextStep ==
  IF step < Len(Script[dev]) THEN ppc' = "send" /\ step' = step + 1 /\ more' = 0 /\ UNCHANGED dev
  ELSE Goto(After(dev))

\* set_mouse_type
TypeOf(val) == IF val \in {"standard", "wheel"} THEN val ELSE "unknown"

Reset(d) ==
  /\ ppc = ResetStep[d]
  /\ Receive(d, "reset")
  /\ Goto(AckStep[d])
  /\ UNCHANGED <<first, config, dual, works, mouse_type, ctl, out, wired, strays, late>>

\* The first byte has a timeout; the keyboard's second has none, and the two may
\* come in either order.  The mouse's first may be anything.
ResetAck(d) ==
  /\ ppc = AckStep[d]
  /\ \/ Take /\ first' = Head(out).val /\ Goto(ResultStep[d]) /\ UNCHANGED late
     \/ RunsOut /\ Goto(After(d)) /\ UNCHANGED first
  /\ UNCHANGED <<config, dual, works, mouse_type, ctl, todo, speaks, wired, sent, strays>>

KbdResult ==
  /\ ppc = "kbd_result" /\ Take
  /\ IF {first, Head(out).val} = {"ack", "passed"} THEN Begin("kbd")
     ELSE Goto(After("kbd"))
  /\ UNCHANGED <<first, config, dual, works, mouse_type, ctl, todo, speaks, wired,
                 sent, strays, late>>

MouseResult ==
  /\ ppc = "mouse_result"
  /\ \/ /\ Take /\ UNCHANGED late
        /\ Goto(IF Head(out).val = "passed" THEN "mouse_id" ELSE "finish")
     \/ RunsOut /\ Goto("finish")
  /\ UNCHANGED <<first, config, dual, works, mouse_type, ctl, todo, speaks, wired,
                 sent, strays>>

\* Mutant: the id that follows the self test is left in the buffer.
MouseIdLeft ==
  /\ ppc = "mouse_id"
  /\ Begin("mouse")
  /\ UNCHANGED <<first, config, dual, works, mouse_type, hwVars, sent, strays, late>>

MouseId ==
  /\ ppc = "mouse_id"
  /\ \/ Take /\ mouse_type' = TypeOf(Head(out).val) /\ UNCHANGED late
     \/ RunsOut /\ UNCHANGED mouse_type
  /\ Begin("mouse")
  /\ UNCHANGED <<first, config, dual, works, ctl, todo, speaks, wired, sent, strays>>

Send ==
  /\ ppc = "send"
  /\ Receive(dev, Script[dev][step].cmd)
  /\ Goto("ack")
  /\ UNCHANGED <<first, config, dual, works, mouse_type, ctl, out, wired, strays, late>>

\* log_ack goes on whatever it reads.
Ack ==
  /\ ppc = "ack" /\ Take
  /\ IF Script[dev][step].more = 0 THEN NextStep
     ELSE ppc' = "more" /\ more' = Script[dev][step].more /\ UNCHANGED <<dev, step>>
  /\ UNCHANGED <<first, config, dual, works, mouse_type, ctl, todo, speaks, wired,
                 sent, strays, late>>

More ==
  /\ ppc = "more"
  /\ \/ /\ Take /\ UNCHANGED late
        /\ mouse_type' = IF dev = "mouse" THEN TypeOf(Head(out).val) ELSE mouse_type
        /\ IF more = 1 THEN NextStep ELSE more' = more - 1 /\ UNCHANGED <<ppc, dev, step>>
     \/ RunsOut /\ NextStep /\ UNCHANGED mouse_type
  /\ UNCHANGED <<first, config, dual, works, ctl, todo, speaks, wired, sent, strays>>

Finish ==
  /\ ppc = "finish"
  /\ config' = config \cup {"translate"}
  /\ ctl' = config'
  /\ Goto("done")
  /\ UNCHANGED <<first, dual, works, mouse_type, out, todo, speaks, wired, sent,
                 strays, late>>

-----------------------------------------------------------------------------
Driver ==
  \/ Disable \/ Flush \/ Command \/ Configure \/ SelfTested \/ Probe \/ Probed
  \/ Enable \/ KbdResult \/ MouseResult \/ MouseId \/ Send \/ Ack \/ More \/ Finish
  \/ \E d \in Devs : Tested(d) \/ Reset(d) \/ ResetAck(d)

-----------------------------------------------------------------------------
(* Properties.                                                             *)

\* Where the driver reads, or waits for, a byte.
Reading ==
  ppc \in {"configure", "tested", "kbd_tested", "mouse_tested", "kbd_ack", "kbd_result",
           "mouse_ack", "mouse_result", "mouse_id", "ack", "more"}

\* Nobody has touched a key or the mouse yet and no answer was late.
Calm == strays = 0 /\ late = 0

\* Bytes do not say what they answer, and mod.rs never empties the buffer after
\* step 4: a byte too few or too many read anywhere would shift all the rest.
\* Until something comes unasked or late, each byte answers the last command.
AnswersInStep == Calm /\ Reading /\ out # <<>> => Head(out).of = sent

\* The byte in the driver and the one in the controller agree in the end, keys
\* pressed or not: a working port has its interrupt and its clock, the first port
\* is translated, and a second port that was not found is off.
PortsConfigured ==
  ppc = "done" =>
    /\ ctl = config
    /\ "kbd" \in works <=> "irq1" \in ctl
    /\ "mouse" \in works <=> "irq12" \in ctl
    /\ "translate" \in ctl /\ "off1" \notin ctl
    /\ "off2" \in ctl <=> ~dual

\* Left in peace, init leaves each good device that it finds talking, the mouse
\* with its type, and no byte behind for the interrupt handlers.  It finds the
\* second port only if firmware has left its interrupt enabled (mod.rs:477-478).
DevicesReady ==
  ppc = "done" /\ Calm =>
    /\ out = <<>> /\ todo = [d \in Devs |-> <<>>]
    /\ "kbd" \in wired.ports /\ wired.kbd \in {"at", "mf2"} => speaks["kbd"]
    /\ LET good == wired.mouse \in {"standard", "wheel"} IN
       "mouse" \in wired.ports /\ "irq12" \in wired.irqs /\ good =>
         speaks["mouse"] /\ mouse_type = wired.mouse
===============================================================================
