----------------------------- MODULE Ps2InitProofs -----------------------------
(* Proofs about ps2::init as a part of Boot, whatever is attached: the ports   *)
(* are configured in the end, and, left in peace, each byte answers the last  *)
(* command, so that the devices found are in use.                             *)
EXTENDS Boot, SequenceTheorems, TLAPS

-----------------------------------------------------------------------------
(* The PS/2 controller.                                                    *)

\* The steps of init: before the configuration byte is read, before the ports are
\* known, before the devices are reset, and with the devices.
EarlySteps == {"start", "flush", "read_config", "configure"}
ProbeSteps == {"self_test", "tested", "probe", "probed"}
TestSteps == {"test_kbd", "kbd_tested", "test_mouse", "mouse_tested", "enable"}
DeviceSteps ==
  {"kbd_reset", "kbd_ack", "kbd_result", "mouse_reset", "mouse_ack", "mouse_result",
   "mouse_id", "send", "ack", "more", "finish"}

FromFirmware == wired.irqs \cup {"translate"}
IsDual == dual <=> "irq12" \in wired.irqs

\* What works has its interrupt and its clock.
Configured ==
  /\ ctl = config /\ IsDual
  /\ works \subseteq Ps2!Devs
  /\ "kbd" \in works <=> "irq1" \in config
  /\ "mouse" \in works <=> "irq12" \in config
  /\ "off1" \notin config
  /\ "off2" \in config <=> ~dual
  /\ "mouse" \in works => dual

PortInv ==
  /\ ppc \in EarlySteps \cup ProbeSteps \cup TestSteps \cup DeviceSteps \cup {"done"}
  /\ wired \in Ps2!Wirings
  /\ ppc = "start" => ctl = FromFirmware
  /\ ppc \in EarlySteps \ {"start"} => ctl = FromFirmware \cup {"off1", "off2"}
  /\ ppc = "read_config" => out = <<>>
  /\ ppc = "configure" =>
       IF Ps2!Present THEN out # <<>> /\ Head(out).bits = ctl ELSE out = <<>>
  /\ ppc \notin EarlySteps => Ps2!Present
  /\ ppc \in EarlySteps \cup ProbeSteps \cup {"test_kbd", "kbd_tested"} => works = {}
  /\ ppc \in ProbeSteps => config = (wired.irqs \ {"irq1"}) \cup {"off2"}
  /\ ppc \in {"self_test", "probe"} => ctl = config
  /\ ppc = "probed" => ctl = config \ {"off2"} /\ IsDual
  /\ ppc \in TestSteps =>
       /\ ctl = config /\ IsDual
       /\ config = IF dual THEN {} ELSE {"off2"}
  /\ ppc \in {"test_mouse", "mouse_tested"} => dual /\ works \subseteq {"kbd"}
  /\ ppc = "enable" => works \subseteq (IF dual THEN Ps2!Devs ELSE {"kbd"})
  /\ ppc \in DeviceSteps => Configured /\ "translate" \notin config
  /\ ppc = "done" => Configured /\ "translate" \in config

LEMMA PortUnchanged ==
  ASSUME PortInv, UNCHANGED ps2Vars
  PROVE  PortInv'
  BY DEF ps2Vars, PortInv, FromFirmware, IsDual, Configured, Ps2!Present

LEMMA PortBytes ==
  ASSUME PortInv, NEW d \in Ps2!Devs, Ps2!Deliver(d) \/ Ps2!Stray(d)
  PROVE  PortInv'
  <1>1. UNCHANGED <<ppc, config, dual, works, ctl, wired>>
    BY DEF Ps2!Deliver, Ps2!Stray, Ps2!driverVars
  <1>2. ppc = "read_config" => out' = <<>>
    BY DEF PortInv, Ps2!Deliver, Ps2!Stray, Ps2!Off, EarlySteps
  <1>3. ppc = "configure" => out' = out
    BY DEF PortInv, Ps2!Deliver, Ps2!Stray, Ps2!Off, EarlySteps
  <1> QED
    BY <1>1, <1>2, <1>3 DEF PortInv, FromFirmware, IsDual, Configured, Ps2!Present

\* Up to the tests of the ports.
LEMMA PortSetUp ==
  ASSUME PortInv, Ps2!Disable \/ Ps2!Flush \/ Ps2!Configure \/ Ps2!SelfTested \/ Ps2!Probe \/ Ps2!Probed
  PROVE  PortInv'
  <1> USE DEF Ps2!Goto, Ps2!Take, Ps2!Present, EarlySteps, ProbeSteps, TestSteps, DeviceSteps
  <1>0. wired.irqs \subseteq {"irq1", "irq12"}
    BY DEF PortInv, Ps2!Wirings
  <1>1. CASE Ps2!Disable
    BY <1>1 DEF PortInv, Ps2!Disable, FromFirmware
  <1>2. CASE Ps2!Flush
    BY <1>2 DEF PortInv, Ps2!Flush, FromFirmware
  <1>3. CASE Ps2!Configure
    <2>1. Head(out).bits = wired.irqs \cup {"translate", "off1", "off2"}
      BY <1>3 DEF PortInv, Ps2!Configure, FromFirmware
    <2>2. config' = (wired.irqs \ {"irq1"}) \cup {"off2"}
      BY <1>0, <1>3, <2>1 DEF Ps2!Configure
    <2> QED
      BY <1>3, <2>2 DEF PortInv, Ps2!Configure, FromFirmware
  <1>4. CASE Ps2!SelfTested
    BY <1>4 DEF PortInv, Ps2!SelfTested
  <1>5. CASE Ps2!Probe
    BY <1>0, <1>5 DEF PortInv, Ps2!Probe, IsDual
  <1>6. CASE Ps2!Probed
    <2>1. config = (wired.irqs \ {"irq1"}) \cup {"off2"} /\ ctl = config \ {"off2"} /\ IsDual
      BY <1>6 DEF PortInv, Ps2!Probed
    <2>2. config' = IF dual THEN {} ELSE {"off2"}
      BY <1>0, <1>6, <2>1 DEF Ps2!Probed, IsDual
    <2>3. ctl' = config'
      BY <1>0, <1>6, <2>1, <2>2 DEF Ps2!Probed, IsDual
    <2> QED
      BY <1>6, <2>1, <2>2, <2>3 DEF PortInv, Ps2!Probed, IsDual
  <1> QED
    BY <1>1, <1>2, <1>3, <1>4, <1>5, <1>6

LEMMA PortTests ==
  ASSUME PortInv, Ps2!Command \/ (\E d \in Ps2!Devs : Ps2!Tested(d)) \/ Ps2!Enable
  PROVE  PortInv'
  <1> USE DEF Ps2!Goto, Ps2!Take, Ps2!Present, EarlySteps, ProbeSteps, TestSteps, DeviceSteps
  <1>1. CASE Ps2!Command
    <2>1. CASE ppc = "read_config"
      <3>1. /\ Ps2!Ask("config", ctl) /\ ppc' = "configure" /\ ctl' = ctl
            /\ UNCHANGED <<config, dual, works, wired>>
        BY <1>1, <2>1 DEF Ps2!Command
      <3>2. out = <<>>
        BY <2>1 DEF PortInv
      <3>3. out' = IF Ps2!Present THEN <<Ps2!Byte(sent', "config", ctl)>> ELSE <<>>
        BY <3>1, <3>2 DEF Ps2!Ask
      <3>4. IF Ps2!Present THEN out' # <<>> /\ Head(out').bits = ctl' ELSE out' = <<>>
        BY <3>1, <3>3 DEF Ps2!Byte
      <3> QED
        BY <2>1, <3>1, <3>4 DEF PortInv, FromFirmware
    <2>2. CASE ppc # "read_config"
      BY <1>1, <2>2 DEF PortInv, Ps2!Command, IsDual
    <2> QED
      BY <2>1, <2>2
  <1>2. CASE \E d \in Ps2!Devs : Ps2!Tested(d)
    <2>1. PICK d \in Ps2!Devs : Ps2!Tested(d)
      BY <1>2
    <2>2. /\ UNCHANGED <<config, dual, ctl, wired>>
          /\ works' = works \/ works' = works \cup {d}
      BY <2>1 DEF Ps2!Tested
    <2>3. CASE d = "kbd"
      <3>1. ppc = "kbd_tested" /\ ppc' = IF dual THEN "test_mouse" ELSE "enable"
        BY <2>1, <2>3 DEF Ps2!Tested, Ps2!TestedStep
      <3>2. works' \subseteq {"kbd"}
        BY <2>2, <2>3, <3>1 DEF PortInv
      <3> QED
        BY <2>2, <3>1, <3>2 DEF PortInv, IsDual, Ps2!Devs
    <2>4. CASE d = "mouse"
      <3>1. ppc = "mouse_tested" /\ ppc' = "enable"
        BY <2>1, <2>4 DEF Ps2!Tested, Ps2!TestedStep
      <3>2. works' \subseteq Ps2!Devs /\ dual
        BY <2>2, <2>4, <3>1 DEF PortInv, Ps2!Devs
      <3> QED
        BY <2>2, <3>1, <3>2 DEF PortInv, IsDual
    <2> QED
      BY <2>3, <2>4 DEF Ps2!Devs
  <1>3. CASE Ps2!Enable
    <2>1. /\ config = IF dual THEN {} ELSE {"off2"}
          /\ works \subseteq (IF dual THEN Ps2!Devs ELSE {"kbd"}) /\ IsDual
      BY <1>3 DEF PortInv, Ps2!Enable
    <2>2. /\ ctl' = config' /\ UNCHANGED <<dual, works, wired>>
          /\ ppc' \in {"kbd_reset", "mouse_reset", "finish"}
      BY <1>3 DEF Ps2!Enable, Ps2!After
    <2>3. config' = ((config \cup (IF "kbd" \in works THEN {"irq1"} ELSE {})
                             \cup (IF "mouse" \in works THEN {"irq12"} ELSE {}))
                     \ (IF "mouse" \in works THEN {"off2"} ELSE {}))
      BY <1>3 DEF Ps2!Enable
    <2>4. /\ "irq1" \in config' <=> "kbd" \in works
          /\ "irq12" \in config' <=> "mouse" \in works
          /\ "off1" \notin config' /\ "translate" \notin config'
          /\ "off2" \in config' <=> ~dual
          /\ "mouse" \in works => dual
      <3>1. "mouse" \in works => dual
        BY <2>1
      <3>2. CASE dual
        BY <2>1, <2>3, <3>1, <3>2
      <3>3. CASE ~dual
        BY <2>1, <2>3, <3>1, <3>3
      <3> QED
        BY <3>1, <3>2, <3>3
    <2>5. Configured' /\ "translate" \notin config'
      BY <2>1, <2>2, <2>4 DEF Configured, IsDual, Ps2!Devs
    <2>6. Ps2!Present'
      BY <1>3, <2>2 DEF PortInv, Ps2!Enable
    <2> QED
      BY <2>2, <2>5, <2>6 DEF PortInv
  <1> QED
    BY <1>1, <1>2, <1>3

LEMMA StepNames ==
  /\ Ps2!TestedStep["kbd"] = "kbd_tested" /\ Ps2!TestedStep["mouse"] = "mouse_tested"
  /\ Ps2!ResetStep["kbd"] = "kbd_reset" /\ Ps2!ResetStep["mouse"] = "mouse_reset"
  /\ Ps2!AckStep["kbd"] = "kbd_ack" /\ Ps2!AckStep["mouse"] = "mouse_ack"
  /\ Ps2!ResultStep["kbd"] = "kbd_result" /\ Ps2!ResultStep["mouse"] = "mouse_result"
  BY DEF Ps2!TestedStep, Ps2!ResetStep, Ps2!AckStep, Ps2!ResultStep

\* With the devices, the byte stays as it is until the end.
LEMMA PortDevices ==
  ASSUME PortInv,
         \/ Ps2!KbdResult \/ Ps2!MouseResult \/ Ps2!MouseId \/ Ps2!Send \/ Ps2!Ack \/ Ps2!More
         \/ Ps2!Finish
         \/ \E d \in Ps2!Devs : Ps2!Reset(d) \/ Ps2!ResetAck(d)
  PROVE  PortInv'
  <1> USE DEF EarlySteps, ProbeSteps, TestSteps, DeviceSteps, Ps2!Present
  <1>1. CASE Ps2!Finish
    BY <1>1 DEF PortInv, Configured, IsDual, Ps2!Finish, Ps2!Goto
  <1>2. CASE ~Ps2!Finish
    <2>1. \A d : Ps2!After(d) \in {"kbd_reset", "mouse_reset", "finish"}
      BY DEF Ps2!After
    <2> DEFINE Leads(p) == p \in DeviceSteps
    <2>2. UNCHANGED <<config, dual, works, ctl, wired>>
      BY <1>2 DEF Ps2!KbdResult, Ps2!MouseResult, Ps2!MouseId, Ps2!Send, Ps2!Ack, Ps2!More, Ps2!Reset,
         Ps2!ResetAck
    <2>3. ASSUME NEW d \in {"kbd", "mouse"}, Ps2!Reset(d)
          PROVE  Leads(ppc) /\ Leads(ppc')
      <3>1. ppc = Ps2!ResetStep[d] /\ ppc' = Ps2!AckStep[d]
        BY <2>3 DEF Ps2!Reset, Ps2!Goto
      <3> QED
        BY <3>1, StepNames
    <2>4. ASSUME NEW d \in {"kbd", "mouse"}, Ps2!ResetAck(d)
          PROVE  Leads(ppc) /\ Leads(ppc')
      <3>1. ppc = Ps2!AckStep[d] /\ (ppc' = Ps2!ResultStep[d] \/ ppc' = Ps2!After(d))
        BY <2>4 DEF Ps2!ResetAck, Ps2!Goto
      <3> QED
        BY <2>1, <3>1, StepNames
    <2>5. Ps2!NextStep => Leads(ppc')
      BY <2>1 DEF Ps2!NextStep, Ps2!Goto
    <2>6. Ps2!KbdResult => Leads(ppc) /\ Leads(ppc')
      BY <2>1 DEF Ps2!KbdResult, Ps2!Begin, Ps2!Goto
    <2>7. Ps2!MouseResult => Leads(ppc) /\ Leads(ppc')
      BY DEF Ps2!MouseResult, Ps2!Goto
    <2>8. Ps2!MouseId \/ Ps2!Send => Leads(ppc) /\ Leads(ppc')
      BY DEF Ps2!MouseId, Ps2!Begin, Ps2!Send, Ps2!Goto
    <2>9. Ps2!Ack \/ Ps2!More => Leads(ppc) /\ (Ps2!NextStep \/ ppc' \in {"more", ppc})
      BY DEF Ps2!Ack, Ps2!More
    <2>10. Ps2!Ack \/ Ps2!More => Leads(ppc) /\ Leads(ppc')
      BY <2>5, <2>9
    <2> HIDE DEF Leads
    <2>11. Leads(ppc) /\ Leads(ppc')
      BY <1>2, <2>3, <2>4, <2>6, <2>7, <2>8, <2>10 DEF Ps2!Devs
    <2>12. ppc \in DeviceSteps /\ ppc' \in DeviceSteps
      BY <2>11 DEF Leads
    <2> QED
      BY <2>2, <2>12 DEF PortInv, Configured, IsDual
  <1> QED
    BY <1>1, <1>2

LEMMA PortInit == Init => PortInv
  <1> SUFFICES ASSUME NEW m \in Machines, BootOn(m)
               PROVE  PortInv
    BY DEF Init
  <1>1. m.wired \in Ps2!Wirings
    BY MachinesAssumption
  <1> QED
    BY <1>1 DEF BootOn, Ps2!Start, PortInv, FromFirmware, EarlySteps, ProbeSteps, TestSteps,
       DeviceSteps

LEMMA PortNext == PortInv /\ [Next]_vars => PortInv'
  <1> SUFFICES ASSUME PortInv, [Next]_vars PROVE PortInv'
    OBVIOUS
  <1>1. CASE Ps2!Driver
    BY <1>1, PortSetUp, PortTests, PortDevices DEF Ps2!Driver
  <1>2. CASE \E d \in Ps2!Devs : Byte(d) \/ Stray(d)
    BY <1>2, PortBytes DEF Byte, Stray
  <1>3. CASE UNCHANGED ps2Vars
    BY <1>3, PortUnchanged
  <1> QED
    BY <1>1, <1>2, <1>3 DEF Next, Kernel, InitHeap, InitPci, InitAhci, InitNvme, InitStorage,
       InitPs2, Ahci, Nvme, vars

\* The byte in the driver and the one in the controller agree in the end.
THEOREM ConfiguredInTheEnd == Spec => []PortsConfigured
  <1>1. PortInv => PortsConfigured
    BY DEF PortInv, Configured, PortsConfigured, Ps2!PortsConfigured
  <1> QED
    BY <1>1, PortInit, PortNext, PTL DEF Spec


-----------------------------------------------------------------------------
(* PS/2, as long as nothing comes unasked and no answer is late.           *)

\* Steps that read what the 8042 answers, and what a device answers; that device.
Asking == {"configure", "tested", "kbd_tested", "mouse_tested"}
KbdTalks == {"kbd_ack", "kbd_result"}
MouseTalks == {"mouse_ack", "mouse_result", "mouse_id"}
Scripted == {"send", "ack", "more"}
Talking == KbdTalks \cup MouseTalks \cup {"ack", "more"}
Partner ==
  IF ppc \in Scripted THEN dev ELSE IF ppc \in {"kbd_reset"} \cup KbdTalks THEN "kbd" ELSE "mouse"

\* The bytes of an answer to the last command, and that these are what comes: none
\* of them in the output buffer yet, or the first.
Words == {"ack", "passed", "failed", "ab", "83", "set_2", "standard", "wheel"}
Answer(vals) == [i \in DOMAIN vals |-> Ps2!Byte(sent, vals[i], {})]
Coming(d, vals) ==
  \/ out = <<>> /\ todo[d] = Answer(vals)
  \/ /\ vals # <<>> /\ out = <<Ps2!Byte(sent, Head(vals), {})>>
     /\ todo[d] = Answer(Tail(vals))

Sound(d) == wired[d] \notin {"absent", "failing"}
Exchanged == Ps2!Script[dev][step]
ResetAnswer(d) == IF wired[d] = "absent" THEN <<>> ELSE Ps2!Answers(d, "reset")

\* What may be left of an answer after its first byte.
Rests == {<<>>, <<"ab", "83">>, <<"83">>, <<"set_2">>, <<"standard">>, <<"wheel">>}

AsWired(d) == d \in works <=> d \in wired.ports /\ (d = "mouse" => dual)

\* What the tests of the ports have told is true.
TestInv ==
  /\ ppc = "kbd_tested" => Head(out).val = Ps2!Passes("kbd" \in wired.ports)
  /\ ppc = "mouse_tested" => Head(out).val = Ps2!Passes("mouse" \in wired.ports)
  /\ ppc \in {"test_mouse", "mouse_tested", "enable", "done"} \cup DeviceSteps => AsWired("kbd")
  /\ ppc \in {"enable", "done"} \cup DeviceSteps => AsWired("mouse")

\* The bytes to come are the answer to the last command, or the rest of it.
AnswerInv ==
  /\ DOMAIN todo = Ps2!Devs /\ DOMAIN speaks = Ps2!Devs
  /\ \A d \in Ps2!Devs : ppc \notin Talking \/ d # Partner => todo[d] = <<>>
  /\ ppc \notin {"start", "flush"} \cup Asking \cup Talking => out = <<>>
  /\ ppc \in Asking /\ out # <<>> => out = <<Head(out)>> /\ Head(out).of = sent
  /\ ppc \in {"kbd_reset"} \cup KbdTalks => "kbd" \in works
  /\ ppc \in {"mouse_reset"} \cup MouseTalks => "mouse" \in works
  /\ ppc = "kbd_ack" => Coming("kbd", ResetAnswer("kbd"))
  /\ ppc = "mouse_ack" => Coming("mouse", ResetAnswer("mouse"))
  /\ ppc = "kbd_result" =>
       wired.kbd # "absent" /\ first = "ack" /\ Coming("kbd", Tail(ResetAnswer("kbd")))
  /\ ppc = "mouse_result" =>
       wired.mouse # "absent" /\ Coming("mouse", Tail(ResetAnswer("mouse")))
  /\ ppc = "mouse_id" => Sound("mouse") /\ Coming("mouse", <<wired.mouse>>)
  /\ ppc \in Scripted =>
       dev \in works /\ Sound(dev) /\ step \in DOMAIN Ps2!Script[dev]
  /\ ppc = "ack" => Coming(dev, Ps2!Answers(dev, Exchanged.cmd))
  /\ ppc = "more" =>
       /\ more \in 1 .. Exchanged.more
       /\ \E vals \in Rests :
            /\ Coming(dev, vals)
            /\ Len(vals) = more \/ (dev = "kbd" /\ vals = <<>>)
            /\ dev = "mouse" => vals = <<wired.mouse>>

\* Devices that init is through with, or about to be, are in use.
KbdThrough ==
  \/ ppc \in {"mouse_reset", "finish", "done"} \cup MouseTalks
  \/ ppc \in Scripted /\ dev = "mouse"
  \/ ppc = "ack" /\ dev = "kbd" /\ step = Len(Ps2!KbdScript)
MouseThrough ==
  ppc \in {"finish", "done"} \/ (ppc = "ack" /\ dev = "mouse" /\ step = Len(Ps2!MouseScript))
TypeKnown == ppc \in {"finish", "done"} \/ (ppc \in Scripted /\ dev = "mouse")
UseInv ==
  /\ KbdThrough /\ "kbd" \in works /\ Sound("kbd") => speaks["kbd"]
  /\ MouseThrough /\ "mouse" \in works /\ Sound("mouse") => speaks["mouse"]
  /\ TypeKnown /\ "mouse" \in works /\ Sound("mouse") => mouse_type = wired.mouse

InStep == TestInv /\ AnswerInv /\ UseInv
CalmInv ==
  /\ strays \in Nat /\ late \in Nat
  /\ Ps2!Calm => InStep

LEMMA AnswerOf ==
  /\ Answer(<<>>) = <<>>
  /\ \A vals \in Seq(Words) \ {<<>>} :
       /\ Answer(vals) # <<>>
       /\ Head(Answer(vals)) = Ps2!Byte(sent, Head(vals), {})
       /\ Tail(Answer(vals)) = Answer(Tail(vals))
  <1>1. Answer(<<>>) = <<>>
    BY DEF Answer
  <1>2. ASSUME NEW vals \in Seq(Words), vals # <<>>
        PROVE  /\ Answer(vals) # <<>>
               /\ Head(Answer(vals)) = Ps2!Byte(sent, Head(vals), {})
               /\ Tail(Answer(vals)) = Answer(Tail(vals))
    <2> DEFINE of(w) == Ps2!Byte(sent, w, {})
               rest == Tail(vals)
    <2>1. Answer(vals) = [i \in 1 .. Len(vals) |-> of(vals[i])]
      BY DEF Answer
    <2>2. /\ rest \in Seq(Words) /\ Len(rest) = Len(vals) - 1 /\ Len(vals) \in Nat \ {0}
          /\ \A i \in 1 .. Len(rest) : rest[i] = vals[i + 1]
      BY <1>2
    <2>3. Answer(rest) = [i \in 1 .. Len(rest) |-> of(rest[i])]
      BY <2>2 DEF Answer
    <2>4. Head(vals) = vals[1]
      BY <1>2
    <2> HIDE DEF of, rest
    <2>5. Answer(vals) \in Seq({of(w) : w \in Words}) /\ Len(Answer(vals)) = Len(vals)
      BY <1>2, <2>1, <2>2
    <2>6. Answer(vals) # <<>> /\ Head(Answer(vals)) = of(vals[1])
      BY <2>1, <2>2, <2>5
    <2> DEFINE after == Tail(Answer(vals))
    <2>7. /\ after \in Seq({of(w) : w \in Words}) /\ Len(after) = Len(rest)
          /\ \A i \in 1 .. Len(rest) : after[i] = Answer(vals)[i + 1]
      BY <2>2, <2>5, <2>6
    <2>8. after = Answer(rest)
      <3> HIDE DEF after
      <3>1. DOMAIN after = 1 .. Len(rest) /\ after = [i \in 1 .. Len(rest) |-> after[i]]
        BY <2>7
      <3>2. \A i \in 1 .. Len(rest) : after[i] = of(rest[i])
        BY <2>1, <2>2, <2>7
      <3> QED
        BY <2>3, <3>1, <3>2
    <2> QED
      BY <2>4, <2>6, <2>8 DEF of, rest
  <1> QED
    BY <1>1, <1>2

\* A device that gets a command has the answer ready.
LEMMA Received ==
  ASSUME NEW d \in Ps2!Devs, NEW cmd, Ps2!Receive(d, cmd),
         DOMAIN todo = Ps2!Devs, DOMAIN speaks = Ps2!Devs, todo[d] = <<>>,
         out = <<>>, UNCHANGED <<out, wired>>
  PROVE  /\ Coming(d, IF wired[d] = "absent" THEN <<>> ELSE Ps2!Answers(d, cmd))'
         /\ DOMAIN todo' = Ps2!Devs /\ DOMAIN speaks' = Ps2!Devs
         /\ \A e \in Ps2!Devs \ {d} : todo'[e] = todo[e] /\ speaks'[e] = speaks[e]
  <1>1. CASE wired[d] = "absent"
    <2>1. UNCHANGED <<todo, speaks>>
      BY <1>1 DEF Ps2!Receive
    <2>2. Answer(<<>>)' = <<>>
      BY DEF Answer
    <2> QED
      BY <1>1, <2>1, <2>2 DEF Coming
  <1>2. CASE wired[d] # "absent"
    <2> DEFINE a == Ps2!Answers(d, cmd)
    <2>1. a' = a
      BY DEF Ps2!Answers
    <2>2. todo' = [todo EXCEPT ![d] = [i \in DOMAIN a |-> Ps2!Byte(sent', a[i], {})]]
      BY <1>2 DEF Ps2!Receive
    <2> HIDE DEF a
    <2>3. todo'[d] = Answer(a)'
      BY <2>1, <2>2 DEF Answer
    <2>4. /\ DOMAIN todo' = Ps2!Devs
          /\ \A e \in Ps2!Devs \ {d} : todo'[e] = todo[e]
      BY <2>2
    <2>5. /\ DOMAIN speaks' = Ps2!Devs
          /\ \A e \in Ps2!Devs \ {d} : speaks'[e] = speaks[e]
      BY <1>2 DEF Ps2!Receive
    <2>6. Coming(d, a)'
      BY <2>3 DEF Coming
    <2> QED
      BY <1>2, <2>1, <2>4, <2>5, <2>6 DEF a
  <1> QED
    BY <1>1, <1>2

\* A byte that is read is the first of those to come.
LEMMA Taken ==
  ASSUME NEW d \in Ps2!Devs, NEW vals \in Seq(Words), Coming(d, vals), Ps2!Take,
         UNCHANGED <<todo, sent>>
  PROVE  /\ vals # <<>> /\ Head(out).val = Head(vals)
         /\ out' = <<>> /\ Coming(d, Tail(vals))'
         /\ Tail(vals) = <<>> => todo'[d] = <<>>
  <1>1. /\ vals # <<>> /\ out = <<Ps2!Byte(sent, Head(vals), {})>>
        /\ todo[d] = Answer(Tail(vals)) /\ out' = Tail(out)
    BY DEF Coming, Ps2!Take
  <1>2. Head(out).val = Head(vals) /\ out' = <<>>
    BY <1>1 DEF Ps2!Byte
  <1>3. todo'[d] = Answer(Tail(vals))'
    BY <1>1 DEF Answer
  <1> QED
    BY <1>1, <1>2, <1>3, AnswerOf DEF Coming

\* A read of a device that works ends only when there is nothing to come.
LEMMA RanOut ==
  ASSUME PortInv, ppc \in DeviceSteps, CalmInv, Ps2!Calm', UNCHANGED strays,
         NEW d \in works, NEW vals \in Seq(Words), Coming(d, vals), Ps2!RunsOut
  PROVE  vals = <<>> /\ todo[d] = <<>> /\ out = <<>> /\ out' = <<>>
  <1>1. out = <<>> /\ out' = <<>> /\ todo[d] = Answer(vals)
    BY DEF Ps2!RunsOut, Coming
  <1>2. ~Ps2!Due
    BY DEF Ps2!RunsOut, Ps2!Calm, CalmInv
  <1>3. d \in Ps2!Devs /\ Ps2!Off(d) \notin ctl
    BY DEF PortInv, Configured, Ps2!Off, Ps2!Devs
  <1>4. todo[d] = <<>>
    BY <1>2, <1>3 DEF Ps2!Due
  <1> QED
    BY <1>1, <1>4, AnswerOf

\* A byte that goes into the buffer is the first of those to come.
LEMMA Delivered ==
  ASSUME NEW d \in Ps2!Devs, NEW vals \in Seq(Words), Coming(d, vals), Ps2!Deliver(d),
         DOMAIN todo = Ps2!Devs
  PROVE  /\ Coming(d, vals)' /\ DOMAIN todo' = Ps2!Devs
         /\ \A e \in Ps2!Devs \ {d} : todo'[e] = todo[e]
  <1>1. /\ out = <<>> /\ todo[d] = Answer(vals) /\ todo[d] # <<>>
        /\ out' = <<Head(todo[d])>> /\ todo' = [todo EXCEPT ![d] = Tail(@)] /\ sent' = sent
    BY DEF Ps2!Deliver, Coming
  <1>2. vals # <<>>
    BY <1>1, AnswerOf
  <1>3. out' = <<Ps2!Byte(sent, Head(vals), {})>> /\ todo'[d] = Answer(Tail(vals))
    BY <1>1, <1>2, AnswerOf
  <1>4. Answer(Tail(vals))' = Answer(Tail(vals))
    BY <1>1 DEF Answer
  <1> QED
    BY <1>1, <1>2, <1>3, <1>4 DEF Coming


\* What the devices answer to a reset, and to the commands of their scripts.
LEMMA Resets ==
  ASSUME PortInv
  PROVE  /\ ResetAnswer("kbd") =
              IF wired.kbd = "absent" THEN <<>>
              ELSE IF wired.kbd = "failing" THEN <<"ack", "failed">> ELSE <<"ack", "passed">>
         /\ ResetAnswer("mouse") =
              IF wired.mouse = "absent" THEN <<>>
              ELSE IF wired.mouse = "failing" THEN <<"ack", "failed">>
              ELSE <<"ack", "passed", wired.mouse>>
         /\ Sound("mouse") => wired.mouse \in {"standard", "wheel"}
  BY DEF ResetAnswer, Ps2!Answers, PortInv, Ps2!Wirings, Sound

\* The commands of the two scripts, and how many bytes follow the first of the answer.
LEMMA ScriptsAre == Ps2!Script["kbd"] = Ps2!KbdScript /\ Ps2!Script["mouse"] = Ps2!MouseScript
  BY DEF Ps2!Script

LEMMA ScriptLengths ==
  /\ Len(Ps2!Script["kbd"]) = 7 /\ DOMAIN Ps2!Script["kbd"] = 1 .. 7
  /\ Len(Ps2!Script["mouse"]) = 3 /\ DOMAIN Ps2!Script["mouse"] = 1 .. 3
  <1>1. Len(Ps2!Script["kbd"]) = 7 /\ DOMAIN Ps2!Script["kbd"] = 1 .. 7
    BY ScriptsAre DEF Ps2!KbdScript
  <1>2. Len(Ps2!Script["mouse"]) = 3 /\ DOMAIN Ps2!Script["mouse"] = 1 .. 3
    BY ScriptsAre DEF Ps2!MouseScript
  <1> QED
    BY <1>1, <1>2

LEMMA KbdTable ==
  /\ Ps2!Script["kbd"][1].cmd = "disable_scanning" /\ Ps2!Script["kbd"][1].more = 0
  /\ Ps2!Script["kbd"][2].cmd = "identify" /\ Ps2!Script["kbd"][2].more = 2
  /\ Ps2!Script["kbd"][3].cmd = "scancode_set" /\ Ps2!Script["kbd"][3].more = 0
  /\ Ps2!Script["kbd"][4].cmd = "set_2" /\ Ps2!Script["kbd"][4].more = 0
  /\ Ps2!Script["kbd"][5].cmd = "scancode_set" /\ Ps2!Script["kbd"][5].more = 0
  /\ Ps2!Script["kbd"][6].cmd = "get_set" /\ Ps2!Script["kbd"][6].more = 1
  /\ Ps2!Script["kbd"][7].cmd = "enable_scanning" /\ Ps2!Script["kbd"][7].more = 0
  BY ScriptsAre DEF Ps2!KbdScript

LEMMA MouseTable ==
  /\ Ps2!Script["mouse"][1].cmd = "set_defaults" /\ Ps2!Script["mouse"][1].more = 0
  /\ Ps2!Script["mouse"][2].cmd = "read_type" /\ Ps2!Script["mouse"][2].more = 1
  /\ Ps2!Script["mouse"][3].cmd = "enable_reporting" /\ Ps2!Script["mouse"][3].more = 0
  BY ScriptsAre DEF Ps2!MouseScript

\* What can be said of an answer: it has a first byte, and the rest of it is as long
\* as init expects; but a keyboard may have no more to say.
Fits(a, d, n) ==
  LET e == Ps2!Script[d][n] IN
  /\ a \in Seq(Words) /\ a # <<>> /\ Tail(a) \in Rests
  /\ e.more \in 0 .. 2
  /\ Len(Tail(a)) = e.more \/ (d = "kbd" /\ Tail(a) = <<>>)
  /\ e.more = 0 => Tail(a) = <<>>
  /\ d = "mouse" /\ e.more > 0 => Tail(a) = <<wired.mouse>> /\ e.more = 1

LEMMA JustAck ==
  ASSUME NEW d, NEW n, Ps2!Script[d][n].more = 0
  PROVE  Fits(<<"ack">>, d, n)
  <1>1. <<"ack">> \in Seq(Words) /\ <<"ack">> # <<>> /\ Tail(<<"ack">>) = <<>> /\ Len(<<>>) = 0
    BY DEF Words
  <1>2. Tail(<<"ack">>) \in Rests
    BY <1>1 DEF Rests
  <1> QED
    BY <1>1, <1>2 DEF Fits

LEMMA KbdScripts ==
  ASSUME NEW n \in 1 .. 7
  PROVE  Fits(Ps2!Answers("kbd", Ps2!Script["kbd"][n].cmd), "kbd", n)
  <1> DEFINE c == Ps2!Script["kbd"][n].cmd
             a == Ps2!Answers("kbd", c)
  <1>1. CASE n \notin {2, 6}
    <2>1. n = 1 \/ n = 3 \/ n = 4 \/ n = 5 \/ n = 7
      BY <1>1
    <2>2. /\ c \in {"disable_scanning", "scancode_set", "set_2", "enable_scanning"}
          /\ Ps2!Script["kbd"][n].more = 0
      BY <2>1, KbdTable
    <2> HIDE DEF c
    <2>3. a = <<"ack">>
      BY <2>2 DEF Ps2!Answers
    <2> QED
      BY <2>2, <2>3, JustAck DEF c
  <1>2. CASE n = 2
    <2>1. c = "identify" /\ Ps2!Script["kbd"][n].more = 2
      BY <1>2, KbdTable
    <2> HIDE DEF c
    <2>2. a = <<"ack">> \/ a = <<"ack", "ab", "83">>
      BY <2>1 DEF Ps2!Answers
    <2>3. CASE a = <<"ack">>
      <3>1. <<"ack">> \in Seq(Words) /\ <<"ack">> # <<>> /\ Tail(<<"ack">>) = <<>>
        BY DEF Words
      <3>2. Tail(<<"ack">>) \in Rests
        BY <3>1 DEF Rests
      <3> HIDE DEF a
      <3>3. Fits(a, "kbd", n)
        BY <2>1, <2>3, <3>1, <3>2 DEF Fits
      <3> QED
        BY <3>3 DEF a, c
    <2>4. CASE a = <<"ack", "ab", "83">>
      <3>1. /\ <<"ack", "ab", "83">> \in Seq(Words) /\ <<"ack", "ab", "83">> # <<>>
            /\ Tail(<<"ack", "ab", "83">>) = <<"ab", "83">> /\ Len(<<"ab", "83">>) = 2
        BY DEF Words
      <3>2. Tail(<<"ack", "ab", "83">>) \in Rests
        BY <3>1 DEF Rests
      <3> HIDE DEF a
      <3>3. Fits(a, "kbd", n)
        BY <2>1, <2>4, <3>1, <3>2 DEF Fits
      <3> QED
        BY <3>3 DEF a, c
    <2> QED
      BY <2>2, <2>3, <2>4
  <1>3. CASE n = 6
    <2>1. c = "get_set" /\ Ps2!Script["kbd"][n].more = 1
      BY <1>3, KbdTable
    <2> HIDE DEF c
    <2>2. a = <<"ack", "set_2">>
      BY <2>1 DEF Ps2!Answers
    <2>3. <<"ack", "set_2">> \in Seq(Words) /\ Len(<<"set_2">>) = 1
      BY DEF Words
    <2>4. <<"ack", "set_2">> # <<>> /\ Tail(<<"ack", "set_2">>) = <<"set_2">>
      OBVIOUS
    <2>5. Tail(<<"ack", "set_2">>) \in Rests
      BY <2>4 DEF Rests
    <2> HIDE DEF a
    <2>6. Fits(a, "kbd", n)
      BY <2>1, <2>2, <2>3, <2>4, <2>5 DEF Fits
    <2> QED
      BY <2>6 DEF a, c
  <1> QED
    BY <1>1, <1>2, <1>3

LEMMA MouseScripts ==
  ASSUME PortInv, Sound("mouse"), NEW n \in 1 .. 3
  PROVE  Fits(Ps2!Answers("mouse", Ps2!Script["mouse"][n].cmd), "mouse", n)
  <1> DEFINE c == Ps2!Script["mouse"][n].cmd
             a == Ps2!Answers("mouse", c)
  <1>1. CASE n # 2
    <2>1. n = 1 \/ n = 3
      BY <1>1
    <2>2. c \in {"set_defaults", "enable_reporting"} /\ Ps2!Script["mouse"][n].more = 0
      BY <2>1, MouseTable
    <2> HIDE DEF c
    <2>3. a = <<"ack">>
      BY <2>2 DEF Ps2!Answers
    <2> QED
      BY <2>2, <2>3, JustAck DEF c
  <1>2. CASE n = 2
    <2>1. c = "read_type" /\ Ps2!Script["mouse"][n].more = 1
      BY <1>2, MouseTable
    <2> HIDE DEF c
    <2>2. PICK w \in {"standard", "wheel"} : w = wired.mouse
      BY DEF PortInv, Ps2!Wirings, Sound
    <2>3. a = <<"ack", w>>
      BY <2>1, <2>2 DEF Ps2!Answers
    <2>4. <<"ack", w>> \in Seq(Words) /\ Len(<<w>>) = 1
      BY DEF Words
    <2>5. <<"ack", w>> # <<>> /\ Tail(<<"ack", w>>) = <<w>>
      OBVIOUS
    <2>6. Tail(<<"ack", w>>) \in Rests
      BY <2>2, <2>5 DEF Rests
    <2> HIDE DEF a
    <2>7. Fits(a, "mouse", n)
      BY <2>1, <2>2, <2>3, <2>4, <2>5, <2>6 DEF Fits
    <2> QED
      BY <2>7 DEF a, c
  <1> QED
    BY <1>1, <1>2


\* What the 8042 has answered is one byte.
LEMMA Emptied ==
  ASSUME InStep, ppc \in Asking, Ps2!Take
  PROVE  out' = <<>>
  <1>1. out = <<Head(out)>> /\ out' = Tail(out)
    BY DEF InStep, AnswerInv, Ps2!Take
  <1> DEFINE b == Head(out)
  <1> HIDE DEF b
  <1>2. out = <<b>> /\ Tail(<<b>>) = <<>>
    BY <1>1 DEF b
  <1> QED
    BY <1>1, <1>2

\* The tests of the ports.
LEMMA CalmTests ==
  ASSUME PortInv, InStep,
         \/ Ps2!Disable \/ Ps2!Flush \/ Ps2!Command \/ Ps2!Configure \/ Ps2!SelfTested
         \/ Ps2!Probe \/ Ps2!Probed \/ Ps2!Enable
         \/ \E d \in Ps2!Devs : Ps2!Tested(d)
  PROVE  InStep'
  <1> DEFINE Before == {"start", "flush", "read_config", "self_test", "probe", "probed",
                        "test_kbd", "test_mouse", "enable"} \cup Asking
  <1>1. ppc \in Before /\ UNCHANGED <<todo, speaks, wired>>
    BY StepNames DEF Asking, Ps2!Devs, Ps2!Disable, Ps2!Flush, Ps2!Command, Ps2!Configure, Ps2!SelfTested,
       Ps2!Probe, Ps2!Probed, Ps2!Enable, Ps2!Tested, Ps2!hwVars
  <1>2. /\ DOMAIN todo = Ps2!Devs /\ DOMAIN speaks = Ps2!Devs
        /\ \A d \in Ps2!Devs : todo[d] = <<>>
    BY <1>1 DEF InStep, AnswerInv, Talking, KbdTalks, MouseTalks, Asking
  <1>3. CASE Ps2!Disable \/ Ps2!Flush
    <2>1. ppc' = "flush" \/ (ppc' = "read_config" /\ out' = <<>>)
      BY <1>3 DEF Ps2!Disable, Ps2!Flush, Ps2!Goto
    <2>2. AnswerInv'
      BY <1>1, <1>2, <2>1 DEF AnswerInv, Asking, Talking, KbdTalks, MouseTalks, Scripted
    <2>3. TestInv' /\ UseInv'
      BY <2>1 DEF TestInv, UseInv, KbdThrough, MouseThrough, TypeKnown, Scripted, MouseTalks,
         DeviceSteps
    <2> QED
      BY <2>2, <2>3 DEF InStep
  <1>4. CASE Ps2!Command
    <2>1. out = <<>>
      BY <1>4 DEF InStep, AnswerInv, Ps2!Command, Asking, Talking, KbdTalks, MouseTalks
    <2>2. /\ UNCHANGED <<works, dual>>
          /\ ppc' = "configure" \/ Ps2!Present
          /\ \E val, bits :
               /\ Ps2!Ask(val, bits)
               /\ ppc' = "kbd_tested" => val = Ps2!Passes("kbd" \in wired.ports)
               /\ ppc' = "mouse_tested" => val = Ps2!Passes("mouse" \in wired.ports)
      BY <1>4 DEF PortInv, EarlySteps, Ps2!Command, Ps2!Goto
    <2>3. PICK val, bits :
            /\ out' = IF Ps2!Present THEN <<Ps2!Byte(sent', val, bits)>> ELSE <<>>
            /\ ppc' = "kbd_tested" => val = Ps2!Passes("kbd" \in wired.ports)
            /\ ppc' = "mouse_tested" => val = Ps2!Passes("mouse" \in wired.ports)
      BY <2>1, <2>2 DEF Ps2!Ask
    <2>4. /\ out' # <<>> => out' = <<Head(out')>> /\ Head(out').of = sent'
          /\ ppc' # "configure" => Head(out').val = val
      BY <2>2, <2>3 DEF Ps2!Byte
    <2>5. ppc' \in Asking /\ (ppc' = "mouse_tested" => ppc = "test_mouse")
      BY <1>4 DEF Ps2!Command, Ps2!Goto, Asking
    <2>6. AnswerInv'
      BY <1>1, <1>2, <2>4, <2>5 DEF AnswerInv, Asking, Talking, KbdTalks, MouseTalks, Scripted
    <2>7. TestInv'
      BY <1>1, <2>2, <2>3, <2>4, <2>5 DEF InStep, TestInv, Asking, DeviceSteps, AsWired
    <2>8. UseInv'
      BY <2>5 DEF UseInv, KbdThrough, MouseThrough, TypeKnown, Scripted, MouseTalks, Asking
    <2> QED
      BY <2>6, <2>7, <2>8 DEF InStep
  <1>5. CASE Ps2!Configure \/ Ps2!SelfTested \/ Ps2!Probe \/ Ps2!Probed
    <2>1. /\ ppc' \in {"self_test", "probe", "probed", "test_kbd"}
          /\ \/ Ps2!Take /\ ppc \in Asking
             \/ out' = out /\ ppc \notin Asking \cup {"start", "flush"}
      BY <1>5 DEF Ps2!Configure, Ps2!SelfTested, Ps2!Probe, Ps2!Probed, Ps2!Goto, Asking
    <2>2. out' = <<>>
      <3>1. CASE ppc \in Asking
        BY <2>1, <3>1, Emptied
      <3>2. CASE ppc \notin Asking
        BY <1>1, <2>1, <3>2 DEF InStep, AnswerInv, Talking, KbdTalks, MouseTalks
      <3> QED
        BY <3>1, <3>2
    <2>3. AnswerInv'
      BY <1>1, <1>2, <2>1, <2>2 DEF AnswerInv, Asking, Talking, KbdTalks, MouseTalks, Scripted
    <2>4. TestInv' /\ UseInv'
      BY <2>1 DEF TestInv, UseInv, KbdThrough, MouseThrough, TypeKnown, Scripted, MouseTalks,
         DeviceSteps
    <2> QED
      BY <2>3, <2>4 DEF InStep
  <1>6. CASE Ps2!Enable
    <2>1. /\ ppc' = Ps2!After("none") /\ UNCHANGED <<out, works, dual>> /\ ppc = "enable"
      BY <1>6 DEF Ps2!Enable, Ps2!Goto
    <2>2. /\ ppc' \in {"kbd_reset", "mouse_reset", "finish"}
          /\ ppc' = "kbd_reset" => "kbd" \in works
          /\ ppc' = "mouse_reset" => "mouse" \in works /\ "kbd" \notin works
          /\ ppc' = "finish" => "mouse" \notin works /\ "kbd" \notin works
      BY <2>1 DEF Ps2!After
    <2>3. out' = <<>>
      BY <2>1 DEF InStep, AnswerInv, Asking, Talking, KbdTalks, MouseTalks
    <2>4. AnswerInv'
      BY <1>1, <1>2, <2>1, <2>2, <2>3 DEF AnswerInv, Asking, Talking, KbdTalks, MouseTalks, Scripted
    <2>5. TestInv'
      BY <1>1, <2>1, <2>2 DEF InStep, TestInv, AsWired
    <2>6. UseInv'
      BY <2>1, <2>2 DEF UseInv, KbdThrough, MouseThrough, TypeKnown, Scripted, MouseTalks
    <2> QED
      BY <2>4, <2>5, <2>6 DEF InStep
  <1>7. ASSUME NEW d \in Ps2!Devs, Ps2!Tested(d)
        PROVE  InStep'
    <2>1. /\ ppc = Ps2!TestedStep[d] /\ Ps2!Take /\ UNCHANGED dual
          /\ works' = IF Head(out).val = "passed" THEN works \cup {d} ELSE works
          /\ ppc' = IF d = "kbd" /\ dual THEN "test_mouse" ELSE "enable"
      BY <1>7 DEF Ps2!Tested, Ps2!Goto
    <2>2. /\ (d = "kbd" /\ ppc = "kbd_tested") \/ (d = "mouse" /\ ppc = "mouse_tested")
          /\ ppc \in Asking /\ ppc' \in {"test_mouse", "enable"}
          /\ ppc' = "test_mouse" => d = "kbd"
      <3>1. CASE d = "kbd"
        BY <2>1, <3>1, StepNames DEF Asking
      <3>2. CASE d = "mouse"
        BY <2>1, <3>2, StepNames DEF Asking
      <3> QED
        BY <3>1, <3>2 DEF Ps2!Devs
    <2>3. out' = <<>>
      BY <2>1, <2>2, Emptied
    <2>4. AnswerInv'
      BY <1>1, <1>2, <2>2, <2>3 DEF AnswerInv, Asking, Talking, KbdTalks, MouseTalks, Scripted
    <2>5. UseInv'
      BY <2>2 DEF UseInv, KbdThrough, MouseThrough, TypeKnown, Scripted, MouseTalks
    <2>6. Head(out).val = "passed" <=> d \in wired.ports
      BY <2>2 DEF InStep, TestInv, Ps2!Passes
    <2>7. d = "kbd" => works = {}
      BY <2>2 DEF PortInv, ProbeSteps
    <2>8. d = "mouse" => dual /\ AsWired("kbd")
      BY <2>2 DEF PortInv, InStep, TestInv
    <2>9. TestInv'
      <3>1. CASE d = "kbd"
        BY <1>1, <2>1, <2>2, <2>6, <2>7, <3>1 DEF TestInv, AsWired, DeviceSteps
      <3>2. CASE d = "mouse"
        <4>1. ppc' = "enable" /\ works \subseteq {"kbd"}
          BY <2>1, <2>2, <3>2 DEF PortInv
        <4>2. AsWired("kbd")'
          BY <1>1, <2>1, <2>8, <3>2 DEF AsWired
        <4>3. AsWired("mouse")'
          BY <1>1, <2>1, <2>6, <2>8, <3>2, <4>1 DEF AsWired
        <4> QED
          BY <4>1, <4>2, <4>3 DEF TestInv
      <3> QED
        BY <3>1, <3>2 DEF Ps2!Devs
    <2> QED
      BY <2>4, <2>5, <2>9 DEF InStep
  <1> QED
    BY <1>3, <1>4, <1>5, <1>6, <1>7


\* With the devices, what works stays so.
LEMMA TestKept ==
  ASSUME InStep, ppc \in DeviceSteps, ppc' \in DeviceSteps \cup {"done"},
         UNCHANGED <<works, dual, wired>>
  PROVE  TestInv'
  BY DEF InStep, TestInv, AsWired, DeviceSteps

\* In front of a command nothing is to come.
LEMMA Empty ==
  ASSUME PortInv, InStep, ppc \in DeviceSteps, ppc \notin Talking
  PROVE  out = <<>> /\ \A d \in Ps2!Devs : todo[d] = <<>>
  BY DEF InStep, AnswerInv, Asking, DeviceSteps

\* On to where no byte is to come.
LEMMA Onwards ==
  ASSUME InStep, ppc \in DeviceSteps, UNCHANGED <<works, dual, wired>>,
         ppc' \in {"mouse_reset", "send", "finish", "done"},
         ppc' = "mouse_reset" => "mouse" \in works,
         ppc' = "send" => dev' \in works /\ Sound(dev') /\ step' \in DOMAIN Ps2!Script[dev'],
         out' = <<>>, DOMAIN todo' = Ps2!Devs, DOMAIN speaks' = Ps2!Devs,
         \A d \in Ps2!Devs : todo'[d] = <<>>,
         UseInv'
  PROVE  InStep'
  <1>1. TestInv'
    BY TestKept DEF DeviceSteps
  <1>2. AnswerInv'
    BY DEF AnswerInv, Asking, Talking, KbdTalks, MouseTalks, Scripted, Sound
  <1> QED
    BY <1>1, <1>2 DEF InStep

\* Everything but the bytes of the partner is as before.
LEMMA Elsewhere ==
  ASSUME InStep, NEW d \in Ps2!Devs, ppc \in Talking, Partner = d
  PROVE  \A e \in Ps2!Devs \ {d} : todo[e] = <<>>
  BY DEF InStep, AnswerInv

LEMMA CalmReset ==
  ASSUME PortInv, InStep, NEW d \in Ps2!Devs, Ps2!Reset(d)
  PROVE  InStep'
  <1>1. /\ ppc = Ps2!ResetStep[d] /\ ppc' = Ps2!AckStep[d] /\ Ps2!Receive(d, "reset")
        /\ UNCHANGED <<works, dual, wired, out, mouse_type>>
    BY DEF Ps2!Reset, Ps2!Goto
  <1>2. \/ d = "kbd" /\ ppc = "kbd_reset" /\ ppc' = "kbd_ack"
        \/ d = "mouse" /\ ppc = "mouse_reset" /\ ppc' = "mouse_ack"
    <2>1. CASE d = "kbd"
      BY <1>1, <2>1, StepNames
    <2>2. CASE d = "mouse"
      BY <1>1, <2>2, StepNames
    <2> QED
      BY <2>1, <2>2 DEF Ps2!Devs
  <1>3. ppc \in DeviceSteps /\ ppc' \in DeviceSteps /\ ppc \notin Talking
    BY <1>2 DEF DeviceSteps, Talking, KbdTalks, MouseTalks
  <1>4. out = <<>> /\ \A e \in Ps2!Devs : todo[e] = <<>>
    BY <1>3, Empty
  <1>5. DOMAIN todo = Ps2!Devs /\ DOMAIN speaks = Ps2!Devs
    BY DEF InStep, AnswerInv
  <1>6. /\ Coming(d, IF wired[d] = "absent" THEN <<>> ELSE Ps2!Answers(d, "reset"))'
        /\ DOMAIN todo' = Ps2!Devs /\ DOMAIN speaks' = Ps2!Devs
        /\ \A e \in Ps2!Devs \ {d} : todo'[e] = todo[e] /\ speaks'[e] = speaks[e]
    BY <1>1, <1>4, <1>5, Received
  <1>7. Coming(d, ResetAnswer(d))'
    BY <1>6 DEF ResetAnswer
  <1>8. TestInv'
    BY <1>1, <1>3, TestKept
  <1>9. CASE d = "kbd"
    <2>1. "kbd" \in works /\ Partner' = "kbd" /\ ppc' = "kbd_ack"
      BY <1>2, <1>9 DEF InStep, AnswerInv, Partner, Scripted, KbdTalks
    <2>2. AnswerInv'
      BY <1>1, <1>4, <1>6, <1>7, <1>9, <2>1 DEF AnswerInv, Asking, Talking, KbdTalks, MouseTalks, Scripted
    <2>3. UseInv'
      BY <2>1 DEF UseInv, KbdThrough, MouseThrough, TypeKnown, Scripted, MouseTalks
    <2> QED
      BY <1>8, <2>2, <2>3 DEF InStep
  <1>10. CASE d = "mouse"
    <2>1. "mouse" \in works /\ Partner' = "mouse" /\ ppc = "mouse_reset" /\ ppc' = "mouse_ack"
      BY <1>2, <1>10 DEF InStep, AnswerInv, Partner, Scripted, KbdTalks
    <2>2. AnswerInv'
      BY <1>1, <1>4, <1>6, <1>7, <1>10, <2>1 DEF AnswerInv, Asking, Talking, KbdTalks, MouseTalks, Scripted
    <2>3. speaks'["kbd"] = speaks["kbd"]
      BY <1>6, <1>10 DEF Ps2!Devs
    <2>4. UseInv'
      BY <1>1, <2>1, <2>3 DEF InStep, UseInv, KbdThrough, MouseThrough, TypeKnown, Scripted, MouseTalks,
         Sound
    <2> QED
      BY <1>8, <2>2, <2>4 DEF InStep
  <1> QED
    BY <1>9, <1>10 DEF Ps2!Devs

\* A device that is there has something to say to a reset, one that is not has not.
LEMMA ResetWords ==
  ASSUME PortInv, NEW d \in Ps2!Devs
  PROVE  /\ ResetAnswer(d) \in Seq(Words)
         /\ ResetAnswer(d) = <<>> <=> wired[d] = "absent"
         /\ wired[d] # "absent" =>
              /\ Head(ResetAnswer(d)) = "ack" /\ Tail(ResetAnswer(d)) \in Seq(Words)
              /\ Tail(ResetAnswer(d)) # <<>>
              /\ Head(Tail(ResetAnswer(d))) = (IF Sound(d) THEN "passed" ELSE "failed")
              /\ Tail(Tail(ResetAnswer(d))) =
                   (IF Sound(d) /\ d = "mouse" THEN <<wired.mouse>> ELSE <<>>)
  <1> DEFINE a == ResetAnswer(d)
  <1>1. CASE wired[d] = "absent"
    BY <1>1 DEF ResetAnswer
  <1>2. CASE wired[d] = "failing"
    <2>1. a = <<"ack", "failed">> /\ ~Sound(d)
      BY <1>2 DEF ResetAnswer, Ps2!Answers, Sound
    <2>2. /\ <<"ack", "failed">> \in Seq(Words) /\ <<"failed">> \in Seq(Words)
          /\ <<"ack", "failed">> # <<>> /\ <<"failed">> # <<>>
          /\ Head(<<"ack", "failed">>) = "ack" /\ Tail(<<"ack", "failed">>) = <<"failed">>
          /\ Head(<<"failed">>) = "failed" /\ Tail(<<"failed">>) = <<>>
      BY DEF Words
    <2> HIDE DEF a
    <2>3. QED
      BY <1>2, <2>1, <2>2 DEF a
  <1>3. CASE Sound(d) /\ d = "kbd"
    <2>1. a = <<"ack", "passed">> /\ wired[d] # "absent"
      BY <1>3 DEF ResetAnswer, Ps2!Answers, Sound
    <2>2. /\ <<"ack", "passed">> \in Seq(Words) /\ <<"passed">> \in Seq(Words)
          /\ <<"ack", "passed">> # <<>> /\ <<"passed">> # <<>>
          /\ Head(<<"ack", "passed">>) = "ack" /\ Tail(<<"ack", "passed">>) = <<"passed">>
          /\ Head(<<"passed">>) = "passed" /\ Tail(<<"passed">>) = <<>>
      BY DEF Words
    <2> HIDE DEF a
    <2>3. QED
      BY <1>3, <2>1, <2>2 DEF a
  <1>4. CASE Sound(d) /\ d = "mouse"
    <2>1. PICK w \in {"standard", "wheel"} : w = wired.mouse
      BY <1>4 DEF PortInv, Ps2!Wirings, Sound
    <2>2. a = <<"ack", "passed", w>> /\ wired[d] # "absent"
      BY <1>4, <2>1 DEF ResetAnswer, Ps2!Answers, Sound
    <2>3. <<"ack", "passed", w>> \in Seq(Words) /\ <<"passed", w>> \in Seq(Words)
      BY DEF Words
    <2>4. /\ <<"ack", "passed", w>> # <<>> /\ <<"passed", w>> # <<>>
          /\ Head(<<"ack", "passed", w>>) = "ack"
          /\ Tail(<<"ack", "passed", w>>) = <<"passed", w>>
          /\ Head(<<"passed", w>>) = "passed" /\ Tail(<<"passed", w>>) = <<w>>
      OBVIOUS
    <2> HIDE DEF a
    <2>5. QED
      BY <1>4, <2>1, <2>2, <2>3, <2>4 DEF a
  <1> QED
    BY <1>1, <1>2, <1>3, <1>4 DEF Sound, Ps2!Devs

\* On with the next device.
LEMMA Afterwards ==
  ASSUME PortInv, InStep, ppc \in DeviceSteps, UNCHANGED <<works, dual, wired, speaks>>,
         NEW d \in Ps2!Devs, ppc' = Ps2!After(d),
         out' = <<>>, DOMAIN todo' = Ps2!Devs, \A e \in Ps2!Devs : todo'[e] = <<>>,
         \* the device is in use, if it is one to use
         d \in works /\ Sound(d) => speaks[d],
         d = "mouse" => KbdThrough,
         d = "mouse" /\ "mouse" \in works /\ Sound("mouse") => mouse_type' = wired.mouse
  PROVE  InStep'
  <1>1. /\ ppc' \in {"mouse_reset", "finish"}
        /\ ppc' = "mouse_reset" => d = "kbd" /\ "mouse" \in works
        /\ ppc' = "finish" => d = "mouse" \/ "mouse" \notin works
    BY DEF Ps2!After, Ps2!Devs
  <1>2. "kbd" \in works /\ Sound("kbd") => speaks["kbd"]
    BY DEF InStep, UseInv, Ps2!Devs
  <1>3. UseInv'
    BY <1>1, <1>2 DEF UseInv, KbdThrough, MouseThrough, TypeKnown, Scripted, MouseTalks, Sound
  <1> QED
    BY <1>1, <1>3, Onwards DEF InStep, AnswerInv


LEMMA CalmResetAck ==
  ASSUME PortInv, CalmInv, InStep, Ps2!Calm', UNCHANGED strays,
         NEW d \in Ps2!Devs, Ps2!ResetAck(d)
  PROVE  InStep'
  <1> DEFINE a == ResetAnswer(d)
  <1>1. \/ d = "kbd" /\ ppc = "kbd_ack" /\ Ps2!ResultStep[d] = "kbd_result"
        \/ d = "mouse" /\ ppc = "mouse_ack" /\ Ps2!ResultStep[d] = "mouse_result"
    <2>1. ppc = Ps2!AckStep[d]
      BY DEF Ps2!ResetAck
    <2>2. CASE d = "kbd"
      BY <2>1, <2>2, StepNames
    <2>3. CASE d = "mouse"
      BY <2>1, <2>3, StepNames
    <2> QED
      BY <2>2, <2>3 DEF Ps2!Devs
  <1>2. UNCHANGED <<works, dual, wired, todo, speaks, sent, mouse_type>>
    BY DEF Ps2!ResetAck
  <1>3. /\ ppc \in DeviceSteps /\ ppc \in Talking /\ Partner = d /\ d \in works
        /\ Coming(d, a) /\ DOMAIN todo = Ps2!Devs /\ DOMAIN speaks = Ps2!Devs
    BY <1>1 DEF InStep, AnswerInv, DeviceSteps, Talking, KbdTalks, MouseTalks, Partner, Scripted
  <1>4. \A e \in Ps2!Devs \ {d} : todo[e] = <<>>
    BY <1>3, Elsewhere
  <1>5. a \in Seq(Words) /\ a' = a
    BY <1>2, ResetWords DEF ResetAnswer, Ps2!Answers
  <1>6. CASE Ps2!Take /\ first' = Head(out).val /\ ppc' = Ps2!ResultStep[d]
    <2>1. /\ a # <<>> /\ Head(out).val = Head(a) /\ out' = <<>> /\ Coming(d, Tail(a))'
      BY <1>2, <1>3, <1>5, <1>6, Taken
    <2>2. wired[d] # "absent" /\ first' = "ack"
      BY <1>6, <2>1, ResetWords
    <2>3. Coming(d, Tail(ResetAnswer(d)))'
      BY <1>5, <2>1
    <2>4. TestInv'
      BY <1>1, <1>2, <1>3, <1>6, TestKept DEF DeviceSteps
    <2>5. CASE d = "kbd"
      <3>1. ppc' = "kbd_result" /\ Partner' = "kbd"
        BY <1>1, <1>6, <2>5 DEF Partner, Scripted, KbdTalks
      <3>2. AnswerInv'
        BY <1>2, <1>3, <1>4, <2>1, <2>2, <2>3, <2>5, <3>1
           DEF AnswerInv, Asking, Talking, KbdTalks, MouseTalks, Scripted
      <3>3. UseInv'
        BY <3>1 DEF UseInv, KbdThrough, MouseThrough, TypeKnown, Scripted, MouseTalks
      <3> QED
        BY <2>4, <3>2, <3>3 DEF InStep
    <2>6. CASE d = "mouse"
      <3>1. ppc = "mouse_ack" /\ ppc' = "mouse_result" /\ Partner' = "mouse"
        BY <1>1, <1>6, <2>6 DEF Partner, Scripted, KbdTalks
      <3>2. AnswerInv'
        BY <1>2, <1>3, <1>4, <2>1, <2>2, <2>3, <2>6, <3>1
           DEF AnswerInv, Asking, Talking, KbdTalks, MouseTalks, Scripted
      <3>3. UseInv'
        BY <1>2, <3>1 DEF InStep, UseInv, KbdThrough, MouseThrough, TypeKnown, Scripted, MouseTalks, Sound
      <3> QED
        BY <2>4, <3>2, <3>3 DEF InStep
    <2> QED
      BY <2>5, <2>6 DEF Ps2!Devs
  <1>7. CASE Ps2!RunsOut /\ ppc' = Ps2!After(d)
    <2>1. a = <<>> /\ todo[d] = <<>> /\ out' = <<>>
      BY <1>3, <1>5, <1>7, RanOut
    <2>2. ~Sound(d)
      BY <2>1, ResetWords DEF Sound
    <2>3. d = "mouse" => KbdThrough
      BY <1>1 DEF KbdThrough, MouseTalks
    <2>4. \A e \in Ps2!Devs : todo'[e] = <<>>
      BY <1>2, <1>4, <2>1
    <2> QED
      BY <1>2, <1>3, <1>7, <2>1, <2>2, <2>3, <2>4, Afterwards
  <1> QED
    BY <1>6, <1>7 DEF Ps2!ResetAck, Ps2!Goto

\* The scripts have a first step.
LEMMA FirstStep == \A d \in Ps2!Devs : 1 \in DOMAIN Ps2!Script[d]
  <1>1. 1 \in DOMAIN Ps2!Script["kbd"]
    BY ScriptLengths
  <1>2. 1 \in DOMAIN Ps2!Script["mouse"]
    BY ScriptLengths
  <1> QED
    BY <1>1, <1>2 DEF Ps2!Devs

LEMMA CalmKbdResult ==
  ASSUME PortInv, InStep, Ps2!KbdResult
  PROVE  InStep'
  <1> DEFINE a == Tail(ResetAnswer("kbd"))
  <1>1. /\ ppc = "kbd_result" /\ Ps2!Take /\ UNCHANGED <<works, dual, wired, todo, speaks, sent>>
    BY DEF Ps2!KbdResult
  <1>2. "kbd" \in Ps2!Devs
    BY DEF Ps2!Devs
  <1>3. /\ ppc \in DeviceSteps /\ ppc \in Talking /\ Partner = "kbd" /\ "kbd" \in works
        /\ wired.kbd # "absent" /\ first = "ack" /\ Coming("kbd", a)
        /\ DOMAIN todo = Ps2!Devs /\ DOMAIN speaks = Ps2!Devs
    BY <1>1 DEF InStep, AnswerInv, DeviceSteps, Talking, KbdTalks, Partner, Scripted
  <1>4. \A e \in Ps2!Devs \ {"kbd"} : todo[e] = <<>>
    BY <1>2, <1>3, Elsewhere
  <1>5. /\ a \in Seq(Words) /\ a # <<>> /\ Tail(a) = <<>>
        /\ Head(a) = IF Sound("kbd") THEN "passed" ELSE "failed"
    BY <1>2, <1>3, ResetWords
  <1> HIDE DEF a
  <1>6. Head(out).val = Head(a) /\ out' = <<>> /\ todo'["kbd"] = <<>>
    BY <1>1, <1>2, <1>3, <1>5, Taken
  <1>7. \A e \in Ps2!Devs : todo'[e] = <<>>
    BY <1>1, <1>4, <1>6
  <1>8. CASE Sound("kbd")
    <2>1. Ps2!Begin("kbd")
      BY <1>3, <1>5, <1>6, <1>8 DEF Ps2!KbdResult
    <2>2. ppc' = "send" /\ dev' = "kbd" /\ step' = 1 /\ Sound(dev')
      BY <1>8, <2>1 DEF Ps2!Begin
    <2>3. UseInv'
      BY <2>2 DEF UseInv, KbdThrough, MouseThrough, TypeKnown, Scripted, MouseTalks
    <2>4. step' \in DOMAIN Ps2!Script[dev']
      BY <1>2, <2>2, FirstStep
    <2> QED
      BY <1>1, <1>3, <1>6, <1>7, <2>2, <2>3, <2>4, Onwards
  <1>9. CASE ~Sound("kbd")
    <2>1. ppc' = Ps2!After("kbd")
      BY <1>3, <1>5, <1>6, <1>9 DEF Ps2!KbdResult, Ps2!Goto
    <2> QED
      BY <1>1, <1>2, <1>3, <1>6, <1>7, <1>9, <2>1, Afterwards
  <1> QED
    BY <1>8, <1>9

LEMMA CalmMouseResult ==
  ASSUME PortInv, CalmInv, InStep, Ps2!Calm', Ps2!MouseResult
  PROVE  InStep'
  <1> DEFINE a == Tail(ResetAnswer("mouse"))
  <1>1. /\ ppc = "mouse_result" /\ UNCHANGED <<works, dual, wired, todo, speaks, sent, strays>>
        /\ mouse_type' = mouse_type
    BY DEF Ps2!MouseResult
  <1>2. "mouse" \in Ps2!Devs
    BY DEF Ps2!Devs
  <1>3. /\ ppc \in DeviceSteps /\ ppc \in Talking /\ Partner = "mouse" /\ "mouse" \in works
        /\ wired.mouse # "absent" /\ Coming("mouse", a)
        /\ DOMAIN todo = Ps2!Devs /\ DOMAIN speaks = Ps2!Devs
    BY <1>1 DEF InStep, AnswerInv, DeviceSteps, Talking, KbdTalks, MouseTalks, Partner, Scripted
  <1>4. \A e \in Ps2!Devs \ {"mouse"} : todo[e] = <<>>
    BY <1>2, <1>3, Elsewhere
  <1>5. /\ a \in Seq(Words) /\ a # <<>>
        /\ Tail(a) = IF Sound("mouse") THEN <<wired.mouse>> ELSE <<>>
        /\ Head(a) = IF Sound("mouse") THEN "passed" ELSE "failed"
    BY <1>2, <1>3, ResetWords
  <1>6. a' = a
    BY <1>1 DEF ResetAnswer, Ps2!Answers
  <1> HIDE DEF a
  <1>7. ~Ps2!RunsOut
    BY <1>1, <1>3, <1>5, RanOut
  <1>8. Ps2!Take /\ ppc' = IF Head(out).val = "passed" THEN "mouse_id" ELSE "finish"
    BY <1>7 DEF Ps2!MouseResult, Ps2!Goto
  <1>9. /\ Head(out).val = Head(a) /\ out' = <<>> /\ Coming("mouse", Tail(a))'
        /\ Tail(a) = <<>> => todo'["mouse"] = <<>>
    BY <1>1, <1>2, <1>3, <1>5, <1>8, <1>6, Taken
  <1>10. KbdThrough
    BY <1>1 DEF KbdThrough, MouseTalks
  <1>11. CASE Sound("mouse")
    <2>1. ppc' = "mouse_id" /\ Partner' = "mouse"
      BY <1>5, <1>8, <1>9, <1>11 DEF Partner, Scripted, KbdTalks
    <2>2. Sound("mouse")' /\ Coming("mouse", <<wired.mouse>>)'
      BY <1>1, <1>5, <1>9, <1>11, <1>6 DEF Sound
    <2>3. AnswerInv'
      BY <1>1, <1>3, <1>4, <1>9, <2>1, <2>2 DEF AnswerInv, Asking, Talking, KbdTalks, MouseTalks, Scripted
    <2>4. UseInv'
      BY <1>1, <1>10, <2>1 DEF InStep, UseInv, KbdThrough, MouseThrough, TypeKnown, Scripted, MouseTalks, Sound
    <2>5. TestInv'
      BY <1>1, <1>3, <2>1, TestKept DEF DeviceSteps
    <2> QED
      BY <2>3, <2>4, <2>5 DEF InStep
  <1>12. CASE ~Sound("mouse")
    <2>1. ppc' = Ps2!After("mouse")
      BY <1>5, <1>8, <1>9, <1>12 DEF Ps2!After
    <2>2. \A e \in Ps2!Devs : todo'[e] = <<>>
      BY <1>1, <1>4, <1>5, <1>9, <1>12
    <2> QED
      BY <1>1, <1>2, <1>3, <1>9, <1>10, <1>12, <2>1, <2>2, Afterwards
  <1> QED
    BY <1>11, <1>12

LEMMA CalmMouseId ==
  ASSUME PortInv, CalmInv, InStep, Ps2!Calm', Ps2!MouseId
  PROVE  InStep'
  <1>1. /\ ppc = "mouse_id" /\ ppc' = "send" /\ dev' = "mouse" /\ step' = 1
        /\ UNCHANGED <<works, dual, wired, todo, speaks, sent, strays>>
    BY DEF Ps2!MouseId, Ps2!Begin
  <1>2. "mouse" \in Ps2!Devs
    BY DEF Ps2!Devs
  <1>3. /\ ppc \in DeviceSteps /\ ppc \in Talking /\ Partner = "mouse" /\ "mouse" \in works
        /\ Sound("mouse") /\ Coming("mouse", <<wired.mouse>>)
        /\ DOMAIN todo = Ps2!Devs /\ DOMAIN speaks = Ps2!Devs
    BY <1>1 DEF InStep, AnswerInv, DeviceSteps, Talking, KbdTalks, MouseTalks, Partner, Scripted
  <1>4. \A e \in Ps2!Devs \ {"mouse"} : todo[e] = <<>>
    BY <1>2, <1>3, Elsewhere
  <1>5. PICK w \in {"standard", "wheel"} : w = wired.mouse
    BY <1>3 DEF PortInv, Ps2!Wirings, Sound
  <1>6. <<w>> \in Seq(Words) /\ <<w>> # <<>> /\ Head(<<w>>) = w /\ Tail(<<w>>) = <<>>
    BY DEF Words
  <1>7. ~Ps2!RunsOut
    BY <1>1, <1>3, <1>5, <1>6, RanOut
  <1>8. Ps2!Take /\ mouse_type' = Ps2!TypeOf(Head(out).val)
    BY <1>7 DEF Ps2!MouseId
  <1>9. Head(out).val = w /\ out' = <<>> /\ todo'["mouse"] = <<>>
    BY <1>1, <1>2, <1>3, <1>5, <1>6, <1>8, Taken
  <1>10. mouse_type' = wired.mouse
    BY <1>5, <1>8, <1>9 DEF Ps2!TypeOf
  <1>11. KbdThrough
    BY <1>1 DEF KbdThrough, MouseTalks
  <1>12. UseInv'
    BY <1>1, <1>10, <1>11 DEF InStep, UseInv, KbdThrough, MouseThrough, TypeKnown, Scripted, MouseTalks, Sound
  <1>13. step' \in DOMAIN Ps2!Script[dev'] /\ Sound(dev') /\ dev' \in works
    BY <1>1, <1>2, <1>3, FirstStep
  <1>14. \A e \in Ps2!Devs : todo'[e] = <<>>
    BY <1>1, <1>4, <1>9
  <1> QED
    BY <1>1, <1>3, <1>9, <1>12, <1>13, <1>14, Onwards


\* The last command of a script sets the device talking, and has no more of an answer.
LEMMA LastStep ==
  /\ Len(Ps2!KbdScript) = 7 /\ Len(Ps2!MouseScript) = 3
  /\ Ps2!Script["kbd"][7].cmd = "enable_scanning" /\ Ps2!Script["kbd"][7].more = 0
  /\ Ps2!Script["mouse"][3].cmd = "enable_reporting" /\ Ps2!Script["mouse"][3].more = 0
  BY ScriptsAre, ScriptLengths, KbdTable, MouseTable

\* The answer to a command of a script.
LEMMA Expected ==
  ASSUME PortInv, InStep, ppc \in Scripted
  PROVE  /\ dev \in Ps2!Devs /\ dev \in works /\ Sound(dev) /\ ppc \in DeviceSteps
         /\ Fits(Ps2!Answers(dev, Exchanged.cmd), dev, step)
         /\ step \in 1 .. Len(Ps2!Script[dev])
  <1>1. dev \in Ps2!Devs /\ dev \in works /\ Sound(dev) /\ ppc \in DeviceSteps
    BY DEF InStep, AnswerInv, PortInv, Configured, Scripted, DeviceSteps
  <1>2. step \in DOMAIN Ps2!Script[dev]
    BY DEF InStep, AnswerInv
  <1>3. CASE dev = "kbd"
    <2>1. Len(Ps2!Script[dev]) = 7 /\ DOMAIN Ps2!Script[dev] = 1 .. 7
      BY <1>3, ScriptLengths
    <2> QED
      BY <1>1, <1>2, <1>3, <2>1, KbdScripts DEF Exchanged
  <1>4. CASE dev = "mouse"
    <2>1. Len(Ps2!Script[dev]) = 3 /\ DOMAIN Ps2!Script[dev] = 1 .. 3
      BY <1>4, ScriptLengths
    <2> QED
      BY <1>1, <1>2, <1>4, <2>1, MouseScripts DEF Exchanged
  <1> QED
    BY <1>1, <1>3, <1>4 DEF Ps2!Devs

LEMMA CalmSend ==
  ASSUME PortInv, InStep, Ps2!Send
  PROVE  InStep'
  <1>1. /\ ppc = "send" /\ ppc' = "ack" /\ Ps2!Receive(dev, Exchanged.cmd)
        /\ UNCHANGED <<dev, step, works, dual, wired, out, mouse_type>>
    BY DEF Ps2!Send, Ps2!Goto, Exchanged
  <1>2. /\ dev \in Ps2!Devs /\ dev \in works /\ Sound(dev) /\ ppc \in DeviceSteps
        /\ ppc \notin Talking
    BY <1>1, Expected DEF Scripted, Talking, KbdTalks, MouseTalks
  <1>3. out = <<>> /\ \A e \in Ps2!Devs : todo[e] = <<>>
    BY <1>2, Empty
  <1>4. DOMAIN todo = Ps2!Devs /\ DOMAIN speaks = Ps2!Devs
    BY DEF InStep, AnswerInv
  <1>5. /\ Coming(dev, IF wired[dev] = "absent" THEN <<>> ELSE Ps2!Answers(dev, Exchanged.cmd))'
        /\ DOMAIN todo' = Ps2!Devs /\ DOMAIN speaks' = Ps2!Devs
        /\ \A e \in Ps2!Devs \ {dev} : todo'[e] = todo[e] /\ speaks'[e] = speaks[e]
    <2> DEFINE c == Exchanged.cmd
               a == IF wired[dev] = "absent" THEN <<>> ELSE Ps2!Answers(dev, c)
    <2>1. c' = c
      BY <1>1 DEF Exchanged
    <2>2. UNCHANGED <<out, wired>> /\ Ps2!Receive(dev, c)
      BY <1>1
    <2> HIDE DEF c
    <2>3. /\ \A d : d = dev =>
               Coming(d, IF wired[d] = "absent" THEN <<>> ELSE Ps2!Answers(d, c))'
          /\ DOMAIN todo' = Ps2!Devs /\ DOMAIN speaks' = Ps2!Devs
          /\ \A e \in Ps2!Devs \ {dev} : todo'[e] = todo[e] /\ speaks'[e] = speaks[e]
      <3>1. PICK d \in Ps2!Devs : d = dev
        BY <1>2
      <3>2. PICK k : k = c
        OBVIOUS
      <3>3. todo[d] = <<>> /\ out = <<>> /\ Ps2!Receive(d, k)
        BY <1>3, <2>2, <3>1, <3>2
      <3>4. /\ Coming(d, IF wired[d] = "absent" THEN <<>> ELSE Ps2!Answers(d, k))'
            /\ DOMAIN todo' = Ps2!Devs /\ DOMAIN speaks' = Ps2!Devs
            /\ \A e \in Ps2!Devs \ {d} : todo'[e] = todo[e] /\ speaks'[e] = speaks[e]
        BY <1>4, <2>2, <3>3, Received
      <3> QED
        BY <2>1, <3>1, <3>2, <3>4
    <2> QED
      BY <1>1, <2>3 DEF c
  <1>6. Coming(dev, Ps2!Answers(dev, Exchanged.cmd))'
    BY <1>1, <1>2, <1>5 DEF Sound
  <1>7. TestInv'
    BY <1>1, <1>2, TestKept DEF DeviceSteps
  <1>8. Partner' = dev
    BY <1>1 DEF Partner, Scripted
  <1>9. step \in DOMAIN Ps2!Script[dev]
    BY <1>1 DEF InStep, AnswerInv, Scripted
  <1>10. AnswerInv'
    BY <1>1, <1>2, <1>3, <1>5, <1>6, <1>8, <1>9
       DEF AnswerInv, Asking, Talking, KbdTalks, MouseTalks, Scripted, Sound
  <1>11. CASE dev = "kbd"
    <2>1. step = 7 => speaks'["kbd"] = TRUE
      <3>1. step = 7 => Exchanged.cmd = "enable_scanning"
        BY <1>11, LastStep DEF Exchanged
      <3> QED
        BY <1>1, <1>2, <1>4, <1>11, <3>1 DEF Ps2!Receive, Sound
    <2> QED
      BY <1>1, <1>7, <1>10, <1>11, <2>1, LastStep
         DEF InStep, UseInv, KbdThrough, MouseThrough, TypeKnown, Scripted, MouseTalks
  <1>12. CASE dev = "mouse"
    <2>1. step = 3 => speaks'["mouse"] = TRUE
      <3>1. step = 3 => Exchanged.cmd = "enable_reporting"
        BY <1>12, LastStep DEF Exchanged
      <3> QED
        BY <1>1, <1>2, <1>4, <1>12, <3>1 DEF Ps2!Receive, Sound
    <2>2. speaks'["kbd"] = speaks["kbd"]
      BY <1>5, <1>12 DEF Ps2!Devs
    <2>3. UseInv'
      BY <1>1, <1>12, <2>1, <2>2, LastStep
         DEF InStep, UseInv, KbdThrough, MouseThrough, TypeKnown, Scripted, MouseTalks, Sound
    <2> QED
      BY <1>7, <1>10, <2>3 DEF InStep
  <1> QED
    BY <1>2, <1>11, <1>12 DEF Ps2!Devs

\* On with the next command, or the next device.
LEMMA CalmNextStep ==
  ASSUME PortInv, InStep, ppc \in {"ack", "more"}, Ps2!NextStep,
         UNCHANGED <<works, dual, wired, speaks>>,
         out' = <<>>, DOMAIN todo' = Ps2!Devs, \A e \in Ps2!Devs : todo'[e] = <<>>,
         dev = "mouse" => mouse_type' = wired.mouse
  PROVE  InStep'
  <1>1. /\ dev \in Ps2!Devs /\ dev \in works /\ Sound(dev) /\ ppc \in DeviceSteps
        /\ step \in 1 .. Len(Ps2!Script[dev]) /\ step \in DOMAIN Ps2!Script[dev]
    BY Expected DEF Scripted, InStep, AnswerInv
  <1>2. dev = "mouse" => KbdThrough
    BY DEF KbdThrough, Scripted
  <1>3. CASE step < Len(Ps2!Script[dev])
    <2>1. ppc' = "send" /\ dev' = dev /\ step' = step + 1
      BY <1>3 DEF Ps2!NextStep
    <2>2. step' \in DOMAIN Ps2!Script[dev]
      <3>1. CASE dev = "kbd"
        BY <1>1, <1>3, <2>1, <3>1, ScriptLengths
      <3>2. CASE dev = "mouse"
        BY <1>1, <1>3, <2>1, <3>2, ScriptLengths
      <3> QED
        BY <1>1, <3>1, <3>2 DEF Ps2!Devs
    <2>3. UseInv'
      BY <1>2, <2>1 DEF InStep, UseInv, KbdThrough, MouseThrough, TypeKnown, Scripted, MouseTalks, Sound
    <2>4. dev' \in works /\ Sound(dev') /\ step' \in DOMAIN Ps2!Script[dev']
      BY <1>1, <2>1, <2>2
    <2>5. DOMAIN speaks' = Ps2!Devs
      BY DEF InStep, AnswerInv
    <2> QED
      BY <1>1, <2>1, <2>3, <2>4, <2>5, Onwards
  <1>4. CASE step = Len(Ps2!Script[dev])
    <2>1. ppc' = Ps2!After(dev)
      BY <1>4 DEF Ps2!NextStep, Ps2!Goto
    <2>2. Exchanged.more = 0
      <3>1. CASE dev = "kbd"
        BY <1>4, <3>1, ScriptLengths, LastStep DEF Exchanged
      <3>2. CASE dev = "mouse"
        BY <1>4, <3>2, ScriptLengths, LastStep DEF Exchanged
      <3> QED
        BY <1>1, <3>1, <3>2 DEF Ps2!Devs
    <2>3. ppc = "ack"
      BY <2>2 DEF InStep, AnswerInv
    <2>4. Sound(dev) => speaks[dev]
      <3>1. CASE dev = "kbd"
        BY <1>1, <1>4, <2>3, <3>1, ScriptLengths, LastStep DEF InStep, UseInv, KbdThrough
      <3>2. CASE dev = "mouse"
        BY <1>1, <1>4, <2>3, <3>2, ScriptLengths, LastStep DEF InStep, UseInv, MouseThrough
      <3> QED
        BY <1>1, <3>1, <3>2 DEF Ps2!Devs
    <2> QED
      BY <1>1, <1>2, <2>1, <2>4, Afterwards
  <1>5. Len(Ps2!Script[dev]) \in Nat
    <2>1. CASE dev = "kbd"
      BY <2>1, ScriptLengths
    <2>2. CASE dev = "mouse"
      BY <2>2, ScriptLengths
    <2> QED
      BY <1>1, <2>1, <2>2 DEF Ps2!Devs
  <1> QED
    BY <1>1, <1>3, <1>4, <1>5


\* The first byte of an answer.
LEMMA CalmAck ==
  ASSUME PortInv, InStep, Ps2!Ack
  PROVE  InStep'
  <1> DEFINE a == Ps2!Answers(dev, Exchanged.cmd)
  <1>1. /\ ppc = "ack" /\ Ps2!Take
        /\ UNCHANGED <<works, dual, wired, todo, speaks, sent, mouse_type>>
    BY DEF Ps2!Ack
  <1>2. /\ dev \in Ps2!Devs /\ dev \in works /\ Sound(dev) /\ ppc \in DeviceSteps
        /\ ppc \in Talking /\ Partner = dev /\ Fits(a, dev, step) /\ Coming(dev, a)
        /\ DOMAIN todo = Ps2!Devs /\ DOMAIN speaks = Ps2!Devs
    BY <1>1, Expected DEF InStep, AnswerInv, Talking, Partner, Scripted
  <1>3. \A e \in Ps2!Devs \ {dev} : todo[e] = <<>>
    BY <1>2, Elsewhere
  <1> HIDE DEF a
  <1>4. out' = <<>> /\ todo[dev] \in {<<>>, todo[dev]} /\ (Tail(a) = <<>> => todo[dev] = <<>>)
    BY <1>1, <1>2, Taken DEF Fits
  <1>5. CASE Exchanged.more = 0
    <2>1. Ps2!NextStep
      BY <1>5 DEF Ps2!Ack, Exchanged
    <2>2. Tail(a) = <<>>
      BY <1>2, <1>5 DEF Fits, Exchanged
    <2>3. \A e \in Ps2!Devs : todo'[e] = <<>>
      BY <1>1, <1>3, <1>4, <2>2
    <2>4. dev = "mouse" => mouse_type' = wired.mouse
      BY <1>1, <1>2 DEF InStep, UseInv, TypeKnown, Scripted
    <2> QED
      BY <1>1, <1>2, <1>4, <2>1, <2>3, <2>4, CalmNextStep
  <1>6. CASE Exchanged.more # 0
    <2>1. /\ ppc' = "more" /\ more' = Exchanged.more /\ dev' = dev /\ step' = step
          /\ Exchanged' = Exchanged
      BY <1>6 DEF Ps2!Ack, Exchanged
    <2>2. PICK vals \in Rests : vals = Tail(a)
      BY <1>2 DEF Fits
    <2>3. Coming(dev, vals)'
      <3>1. PICK d \in Ps2!Devs, whole \in Seq(Words) : d = dev /\ whole = a
        BY <1>2 DEF Fits
      <3>2. Coming(d, Tail(whole))'
        BY <1>1, <1>2, <3>1, Taken
      <3> QED
        BY <2>1, <2>2, <3>1, <3>2
    <2>4. /\ Exchanged.more \in 1 .. Exchanged.more
          /\ Len(vals) = Exchanged.more \/ (dev = "kbd" /\ vals = <<>>)
          /\ dev = "mouse" => vals = <<wired.mouse>>
      BY <1>2, <1>6, <2>2 DEF Fits, Exchanged
    <2>5. TestInv'
      BY <1>1, <1>2, <2>1, TestKept DEF DeviceSteps
    <2>6. Partner' = dev
      BY <2>1 DEF Partner, Scripted
    <2>7. step \in DOMAIN Ps2!Script[dev]
      BY <1>1 DEF InStep, AnswerInv, Scripted
    <2>8. AnswerInv'
      BY <1>1, <1>2, <1>3, <1>4, <2>1, <2>3, <2>4, <2>6, <2>7
         DEF AnswerInv, Asking, Talking, KbdTalks, MouseTalks, Scripted, Sound
    <2>9. UseInv'
      BY <1>1, <2>1 DEF InStep, UseInv, KbdThrough, MouseThrough, TypeKnown, Scripted, MouseTalks, Sound
    <2> QED
      BY <2>5, <2>8, <2>9 DEF InStep
  <1> QED
    BY <1>5, <1>6

\* The rests of an answer.
LEMMA RestsShrink ==
  \A vals \in Rests :
    /\ vals \in Seq(Words)
    /\ vals # <<>> => Tail(vals) \in Rests /\ Len(Tail(vals)) = Len(vals) - 1
    /\ Len(vals) = 1 => Tail(vals) = <<>>
  <1>1. /\ <<"ab", "83">> \in Seq(Words) /\ <<"83">> \in Seq(Words) /\ <<"set_2">> \in Seq(Words)
        /\ <<"standard">> \in Seq(Words) /\ <<"wheel">> \in Seq(Words) /\ <<>> \in Seq(Words)
    BY DEF Words
  <1>2. /\ Tail(<<"ab", "83">>) = <<"83">> /\ Tail(<<"83">>) = <<>> /\ Tail(<<"set_2">>) = <<>>
        /\ Tail(<<"standard">>) = <<>> /\ Tail(<<"wheel">>) = <<>>
        /\ Len(<<"ab", "83">>) = 2 /\ Len(<<"83">>) = 1 /\ Len(<<"set_2">>) = 1
        /\ Len(<<"standard">>) = 1 /\ Len(<<"wheel">>) = 1 /\ Len(<<>>) = 0
    OBVIOUS
  <1>3. ASSUME NEW vals \in Rests
        PROVE  /\ vals \in Seq(Words)
               /\ vals # <<>> => Tail(vals) \in Rests /\ Len(Tail(vals)) = Len(vals) - 1
               /\ Len(vals) = 1 => Tail(vals) = <<>>
    <2>1. <<>> \in Rests /\ <<"83">> \in Rests
      BY DEF Rests
    <2>2. CASE vals = <<>>
      BY <1>1, <1>2, <2>2
    <2>3. CASE vals = <<"ab", "83">>
      BY <1>1, <1>2, <2>1, <2>3
    <2>4. CASE vals = <<"83">>
      BY <1>1, <1>2, <2>1, <2>4
    <2>5. CASE vals = <<"set_2">>
      BY <1>1, <1>2, <2>1, <2>5
    <2>6. CASE vals = <<"standard">>
      BY <1>1, <1>2, <2>1, <2>6
    <2>7. CASE vals = <<"wheel">>
      BY <1>1, <1>2, <2>1, <2>7
    <2> QED
      BY <2>2, <2>3, <2>4, <2>5, <2>6, <2>7 DEF Rests
  <1> QED
    BY <1>3

\* The bytes after the first.
LEMMA CalmMore ==
  ASSUME PortInv, CalmInv, InStep, Ps2!Calm', Ps2!More
  PROVE  InStep'
  <1>1. ppc = "more" /\ UNCHANGED <<works, dual, wired, todo, speaks, sent, strays>>
    BY DEF Ps2!More
  <1>2. /\ dev \in Ps2!Devs /\ dev \in works /\ Sound(dev) /\ ppc \in DeviceSteps
        /\ ppc \in Talking /\ Partner = dev
        /\ DOMAIN todo = Ps2!Devs /\ DOMAIN speaks = Ps2!Devs
    BY <1>1, Expected DEF InStep, AnswerInv, Talking, Partner, Scripted
  <1>3. \A e \in Ps2!Devs \ {dev} : todo[e] = <<>>
    BY <1>2, Elsewhere
  <1>4. PICK vals \in Rests :
          /\ Coming(dev, vals)
          /\ Len(vals) = more \/ (dev = "kbd" /\ vals = <<>>)
          /\ dev = "mouse" => vals = <<wired.mouse>>
    BY <1>1 DEF InStep, AnswerInv
  <1>5. vals \in Seq(Words) /\ more \in 1 .. Exchanged.more
    BY <1>1, <1>4, RestsShrink DEF InStep, AnswerInv
  <1>6. CASE Ps2!Take
    <2>1. /\ vals # <<>> /\ Head(out).val = Head(vals) /\ out' = <<>>
          /\ Tail(vals) = <<>> => todo[dev] = <<>>
      BY <1>1, <1>2, <1>4, <1>5, <1>6, Taken
    <2>2. Len(vals) = more
      BY <1>4, <2>1
    <2>3. dev = "mouse" => mouse_type' = wired.mouse /\ more = 1
      <3>1. SUFFICES ASSUME dev = "mouse" PROVE mouse_type' = wired.mouse /\ more = 1
        OBVIOUS
      <3>2. PICK w \in {"standard", "wheel"} : w = wired.mouse
        BY <1>2, <3>1 DEF PortInv, Ps2!Wirings, Sound
      <3>3. Head(<<w>>) = w /\ Len(<<w>>) = 1
        OBVIOUS
      <3>4. vals = <<w>>
        BY <1>4, <3>1, <3>2
      <3>5. ~Ps2!RunsOut
        BY <1>6 DEF Ps2!RunsOut, Ps2!Take
      <3>6. mouse_type' = Ps2!TypeOf(Head(out).val)
        BY <3>1, <3>5 DEF Ps2!More
      <3> QED
        BY <2>1, <2>2, <3>2, <3>3, <3>4, <3>6 DEF Ps2!TypeOf
    <2>4. ~Ps2!RunsOut
      BY <1>6 DEF Ps2!RunsOut, Ps2!Take
    <2>5. CASE more = 1
      <3>1. Ps2!NextStep
        BY <2>4, <2>5 DEF Ps2!More
      <3>2. \A e \in Ps2!Devs : todo'[e] = <<>>
        BY <1>1, <1>3, <2>1, <2>2, <2>5, RestsShrink
      <3> QED
        BY <1>1, <1>2, <2>1, <2>3, <3>1, <3>2, CalmNextStep
    <2>6. CASE more # 1
      <3>1. ppc' = "more" /\ more' = more - 1 /\ UNCHANGED <<dev, step>>
        BY <1>1, <2>4, <2>6 DEF Ps2!More
      <3>2. dev = "kbd"
        BY <1>2, <2>3, <2>6 DEF Ps2!Devs
      <3>3. PICK rest \in Rests : rest = Tail(vals) /\ Len(rest) = more - 1
        BY <2>1, <2>2, RestsShrink
      <3>4. Coming("kbd", rest)'
        BY <1>1, <1>2, <1>4, <1>5, <1>6, <3>2, <3>3, Taken
      <3>5. Exchanged' = Exchanged /\ more - 1 \in 1 .. Exchanged.more
        <4>1. Exchanged.more \in 0 .. 2
          BY <1>1, Expected DEF Fits, Exchanged, Scripted
        <4> QED
          BY <1>5, <2>6, <3>1, <4>1 DEF Exchanged
      <3>6. TestInv'
        BY <1>1, <1>2, <3>1, TestKept DEF DeviceSteps
      <3>7. Partner' = dev
        BY <3>1 DEF Partner, Scripted
      <3>8. step \in DOMAIN Ps2!Script[dev]
        BY <1>1 DEF InStep, AnswerInv, Scripted
      <3>9. AnswerInv'
        BY <1>1, <1>2, <1>3, <2>1, <3>1, <3>2, <3>3, <3>4, <3>5, <3>7, <3>8
           DEF AnswerInv, Asking, Talking, KbdTalks, MouseTalks, Scripted, Sound
      <3>10. UseInv'
        BY <3>1, <3>2 DEF UseInv, KbdThrough, MouseThrough, TypeKnown, Scripted, MouseTalks
      <3> QED
        BY <3>6, <3>9, <3>10 DEF InStep
    <2> QED
      BY <2>5, <2>6
  <1>7. CASE Ps2!RunsOut
    <2>1. vals = <<>> /\ todo[dev] = <<>> /\ out' = <<>>
      BY <1>1, <1>2, <1>4, <1>5, <1>7, RanOut
    <2>2. dev # "mouse"
      <3>1. \A w : <<w>> # <<>>
        OBVIOUS
      <3> QED
        BY <1>4, <2>1, <3>1
    <2>3. Ps2!NextStep
      BY <1>7 DEF Ps2!More, Ps2!RunsOut, Ps2!Take
    <2>4. \A e \in Ps2!Devs : todo'[e] = <<>>
      BY <1>1, <1>3, <2>1
    <2> QED
      BY <1>1, <1>2, <2>1, <2>2, <2>3, <2>4, CalmNextStep
  <1> QED
    BY <1>6, <1>7 DEF Ps2!More

LEMMA CalmFinish ==
  ASSUME PortInv, InStep, Ps2!Finish
  PROVE  InStep'
  <1>1. /\ ppc = "finish" /\ ppc' = "done"
        /\ UNCHANGED <<works, dual, wired, todo, speaks, out, mouse_type>>
    BY DEF Ps2!Finish, Ps2!Goto
  <1>2. ppc \in DeviceSteps /\ ppc \notin Talking
    BY <1>1 DEF DeviceSteps, Talking, KbdTalks, MouseTalks
  <1>3. out = <<>> /\ \A e \in Ps2!Devs : todo[e] = <<>>
    BY <1>2, Empty
  <1>4. DOMAIN todo = Ps2!Devs /\ DOMAIN speaks = Ps2!Devs
    BY DEF InStep, AnswerInv
  <1>5. UseInv'
    BY <1>1 DEF InStep, UseInv, KbdThrough, MouseThrough, TypeKnown, Sound
  <1> QED
    BY <1>1, <1>2, <1>3, <1>4, <1>5, Onwards

\* A byte on its way.
LEMMA CalmDeliver ==
  ASSUME PortInv, InStep, NEW d \in Ps2!Devs, Ps2!Deliver(d)
  PROVE  InStep'
  <1>1. /\ todo[d] # <<>>
        /\ UNCHANGED <<ppc, dev, step, more, first, works, dual, wired, speaks, mouse_type, sent>>
    BY DEF Ps2!Deliver, Ps2!driverVars
  <1>2. ppc \in Talking /\ d = Partner /\ DOMAIN todo = Ps2!Devs /\ DOMAIN speaks = Ps2!Devs
    BY <1>1 DEF InStep, AnswerInv
  <1>3. ASSUME NEW vals \in Seq(Words), Coming(d, vals)
        PROVE  /\ Coming(d, vals)' /\ DOMAIN todo' = Ps2!Devs
               /\ \A e \in Ps2!Devs \ {d} : todo'[e] = todo[e]
    BY <1>2, <1>3, Delivered
  <1>4. TestInv'
    BY <1>1, <1>2 DEF InStep, TestInv, AsWired, Talking, KbdTalks, MouseTalks
  <1>5. UseInv'
    BY <1>1 DEF InStep, UseInv, KbdThrough, MouseThrough, TypeKnown, Sound
  <1>6. \A e \in Ps2!Devs \ {d} : todo[e] = <<>>
    BY <1>2, Elsewhere
  <1>7. Partner' = Partner
    BY <1>1 DEF Partner
  <1>8. /\ ResetAnswer("kbd") \in Seq(Words) /\ ResetAnswer("mouse") \in Seq(Words)
        /\ ResetAnswer("kbd")' = ResetAnswer("kbd") /\ ResetAnswer("mouse")' = ResetAnswer("mouse")
    BY <1>1, ResetWords DEF Ps2!Devs, ResetAnswer, Ps2!Answers
  <1>9. CASE ppc = "kbd_ack"
    <2>1. d = "kbd" /\ Coming(d, ResetAnswer("kbd")) /\ "kbd" \in works
      BY <1>2, <1>9 DEF InStep, AnswerInv, Partner, KbdTalks, Scripted
    <2>2. PICK vals \in Seq(Words) : vals = ResetAnswer("kbd")
      BY <1>8
    <2>3. AnswerInv'
      BY <1>1, <1>2, <1>3, <1>6, <1>7, <1>8, <1>9, <2>1, <2>2
         DEF AnswerInv, Asking, Talking, KbdTalks, MouseTalks, Scripted
    <2> QED
      BY <1>4, <1>5, <2>3 DEF InStep
  <1>10. CASE ppc = "mouse_ack"
    <2>1. d = "mouse" /\ Coming(d, ResetAnswer("mouse")) /\ "mouse" \in works
      BY <1>2, <1>10 DEF InStep, AnswerInv, Partner, KbdTalks, MouseTalks, Scripted
    <2>2. PICK vals \in Seq(Words) : vals = ResetAnswer("mouse")
      BY <1>8
    <2>3. AnswerInv'
      BY <1>1, <1>2, <1>3, <1>6, <1>7, <1>8, <1>10, <2>1, <2>2
         DEF AnswerInv, Asking, Talking, KbdTalks, MouseTalks, Scripted
    <2> QED
      BY <1>4, <1>5, <2>3 DEF InStep
  <1>11. CASE ppc = "kbd_result"
    <2>1. /\ d = "kbd" /\ Coming(d, Tail(ResetAnswer("kbd"))) /\ "kbd" \in works
          /\ wired.kbd # "absent" /\ first = "ack"
      BY <1>2, <1>11 DEF InStep, AnswerInv, Partner, KbdTalks, Scripted
    <2>2. PICK vals \in Seq(Words) : vals = Tail(ResetAnswer("kbd"))
      BY <2>1, ResetWords
    <2>3. AnswerInv'
      BY <1>1, <1>2, <1>3, <1>6, <1>7, <1>8, <1>11, <2>1, <2>2
         DEF AnswerInv, Asking, Talking, KbdTalks, MouseTalks, Scripted
    <2> QED
      BY <1>4, <1>5, <2>3 DEF InStep
  <1>12. CASE ppc = "mouse_result"
    <2>1. /\ d = "mouse" /\ Coming(d, Tail(ResetAnswer("mouse"))) /\ "mouse" \in works
          /\ wired.mouse # "absent"
      BY <1>2, <1>12 DEF InStep, AnswerInv, Partner, KbdTalks, MouseTalks, Scripted
    <2>2. PICK vals \in Seq(Words) : vals = Tail(ResetAnswer("mouse"))
      BY <2>1, ResetWords
    <2>3. AnswerInv'
      BY <1>1, <1>2, <1>3, <1>6, <1>7, <1>8, <1>12, <2>1, <2>2
         DEF AnswerInv, Asking, Talking, KbdTalks, MouseTalks, Scripted
    <2> QED
      BY <1>4, <1>5, <2>3 DEF InStep
  <1>13. CASE ppc = "mouse_id"
    <2>1. d = "mouse" /\ Coming(d, <<wired.mouse>>) /\ "mouse" \in works /\ Sound("mouse")
      BY <1>2, <1>13 DEF InStep, AnswerInv, Partner, KbdTalks, MouseTalks, Scripted
    <2>2. PICK vals \in Seq(Words) : vals = <<wired.mouse>>
      <3>1. PICK w \in {"standard", "wheel"} : w = wired.mouse
        BY <2>1, Resets
      <3>2. <<w>> \in Seq(Words)
        BY DEF Words
      <3> QED
        BY <3>1, <3>2
    <2>3. AnswerInv'
      BY <1>1, <1>2, <1>3, <1>6, <1>7, <1>13, <2>1, <2>2
         DEF AnswerInv, Asking, Talking, KbdTalks, MouseTalks, Scripted, Sound
    <2> QED
      BY <1>4, <1>5, <2>3 DEF InStep
  <1>14. CASE ppc \in {"ack", "more"}
    <2>1. d = dev
      BY <1>2, <1>14 DEF Partner, Scripted
    <2>2. /\ dev \in works /\ Sound(dev) /\ step \in DOMAIN Ps2!Script[dev]
          /\ Fits(Ps2!Answers(dev, Exchanged.cmd), dev, step)
      BY <1>14, Expected DEF Scripted, InStep, AnswerInv
    <2>3. Exchanged' = Exchanged /\ Ps2!Answers(dev, Exchanged.cmd)' = Ps2!Answers(dev, Exchanged.cmd)
      BY <1>1 DEF Exchanged, Ps2!Answers
    <2>4. CASE ppc = "ack"
      <3>1. PICK vals \in Seq(Words) : vals = Ps2!Answers(dev, Exchanged.cmd)
        BY <2>2 DEF Fits
      <3>2. Coming(d, vals)
        BY <2>1, <2>4, <3>1 DEF InStep, AnswerInv
      <3>3. Coming(d, vals)'
        BY <1>3, <3>2
      <3>4. Coming(dev, Ps2!Answers(dev, Exchanged.cmd))'
        BY <1>1, <2>1, <2>3, <3>1, <3>3
      <3>5. AnswerInv'
        BY <1>1, <1>2, <1>3, <1>6, <1>7, <2>1, <2>2, <2>4, <3>2, <3>4
           DEF AnswerInv, Asking, Talking, KbdTalks, MouseTalks, Scripted, Sound
      <3> QED
        BY <1>4, <1>5, <3>5 DEF InStep
    <2>5. CASE ppc = "more"
      <3>1. PICK vals \in Rests :
              /\ Coming(d, vals)
              /\ Len(vals) = more \/ (dev = "kbd" /\ vals = <<>>)
              /\ dev = "mouse" => vals = <<wired.mouse>>
        BY <2>1, <2>5 DEF InStep, AnswerInv
      <3>2. more \in 1 .. Exchanged.more
        BY <2>5 DEF InStep, AnswerInv
      <3>3. /\ Coming(d, vals)' /\ DOMAIN todo' = Ps2!Devs
            /\ \A e \in Ps2!Devs \ {d} : todo'[e] = todo[e]
        BY <1>3, <3>1, RestsShrink
      <3>4. AnswerInv'
        BY <1>1, <1>2, <1>6, <1>7, <2>1, <2>2, <2>3, <2>5, <3>1, <3>2, <3>3
           DEF AnswerInv, Asking, Talking, KbdTalks, MouseTalks, Scripted, Sound
      <3> QED
        BY <1>4, <1>5, <3>4 DEF InStep
    <2> QED
      BY <1>14, <2>4, <2>5
  <1> QED
    BY <1>2, <1>9, <1>10, <1>11, <1>12, <1>13, <1>14 DEF Talking, KbdTalks, MouseTalks


LEMMA CalmInit == Init => CalmInv
  <1> SUFFICES ASSUME NEW m \in Machines, BootOn(m)
               PROVE  CalmInv
    BY DEF Init
  <1>1. /\ ppc = "start" /\ strays = 0 /\ late = 0
        /\ DOMAIN todo = Ps2!Devs /\ DOMAIN speaks = Ps2!Devs
        /\ \A d \in Ps2!Devs : todo[d] = <<>>
    BY DEF BootOn, Ps2!Start
  <1>2. AnswerInv
    BY <1>1 DEF AnswerInv, Asking, Talking, KbdTalks, MouseTalks, Scripted
  <1>3. TestInv /\ UseInv
    BY <1>1 DEF TestInv, UseInv, KbdThrough, MouseThrough, TypeKnown, Scripted, MouseTalks,
       DeviceSteps
  <1> QED
    BY <1>1, <1>2, <1>3 DEF CalmInv, InStep

\* Strays and late answers are counted, and never forgotten.
LEMMA Counted ==
  ASSUME CalmInv, [Next]_vars
  PROVE  /\ strays' \in Nat /\ late' \in Nat
         /\ Ps2!Calm' => Ps2!Calm /\ UNCHANGED strays
  <1>1. strays \in Nat /\ late \in Nat
    BY DEF CalmInv
  <1>2. strays' \in {strays, strays + 1} /\ late' \in {late, late + 1}
    <2>1. CASE UNCHANGED ps2Vars
      BY <2>1 DEF ps2Vars
    <2>2. CASE Ps2!Driver
      BY <2>2 DEF Ps2!Driver, Ps2!Disable, Ps2!Flush, Ps2!Command, Ps2!Configure, Ps2!SelfTested, Ps2!Probe,
         Ps2!Probed, Ps2!Enable, Ps2!KbdResult, Ps2!MouseResult, Ps2!MouseId, Ps2!Send, Ps2!Ack,
         Ps2!More, Ps2!Finish, Ps2!Tested, Ps2!Reset, Ps2!ResetAck, Ps2!RunsOut
    <2>3. CASE \E d \in Ps2!Devs : Byte(d) \/ Stray(d)
      BY <2>3 DEF Byte, Stray, Ps2!Deliver, Ps2!Stray
    <2> QED
      BY <2>1, <2>2, <2>3 DEF Next, Kernel, InitHeap, InitPci, InitAhci, InitNvme, InitStorage,
         InitPs2, Ahci, Nvme, vars
  <1> QED
    BY <1>1, <1>2 DEF Ps2!Calm

LEMMA CalmNext == PortInv /\ CalmInv /\ [Next]_vars => CalmInv'
  <1> SUFFICES ASSUME PortInv, CalmInv, [Next]_vars, Ps2!Calm' PROVE InStep'
    BY Counted DEF CalmInv
  <1>1. InStep /\ UNCHANGED strays /\ strays \in Nat
    BY Counted DEF CalmInv
  <1>2. CASE Ps2!Driver
    BY <1>1, <1>2, CalmTests, CalmReset, CalmResetAck, CalmKbdResult, CalmMouseResult, CalmMouseId,
       CalmSend, CalmAck, CalmMore, CalmFinish DEF Ps2!Driver
  <1>3. CASE \E d \in Ps2!Devs : Byte(d)
    BY <1>1, <1>3, CalmDeliver DEF Byte
  <1>4. CASE \E d \in Ps2!Devs : Stray(d)
    BY <1>1, <1>4 DEF Stray, Ps2!Stray
  <1>5. CASE UNCHANGED ps2Vars
    <2>1. /\ UNCHANGED <<ppc, dev, step, more, first, config, dual, works, mouse_type>>
          /\ UNCHANGED <<ctl, out, todo, speaks, wired, sent>>
      BY <1>5 DEF ps2Vars
    <2>2. TestInv'
      BY <1>1, <2>1 DEF InStep, TestInv, AsWired
    <2>3. UseInv'
      BY <1>1, <2>1 DEF InStep, UseInv, KbdThrough, MouseThrough, TypeKnown, Sound
    <2>4. AnswerInv'
      <3>1. \A d, vals : Coming(d, vals)' <=> Coming(d, vals)
        BY <2>1 DEF Coming, Answer
      <3>2. \A d, cmd : Ps2!Answers(d, cmd)' = Ps2!Answers(d, cmd)
        BY <2>1 DEF Ps2!Answers
      <3>3. \A d : (Sound(d)' <=> Sound(d)) /\ ResetAnswer(d)' = ResetAnswer(d)
        BY <2>1, <3>2 DEF Sound, ResetAnswer
      <3>4. Exchanged' = Exchanged /\ Partner' = Partner
        BY <2>1 DEF Exchanged, Partner
      <3> QED
        BY <1>1, <2>1, <3>1, <3>2, <3>3, <3>4 DEF InStep, AnswerInv
    <2> QED
      BY <2>2, <2>3, <2>4 DEF InStep
  <1> QED
    BY <1>2, <1>3, <1>4, <1>5 DEF Next, Kernel, InitHeap, InitPci, InitAhci, InitNvme, InitStorage,
       InitPs2, Ahci, Nvme, vars

\* Until something comes unasked or late, each byte answers the last command.
THEOREM BytesAnswer == Spec => []AnswersInStep
  <1>1. ASSUME PortInv, CalmInv, Ps2!Calm, Ps2!Reading, out # <<>>
        PROVE  Head(out).of = sent
    <2>1. InStep /\ ppc \in Asking \cup Talking
      BY <1>1 DEF CalmInv, Ps2!Reading, Asking, Talking, KbdTalks, MouseTalks
    <2>2. CASE ppc \in Asking
      BY <1>1, <2>1, <2>2 DEF InStep, AnswerInv
    <2>3. ASSUME NEW d, NEW vals, Coming(d, vals)
          PROVE  Head(out).of = sent
      BY <1>1, <2>3 DEF Coming, Ps2!Byte
    <2>4. CASE ppc \in Talking
      BY <2>1, <2>3, <2>4 DEF InStep, AnswerInv, Talking, KbdTalks, MouseTalks
    <2> QED
      BY <2>1, <2>2, <2>4
  <1>2. PortInv /\ CalmInv => AnswersInStep
    BY <1>1 DEF AnswersInStep, Ps2!AnswersInStep
  <1> QED
    BY <1>2, PortInit, PortNext, CalmInit, CalmNext, PTL DEF Spec

\* What the devices have to say is kept for each.
TodoInv == todo = [d \in Ps2!Devs |-> todo[d]]

LEMMA TodoNext == TodoInv /\ [Next]_vars => TodoInv'
  <1> SUFFICES ASSUME TodoInv, [Next]_vars PROVE TodoInv'
    OBVIOUS
  <1>1. ASSUME NEW d, NEW a, todo' = [todo EXCEPT ![d] = a]
        PROVE  TodoInv'
    BY <1>1 DEF TodoInv
  <1>2. CASE UNCHANGED todo
    BY <1>2 DEF TodoInv
  <1>3. ASSUME NEW d, NEW cmd, Ps2!Receive(d, cmd)
        PROVE  TodoInv'
    BY <1>1, <1>2, <1>3 DEF Ps2!Receive
  <1>4. CASE Ps2!Driver
    BY <1>2, <1>3, <1>4 DEF Ps2!Driver, Ps2!Disable, Ps2!Flush, Ps2!Command, Ps2!Configure,
       Ps2!SelfTested, Ps2!Probe, Ps2!Probed, Ps2!Enable, Ps2!KbdResult, Ps2!MouseResult,
       Ps2!MouseId, Ps2!Send, Ps2!Ack, Ps2!More, Ps2!Finish, Ps2!Tested, Ps2!Reset, Ps2!ResetAck
  <1>5. CASE \E d \in Ps2!Devs : Byte(d) \/ Stray(d)
    BY <1>1, <1>5 DEF Byte, Stray, Ps2!Deliver, Ps2!Stray
  <1>6. CASE UNCHANGED ps2Vars
    BY <1>2, <1>6 DEF ps2Vars
  <1> QED
    BY <1>4, <1>5, <1>6 DEF Next, Kernel, InitHeap, InitPci, InitAhci, InitNvme, InitStorage,
       InitPs2, Ahci, Nvme, vars

\* Left in peace, init leaves each good device that it finds in use, and no byte.
THEOREM DevicesInUse == Spec => []DevicesReady
  <1>1. ASSUME PortInv, CalmInv, TodoInv, ppc = "done", Ps2!Calm
        PROVE  /\ out = <<>> /\ todo = [d \in Ps2!Devs |-> <<>>]
               /\ "kbd" \in wired.ports /\ wired.kbd \in {"at", "mf2"} => speaks["kbd"]
               /\ LET good == wired.mouse \in {"standard", "wheel"} IN
                  "mouse" \in wired.ports /\ "irq12" \in wired.irqs /\ good =>
                    speaks["mouse"] /\ mouse_type = wired.mouse
    <2>1. InStep /\ Configured
      BY <1>1 DEF CalmInv, PortInv, EarlySteps, ProbeSteps, TestSteps, DeviceSteps
    <2>2. /\ out = <<>> /\ DOMAIN todo = Ps2!Devs
          /\ \A d \in Ps2!Devs : todo[d] = <<>>
      BY <1>1, <2>1 DEF InStep, AnswerInv, Asking, Talking, KbdTalks, MouseTalks
    <2>3. todo = [d \in Ps2!Devs |-> <<>>]
      BY <1>1, <2>2 DEF TodoInv
    <2>4. /\ "kbd" \in works <=> "kbd" \in wired.ports
          /\ "mouse" \in works <=> "mouse" \in wired.ports /\ "irq12" \in wired.irqs
      BY <1>1, <2>1 DEF InStep, TestInv, AsWired, Configured, IsDual
    <2> QED
      BY <1>1, <2>1, <2>2, <2>3, <2>4 DEF InStep, UseInv, KbdThrough, MouseThrough, TypeKnown, Sound
  <1>2. PortInv /\ CalmInv /\ TodoInv => DevicesReady
    BY <1>1 DEF DevicesReady, Ps2!DevicesReady
  <1>3. Init => TodoInv
    BY DEF Init, BootOn, Ps2!Start, TodoInv
  <1> QED
    BY <1>2, <1>3, PortInit, PortNext, CalmInit, CalmNext, TodoNext, PTL DEF Spec
===============================================================================
