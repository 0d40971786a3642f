-------------------------------- MODULE Logger --------------------------------
(***************************************************************************)
(* The on-screen log (kernel/src/logger.rs), the global renderer it draws  *)
(* with (rendering.rs) and the code that logs from where it was not        *)
(* expected: the handlers of breakpoints, page faults and double faults    *)
(* (interrupts.rs) and the panic handler (main.rs), which run on top of    *)
(* whatever the main thread was doing, with the locks it held.  An         *)
(* exception enters with interrupts disabled, a panic with interrupts as   *)
(* they were; a double fault is a panic in an exception handler.           *)
(*                                                                         *)
(* Each handler logs one line here (the page fault handler logs four), and *)
(* the content of the text box is a version number: it grows with every    *)
(* line and every scroll.  staging and framebuffer hold the version they   *)
(* show, 0 for none.                                                       *)
(*                                                                         *)
(* Left out are the locks that log takes by waiting for them: the serial   *)
(* port's, the heap's, and that of the glyph cache (text_box.rs:28).  Of   *)
(* exceptions and panics that strike while one is held, whose handlers     *)
(* then wait for ever, nothing is said here.                               *)
(***************************************************************************)
EXTENDS Naturals

CONSTANTS MaxChanges,     \* bound: lines and scrolls of the main thread
          MaxExceptions,  \* bound: exceptions and panics
          None

ASSUME LoggerAssumption == MaxChanges \in Nat /\ MaxExceptions \in Nat

Contexts == {"main", "handler"}
ASSUME NoneAssumption == None \notin Contexts

Panics == {"panic", "double fault"}
Kinds == {"breakpoint", "page fault"} \cup Panics

VARIABLES
  pc,             \* per context: its step
  then,           \* per context: the step to go on with after log or flush
  intr,           \* interrupts enabled
  kind,           \* what the handler context handles
  box, renderer,  \* holders of the two locks
  enabled,        \* text_box is Some
  needs_flush, visible,
  text, staging, framebuffer,  \* versions
  changes, exceptions,         \* history: what the bounds bound
  message         \* history: version with the handler's last line, or 0

flags == <<needs_flush, visible, enabled>>
pixels == <<staging, framebuffer>>
control == <<intr, kind>>
history == <<changes, exceptions, message>>
vars == <<pc, then, control, box, renderer, flags, text, pixels, history>>

Init ==
  /\ pc = [c \in Contexts |-> IF c = "main" THEN "idle" ELSE "off"]
  /\ then = [c \in Contexts |-> "idle"]
  /\ intr = FALSE /\ kind = None
  /\ box = None /\ renderer = None
  /\ enabled = FALSE /\ needs_flush = FALSE /\ visible = TRUE
  /\ text = 0 /\ staging = 0 /\ framebuffer = 0
  /\ changes = 0 /\ exceptions = 0 /\ message = 0

\* A handler runs until it returns; a halted one never does.
Running(c) == c = IF pc["handler"] = "off" THEN "main" ELSE "handler"
At(c, step) == Running(c) /\ pc[c] = step
Goto(c, step) == pc' = [pc EXCEPT ![c] = step]
Halted == pc["handler"] = "halt"

-----------------------------------------------------------------------------
(* log and flush, in either context.                                       *)

\* log: the line goes into the text box if its lock is free.
Log(c) ==
  /\ At(c, "log")
  /\ IF box = None /\ enabled
     THEN box' = c /\ Goto(c, "push")
     ELSE UNCHANGED box /\ Goto(c, "auto flush")
  /\ UNCHANGED <<then, control, renderer, flags, text, pixels, history>>

Push(c) ==
  /\ At(c, "push")
  /\ text' = text + 1
  /\ message' = IF c = "handler" THEN text + 1 ELSE message
  /\ needs_flush' = TRUE
  /\ box' = None
  /\ Goto(c, "auto flush")
  /\ UNCHANGED <<then, control, renderer, visible, enabled, pixels, changes, exceptions>>

AutoFlush(c) ==
  /\ At(c, "auto flush")
  /\ Goto(c, IF needs_flush /\ visible /\ intr THEN "flush" ELSE then[c])
  /\ UNCHANGED <<then, control, box, renderer, flags, text, pixels, history>>

\* flush gives up when there is nothing to do, the text box is locked or not
\* there yet, or the renderer is locked and interrupts are enabled.
Flush(c) ==
  /\ At(c, "flush")
  /\ \/ /\ ~needs_flush \/ box # None
        /\ Goto(c, then[c])
        /\ UNCHANGED <<needs_flush, box, renderer>>
     \/ /\ needs_flush /\ box = None /\ ~enabled
        /\ needs_flush' = FALSE
        /\ Goto(c, then[c])
        /\ UNCHANGED <<box, renderer>>
     \/ /\ needs_flush /\ box = None /\ enabled
        /\ renderer = None
        /\ box' = c /\ renderer' = c
        /\ Goto(c, "draw")
        /\ UNCHANGED needs_flush
     \/ /\ needs_flush /\ box = None /\ enabled
        /\ renderer # None /\ intr
        /\ Goto(c, then[c])
        /\ UNCHANGED <<needs_flush, box, renderer>>
     \/ /\ needs_flush /\ box = None /\ enabled
        /\ renderer # None /\ ~intr
        /\ box' = c
        /\ Goto(c, "draw directly")
        /\ UNCHANGED <<needs_flush, renderer>>
  /\ UNCHANGED <<then, control, visible, enabled, text, pixels, history>>

Draw(c) ==
  /\ At(c, "draw")
  /\ staging' = text
  /\ Goto(c, "copy")
  /\ UNCHANGED <<then, control, box, renderer, flags, text, framebuffer, history>>

Copy(c) ==
  /\ At(c, "copy")
  /\ framebuffer' = staging
  /\ needs_flush' = FALSE
  /\ box' = None /\ renderer' = None
  /\ Goto(c, then[c])
  /\ UNCHANGED <<then, control, visible, enabled, text, staging, history>>

\* To the backup surface, past the lock of the renderer.
DrawDirectly(c) ==
  /\ At(c, "draw directly")
  /\ framebuffer' = text
  /\ needs_flush' = FALSE
  /\ box' = None
  /\ Goto(c, then[c])
  /\ UNCHANGED <<then, control, renderer, visible, enabled, text, staging, history>>

-----------------------------------------------------------------------------
(* The main thread.                                                        *)

EnableRendering ==
  /\ At("main", "idle") /\ ~enabled
  /\ enabled' = TRUE
  /\ needs_flush' = TRUE
  /\ UNCHANGED <<pc, then, control, box, renderer, visible, text, pixels, history>>

\* main.rs enables interrupts when everything is set up, and takes them away
\* for a moment in with_ps2_mouse and with_ps2_keyboard.
SetInterrupts(on) ==
  /\ At("main", "idle") /\ enabled
  /\ intr = ~on /\ intr' = on
  /\ UNCHANGED <<pc, then, kind, box, renderer, flags, text, pixels, history>>

StartLog ==
  /\ At("main", "idle")
  /\ changes < MaxChanges
  /\ changes' = changes + 1
  /\ Goto("main", "log")
  /\ UNCHANGED <<then, control, box, renderer, flags, text, pixels, exceptions, message>>

\* log::logger().flush() before ACPI is set up.
BootFlush ==
  /\ At("main", "idle") /\ ~intr
  /\ Goto("main", "flush")
  /\ UNCHANGED <<then, control, box, renderer, flags, text, pixels, history>>

Scroll ==
  /\ At("main", "idle") /\ enabled
  /\ changes < MaxChanges
  /\ changes' = changes + 1
  /\ text' = text + 1
  /\ needs_flush' = TRUE
  /\ UNCHANGED <<pc, then, control, box, renderer, visible, enabled, pixels, exceptions,
                 message>>

SetVisible ==
  /\ At("main", "idle") /\ enabled
  /\ visible' = ~visible
  /\ UNCHANGED <<pc, then, control, box, renderer, needs_flush, enabled, text, pixels,
                 history>>

\* A frame: clear the staging buffer, draw the world, LOGGER.render, flush.
StartFrame ==
  /\ At("main", "idle") /\ intr
  /\ renderer' = "main"
  /\ staging' = 0
  /\ Goto("main", "frame")
  /\ UNCHANGED <<then, control, box, flags, text, framebuffer, history>>

EnterRender ==
  /\ At("main", "frame")
  /\ IF visible
     THEN box = None /\ box' = "main" /\ Goto("main", "render")
     ELSE UNCHANGED box /\ Goto("main", "present")
  /\ UNCHANGED <<then, control, renderer, flags, text, pixels, history>>

Render ==
  /\ At("main", "render")
  /\ staging' = text
  /\ needs_flush' = FALSE
  /\ box' = None
  /\ Goto("main", "present")
  /\ UNCHANGED <<then, control, renderer, visible, enabled, text, framebuffer, history>>

\* Mutants: needs_flush is cleared here, without the text box, rather than in
\* Render; the staging buffer is not copied.
PresentClears ==
  /\ At("main", "present")
  /\ framebuffer' = staging
  /\ needs_flush' = FALSE
  /\ renderer' = None
  /\ Goto("main", "idle")
  /\ UNCHANGED <<then, control, box, visible, enabled, text, staging, history>>
PresentNothing ==
  /\ At("main", "present")
  /\ renderer' = None
  /\ Goto("main", "idle")
  /\ UNCHANGED <<then, control, box, flags, text, pixels, history>>

Present ==
  /\ At("main", "present")
  /\ framebuffer' = staging
  /\ renderer' = None
  /\ Goto("main", "idle")
  /\ UNCHANGED <<then, control, box, flags, text, staging, history>>

-----------------------------------------------------------------------------
(* Exceptions and panics, at any step of the main thread.                  *)

\* What each handler does after its line is logged.
\* Mutant: the panic handler relies on log to flush.
AfterNoFlush(k) == IF k = "breakpoint" THEN "return" ELSE "halt"
After(k) ==
  IF k = "breakpoint" THEN "return" ELSE IF k \in Panics THEN "flush" ELSE "halt"

Raise(k) ==
  /\ pc["handler"] = "off"
  /\ exceptions < MaxExceptions
  /\ exceptions' = exceptions + 1
  /\ kind' = [of |-> k, intr |-> intr]
  /\ intr' = IF k = "panic" THEN intr ELSE FALSE
  /\ visible' = IF k \in Panics THEN TRUE ELSE visible
  /\ message' = 0
  /\ Goto("handler", "log")
  /\ then' = [then EXCEPT !["handler"] = "next"]
  /\ UNCHANGED <<box, renderer, needs_flush, enabled, text, pixels, changes>>

\* After log has returned: return, halt, or flush and halt.
AfterLog ==
  /\ At("handler", "next")
  /\ Goto("handler", After(kind.of))
  /\ then' = [then EXCEPT !["handler"] = "halt"]
  /\ UNCHANGED <<control, box, renderer, flags, text, pixels, history>>

Iret ==
  /\ At("handler", "return")
  /\ intr' = kind.intr
  /\ kind' = None
  /\ Goto("handler", "off")
  /\ UNCHANGED <<then, box, renderer, flags, text, pixels, history>>

-----------------------------------------------------------------------------
Logging(c) ==
  \/ Log(c) \/ Push(c) \/ AutoFlush(c)
  \/ Flush(c) \/ Draw(c) \/ Copy(c) \/ DrawDirectly(c)

MainLoop ==
  \/ EnableRendering
  \/ \E on \in BOOLEAN : SetInterrupts(on)
  \/ StartLog \/ BootFlush \/ Scroll \/ SetVisible

Frame == EnterRender \/ Render \/ Present

Handler == AfterLog \/ Iret

Next ==
  \/ \E c \in Contexts : Logging(c)
  \/ MainLoop
  \/ StartFrame \/ Frame
  \/ \E k \in Kinds : Raise(k)
  \/ Handler

Spec == Init /\ [][Next]_vars

\* The one CPU goes on with what it has started; boot and the moments without
\* interrupts end, and the main loop comes round to the next frame.
FairSpec ==
  /\ Spec
  /\ \A c \in Contexts : WF_vars(Logging(c))
  /\ WF_vars(Frame) /\ WF_vars(Handler)
  /\ SF_vars(SetInterrupts(TRUE)) /\ SF_vars(StartFrame)

-----------------------------------------------------------------------------
(* Properties.                                                             *)

\* With no flush owed and no drawing under way, the screen shows all of the text
\* box, or none of it since the last frame was drawn with the log hidden: no line
\* or scroll is taken off the books before it is drawn, whoever logs in the middle
\* of a flush or a frame.
NothingOwedIsShown ==
  enabled /\ ~needs_flush /\ box = None /\ renderer = None
    => framebuffer \in {0, text}

Panicked == Halted /\ kind.of \in Panics
MessageShown == message # 0 /\ framebuffer >= message

\* A panic's message is on the screen when the handler halts, if the panic did not
\* strike while the text box was locked, nor with interrupts enabled while the
\* renderer was.
PanicShownUnlessLocked ==
  Panicked /\ enabled /\ box = None /\ ~(renderer # None /\ intr) => MessageShown

\* The comment of flush (logger.rs:147-150): a panic while the global renderer was
\* locked has its message rendered directly to the backup surface.
PanicShownOverRenderer ==
  Panicked /\ enabled /\ box = None => MessageShown

\* A line that could not be drawn at once is on the screen by the next frame,
\* unless the log is hidden or the kernel has halted (logger.rs:137-141).
EventuallyShown ==
  (enabled /\ visible /\ framebuffer < text)
    ~> (framebuffer = text \/ ~visible \/ Halted)
===============================================================================
