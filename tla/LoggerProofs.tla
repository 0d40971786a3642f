------------------------------ MODULE LoggerProofs ------------------------------
(* Proofs about Logger, for any number of lines, scrolls, exceptions and       *)
(* panics, at any step of the main thread.                                     *)
EXTENDS Logger, TLAPS

Steps ==
  {"off", "idle", "log", "push", "auto flush", "flush", "draw", "copy", "draw directly",
   "frame", "render", "present", "next", "return", "halt"}

\* Where a context holds the text box, where it holds the renderer.
BoxSteps == {"push", "draw", "copy", "draw directly", "render"}
RendererSteps == {"draw", "copy", "frame", "render", "present"}

TypeOK ==
  /\ pc \in [Contexts -> Steps] /\ then \in [Contexts -> Steps]
  /\ text \in Nat /\ staging \in Nat /\ framebuffer \in Nat /\ message \in Nat

\* A lock is held where the steps of its holder say so.
LockInv ==
  /\ box \in Contexts \cup {None} /\ renderer \in Contexts \cup {None}
  /\ \A c \in Contexts :
       /\ box = c <=> pc[c] \in BoxSteps
       /\ renderer = c <=> pc[c] \in RendererSteps

\* Only a breakpoint returns to the main thread, and with interrupts disabled it
\* flushes nothing.
HandlerInv ==
  /\ then["main"] = "idle"
  /\ pc["main"] \notin {"off", "next", "return", "halt"}
  /\ pc["handler"] \notin {"idle", "frame", "render", "present"}
  /\ pc["handler"] # "off" => kind.of \in Kinds
  /\ pc["handler"] \in {"log", "push", "auto flush"} => then["handler"] = "next"
  /\ pc["handler"] \in {"flush", "draw", "copy", "draw directly"} =>
       then["handler"] \in {"next", "halt"}
  /\ pc["handler"] \in {"log", "push", "auto flush", "next", "return"} /\ kind.of = "breakpoint"
       => ~intr
  /\ pc["handler"] \in {"flush", "draw", "copy", "draw directly", "halt"}
       => kind.of # "breakpoint"
  /\ pc["handler"] = "return" => kind.of = "breakpoint"
  /\ pc["handler"] \in {"flush", "draw", "copy", "draw directly"} /\ then["handler"] = "halt"
       => kind.of \in Panics

\* The main thread may yet run.
Alive == pc["handler"] = "off" \/ kind.of = "breakpoint"

\* What the buffers hold.
DrawnInv ==
  /\ \A c \in Contexts : pc[c] = "copy" => staging = text
  /\ pc["main"] = "frame" => staging = 0
  /\ pc["main"] = "present" /\ Alive /\ ~needs_flush => staging \in {0, text}
  /\ pc["main"] # "present" /\ enabled /\ ~needs_flush => framebuffer \in {0, text}

\* The handler's line is in the text box once it has been logged, unless the main
\* thread holds the box.
Logged == pc["handler"] \notin {"off", "log", "push"}

MessageInv ==
  Logged /\ enabled /\ pc["main"] \notin BoxSteps =>
    /\ message = text /\ message # 0
    /\ ~needs_flush => framebuffer = text
    /\ Panicked /\ ~(renderer # None /\ intr) => framebuffer = text

IInv == TypeOK /\ LockInv /\ HandlerInv /\ DrawnInv /\ MessageInv


-----------------------------------------------------------------------------
(* Steps.                                                                  *)

\* A step, by action.
LEMMA NextCases ==
  ASSUME [Next]_vars
  PROVE  \/ \E c \in Contexts : Log(c) \/ Push(c) \/ AutoFlush(c) \/ Flush(c) \/ Draw(c)
                               \/ Copy(c) \/ DrawDirectly(c)
         \/ EnableRendering
         \/ \E on \in BOOLEAN : SetInterrupts(on)
         \/ StartLog \/ BootFlush \/ Scroll \/ SetVisible
         \/ StartFrame \/ EnterRender \/ Render \/ Present
         \/ \E k \in Kinds : Raise(k)
         \/ AfterLog \/ Iret
         \/ UNCHANGED vars
BY Zenon DEF Next, Logging, MainLoop, Frame, Handler

\* A version that has been counted up is not 0.
LEMMA Successor == \A n \in Nat : n + 1 \in Nat /\ n + 1 # 0
OBVIOUS

\* The variables keep their types.
LEMMA TypeStep ==
  ASSUME TypeOK, [Next]_vars
  PROVE  TypeOK'
  <1> USE DEF TypeOK, At, Running, Goto, After, flags, pixels, control, history, Contexts,
          Steps
  <1>1. ASSUME NEW c \in Contexts, Log(c) PROVE TypeOK'
    BY <1>1 DEF Log
  <1>2. ASSUME NEW c \in Contexts, Push(c) PROVE TypeOK'
    <2>1. /\ pc' = [pc EXCEPT ![c] = "auto flush"] /\ then' = then
          /\ text' = text + 1 /\ message' \in {text + 1, message}
          /\ staging' = staging /\ framebuffer' = framebuffer
      BY <1>2, Zenon DEF Push
    <2>2. text + 1 \in Nat
      BY Successor, Zenon
    <2> QED
      BY <2>1, <2>2
  <1>3. ASSUME NEW c \in Contexts, AutoFlush(c) PROVE TypeOK'
    BY <1>3 DEF AutoFlush
  <1>4. ASSUME NEW c \in Contexts, Flush(c) PROVE TypeOK'
    BY <1>4 DEF Flush
  <1>5. ASSUME NEW c \in Contexts, Draw(c) PROVE TypeOK'
    BY <1>5 DEF Draw
  <1>6. ASSUME NEW c \in Contexts, Copy(c) PROVE TypeOK'
    BY <1>6 DEF Copy
  <1>7. ASSUME NEW c \in Contexts, DrawDirectly(c) PROVE TypeOK'
    BY <1>7 DEF DrawDirectly
  <1>8. CASE EnableRendering
    BY <1>8 DEF EnableRendering
  <1>9. CASE StartLog
    BY <1>9 DEF StartLog
  <1>10. CASE BootFlush
    BY <1>10 DEF BootFlush
  <1>11. CASE Scroll
    <2>1. /\ pc' = pc /\ then' = then
          /\ text' = text + 1 /\ message' = message
          /\ staging' = staging /\ framebuffer' = framebuffer
      BY <1>11, Zenon DEF Scroll
    <2>2. text + 1 \in Nat
      BY Successor, Zenon
    <2> QED
      BY <2>1, <2>2
  <1>12. CASE SetVisible
    BY <1>12 DEF SetVisible
  <1>13. CASE StartFrame
    BY <1>13 DEF StartFrame
  <1>14. CASE EnterRender
    BY <1>14 DEF EnterRender
  <1>15. CASE Render
    BY <1>15 DEF Render
  <1>16. CASE Present
    BY <1>16 DEF Present
  <1>17. CASE AfterLog
    BY <1>17 DEF AfterLog
  <1>18. CASE Iret
    BY <1>18 DEF Iret
  <1>19. ASSUME NEW on \in BOOLEAN, SetInterrupts(on) PROVE TypeOK'
    BY <1>19 DEF SetInterrupts
  <1>20. ASSUME NEW k \in Kinds, Raise(k) PROVE TypeOK'
    BY <1>20 DEF Raise
  <1>21. CASE UNCHANGED vars
    BY <1>21 DEF vars
  <1> QED
    BY NextCases, <1>1, <1>2, <1>3, <1>4, <1>5, <1>6, <1>7, <1>8, <1>9, <1>10, <1>11,
       <1>12, <1>13, <1>14, <1>15, <1>16, <1>17, <1>18, <1>19, <1>20, <1>21

\* No step takes a lock that is held or releases one it does not hold.
LEMMA LockStep ==
  ASSUME TypeOK, LockInv, HandlerInv, [Next]_vars
  PROVE  LockInv'
  <1> USE NoneAssumption
      DEF TypeOK, LockInv, HandlerInv, BoxSteps, RendererSteps, After, At, Running, Goto,
          flags, pixels, control, history, Contexts, Steps
  <1>1. ASSUME NEW c \in Contexts, Log(c) PROVE LockInv'
    BY <1>1 DEF Log
  <1>2. ASSUME NEW c \in Contexts, Push(c) PROVE LockInv'
    BY <1>2 DEF Push
  <1>3. ASSUME NEW c \in Contexts, AutoFlush(c) PROVE LockInv'
    BY <1>3 DEF AutoFlush
  <1>4. ASSUME NEW c \in Contexts, Flush(c) PROVE LockInv'
    BY <1>4 DEF Flush
  <1>5. ASSUME NEW c \in Contexts, Draw(c) PROVE LockInv'
    BY <1>5 DEF Draw
  <1>6. ASSUME NEW c \in Contexts, Copy(c) PROVE LockInv'
    BY <1>6 DEF Copy
  <1>7. ASSUME NEW c \in Contexts, DrawDirectly(c) PROVE LockInv'
    BY <1>7 DEF DrawDirectly
  <1>8. CASE EnableRendering
    BY <1>8 DEF EnableRendering
  <1>9. CASE StartLog
    BY <1>9 DEF StartLog
  <1>10. CASE BootFlush
    BY <1>10 DEF BootFlush
  <1>11. CASE Scroll
    BY <1>11 DEF Scroll
  <1>12. CASE SetVisible
    BY <1>12 DEF SetVisible
  <1>13. CASE StartFrame
    BY <1>13 DEF StartFrame
  <1>14. CASE EnterRender
    BY <1>14 DEF EnterRender
  <1>15. CASE Render
    BY <1>15 DEF Render
  <1>16. CASE Present
    BY <1>16 DEF Present
  <1>17. CASE AfterLog
    BY <1>17 DEF AfterLog
  <1>18. CASE Iret
    BY <1>18 DEF Iret
  <1>19. ASSUME NEW on \in BOOLEAN, SetInterrupts(on) PROVE LockInv'
    BY <1>19 DEF SetInterrupts
  <1>20. ASSUME NEW k \in Kinds, Raise(k) PROVE LockInv'
    BY <1>20 DEF Raise
  <1>21. CASE UNCHANGED vars
    BY <1>21 DEF vars
  <1> QED
    BY NextCases, <1>1, <1>2, <1>3, <1>4, <1>5, <1>6, <1>7, <1>8, <1>9, <1>10, <1>11,
       <1>12, <1>13, <1>14, <1>15, <1>16, <1>17, <1>18, <1>19, <1>20, <1>21

\* The handler goes where its kind sends it.
LEMMA HandlerStep ==
  ASSUME TypeOK, LockInv, HandlerInv, [Next]_vars
  PROVE  HandlerInv'
  <1> USE NoneAssumption
      DEF TypeOK, LockInv, HandlerInv, BoxSteps, RendererSteps, After, Kinds, Panics, At,
          Running, Goto, flags, pixels, control, history, Contexts, Steps
  <1>1. ASSUME NEW c \in Contexts, Log(c) PROVE HandlerInv'
    BY <1>1, ZenonT(60) DEF Log
  <1>2. ASSUME NEW c \in Contexts, Push(c) PROVE HandlerInv'
    BY <1>2 DEF Push
  <1>3. ASSUME NEW c \in Contexts, AutoFlush(c) PROVE HandlerInv'
    BY <1>3 DEF AutoFlush
  <1>4. ASSUME NEW c \in Contexts, Flush(c) PROVE HandlerInv'
    BY <1>4 DEF Flush
  <1>5. ASSUME NEW c \in Contexts, Draw(c) PROVE HandlerInv'
    BY <1>5 DEF Draw
  <1>6. ASSUME NEW c \in Contexts, Copy(c) PROVE HandlerInv'
    BY <1>6 DEF Copy
  <1>7. ASSUME NEW c \in Contexts, DrawDirectly(c) PROVE HandlerInv'
    BY <1>7 DEF DrawDirectly
  <1>8. CASE EnableRendering
    BY <1>8 DEF EnableRendering
  <1>9. CASE StartLog
    BY <1>9 DEF StartLog
  <1>10. CASE BootFlush
    BY <1>10 DEF BootFlush
  <1>11. CASE Scroll
    BY <1>11 DEF Scroll
  <1>12. CASE SetVisible
    BY <1>12 DEF SetVisible
  <1>13. CASE StartFrame
    BY <1>13 DEF StartFrame
  <1>14. CASE EnterRender
    BY <1>14 DEF EnterRender
  <1>15. CASE Render
    BY <1>15 DEF Render
  <1>16. CASE Present
    BY <1>16 DEF Present
  <1>17. CASE AfterLog
    BY <1>17 DEF AfterLog
  <1>18. CASE Iret
    BY <1>18 DEF Iret
  <1>19. ASSUME NEW on \in BOOLEAN, SetInterrupts(on) PROVE HandlerInv'
    BY <1>19 DEF SetInterrupts
  <1>20. ASSUME NEW k \in Kinds, Raise(k) PROVE HandlerInv'
    BY <1>20 DEF Raise
  <1>21. CASE UNCHANGED vars
    BY <1>21 DEF vars
  <1> QED
    BY NextCases, <1>1, <1>2, <1>3, <1>4, <1>5, <1>6, <1>7, <1>8, <1>9, <1>10, <1>11,
       <1>12, <1>13, <1>14, <1>15, <1>16, <1>17, <1>18, <1>19, <1>20, <1>21

\* needs_flush is cleared only for what has been drawn, or will be by the frame.
LEMMA DrawnStep ==
  ASSUME TypeOK, LockInv, HandlerInv, DrawnInv, [Next]_vars
  PROVE  DrawnInv'
  <1> USE NoneAssumption
      DEF TypeOK, LockInv, HandlerInv, DrawnInv, Alive, BoxSteps, RendererSteps, After, Kinds,
          Panics, At, Running, Goto, flags, pixels, control, history, Contexts, Steps
  <1>1. ASSUME NEW c \in Contexts, Log(c) PROVE DrawnInv'
    BY <1>1 DEF Log
  <1>2. ASSUME NEW c \in Contexts, Push(c) PROVE DrawnInv'
    BY <1>2 DEF Push
  <1>3. ASSUME NEW c \in Contexts, AutoFlush(c) PROVE DrawnInv'
    BY <1>3 DEF AutoFlush
  <1>4. ASSUME NEW c \in Contexts, Flush(c) PROVE DrawnInv'
    BY <1>4 DEF Flush
  <1>5. ASSUME NEW c \in Contexts, Draw(c) PROVE DrawnInv'
    BY <1>5 DEF Draw
  <1>6. ASSUME NEW c \in Contexts, Copy(c) PROVE DrawnInv'
    BY <1>6 DEF Copy
  <1>7. ASSUME NEW c \in Contexts, DrawDirectly(c) PROVE DrawnInv'
    BY <1>7 DEF DrawDirectly
  <1>8. CASE EnableRendering
    BY <1>8 DEF EnableRendering
  <1>9. CASE StartLog
    BY <1>9 DEF StartLog
  <1>10. CASE BootFlush
    BY <1>10 DEF BootFlush
  <1>11. CASE Scroll
    BY <1>11 DEF Scroll
  <1>12. CASE SetVisible
    BY <1>12 DEF SetVisible
  <1>13. CASE StartFrame
    BY <1>13 DEF StartFrame
  <1>14. CASE EnterRender
    BY <1>14 DEF EnterRender
  <1>15. CASE Render
    BY <1>15 DEF Render
  <1>16. CASE Present
    BY <1>16 DEF Present
  <1>17. CASE AfterLog
    BY <1>17 DEF AfterLog
  <1>18. CASE Iret
    BY <1>18 DEF Iret
  <1>19. ASSUME NEW on \in BOOLEAN, SetInterrupts(on) PROVE DrawnInv'
    BY <1>19 DEF SetInterrupts
  <1>20. ASSUME NEW k \in Kinds, Raise(k) PROVE DrawnInv'
    BY <1>20 DEF Raise
  <1>21. CASE UNCHANGED vars
    BY <1>21 DEF vars
  <1> QED
    BY NextCases, <1>1, <1>2, <1>3, <1>4, <1>5, <1>6, <1>7, <1>8, <1>9, <1>10, <1>11,
       <1>12, <1>13, <1>14, <1>15, <1>16, <1>17, <1>18, <1>19, <1>20, <1>21

\* The handler's line stays the last one, and is drawn before a panic halts.
LEMMA MessageStep ==
  ASSUME TypeOK, LockInv, HandlerInv, DrawnInv, MessageInv, [Next]_vars
  PROVE  MessageInv'
  <1> USE NoneAssumption
      DEF TypeOK, LockInv, HandlerInv, DrawnInv, MessageInv, Logged, Panicked, Halted,
          BoxSteps, RendererSteps, After, Kinds, Panics, At, Running, Goto, flags, pixels,
          control, history, Contexts, Steps
  <1>1. ASSUME NEW c \in Contexts, Log(c) PROVE MessageInv'
    BY <1>1 DEF Log
  <1>2. ASSUME NEW c \in Contexts, Push(c) PROVE MessageInv'
    <2>1. /\ pc[c] = "push" /\ pc' = [pc EXCEPT ![c] = "auto flush"] /\ kind' = kind
          /\ text' = text + 1 /\ message' = IF c = "handler" THEN text + 1 ELSE message
      BY <1>2, Zenon DEF Push
    <2>2. needs_flush'
      BY <1>2, Zenon DEF Push
    <2>3. ~Panicked'
      BY <2>1, <1>2 DEF Push
    <2>4. c = "main" => pc["handler"] = "off" /\ pc'["handler"] = "off"
      BY <2>1, <1>2 DEF Push
    <2>5. text + 1 # 0
      BY Successor, Zenon
    <2>6. c = "handler" => message' = text' /\ message' # 0
      BY <2>1, <2>5, Zenon
    <2> QED
      BY <2>2, <2>3, <2>4, <2>6
  <1>3. ASSUME NEW c \in Contexts, AutoFlush(c) PROVE MessageInv'
    BY <1>3 DEF AutoFlush
  <1>4. ASSUME NEW c \in Contexts, Flush(c) PROVE MessageInv'
    BY <1>4 DEF Flush
  <1>5. ASSUME NEW c \in Contexts, Draw(c) PROVE MessageInv'
    BY <1>5 DEF Draw
  <1>6. ASSUME NEW c \in Contexts, Copy(c) PROVE MessageInv'
    BY <1>6 DEF Copy
  <1>7. ASSUME NEW c \in Contexts, DrawDirectly(c) PROVE MessageInv'
    BY <1>7 DEF DrawDirectly
  <1>8. CASE EnableRendering
    BY <1>8 DEF EnableRendering
  <1>9. CASE StartLog
    BY <1>9 DEF StartLog
  <1>10. CASE BootFlush
    BY <1>10 DEF BootFlush
  <1>11. CASE Scroll
    BY <1>11 DEF Scroll
  <1>12. CASE SetVisible
    BY <1>12 DEF SetVisible
  <1>13. CASE StartFrame
    BY <1>13 DEF StartFrame
  <1>14. CASE EnterRender
    BY <1>14 DEF EnterRender
  <1>15. CASE Render
    BY <1>15 DEF Render
  <1>16. CASE Present
    BY <1>16 DEF Present
  <1>17. CASE AfterLog
    BY <1>17 DEF AfterLog
  <1>18. CASE Iret
    BY <1>18 DEF Iret
  <1>19. ASSUME NEW on \in BOOLEAN, SetInterrupts(on) PROVE MessageInv'
    BY <1>19 DEF SetInterrupts
  <1>20. ASSUME NEW k \in Kinds, Raise(k) PROVE MessageInv'
    BY <1>20 DEF Raise
  <1>21. CASE UNCHANGED vars
    BY <1>21 DEF vars
  <1> QED
    BY NextCases, <1>1, <1>2, <1>3, <1>4, <1>5, <1>6, <1>7, <1>8, <1>9, <1>10, <1>11,
       <1>12, <1>13, <1>14, <1>15, <1>16, <1>17, <1>18, <1>19, <1>20, <1>21

-----------------------------------------------------------------------------
(* The invariant, and what it says.                                        *)

\* The strengthened invariant of the log: what the locks, the handler, the buffers
\* and the handler's message have to do with each other (logger.rs, interrupts.rs).
THEOREM Invariant == Spec => []IInv
  <1>1. Init => IInv
    <2> SUFFICES ASSUME Init PROVE IInv
      OBVIOUS
    <2>1. /\ pc["main"] = "idle" /\ pc["handler"] = "off"
          /\ then["main"] = "idle"
          /\ box = None /\ renderer = None
          /\ staging = 0 /\ framebuffer = 0
      BY DEF Init, Contexts
    <2>2. TypeOK
      BY DEF Init, TypeOK, Contexts, Steps
    <2>3. LockInv
      BY <2>1, NoneAssumption DEF LockInv, BoxSteps, RendererSteps, Contexts
    <2>4. HandlerInv
      BY <2>1 DEF HandlerInv
    <2>5. DrawnInv
      BY <2>1 DEF DrawnInv, Contexts
    <2>6. MessageInv
      BY <2>1 DEF MessageInv, Logged
    <2> QED
      BY <2>2, <2>3, <2>4, <2>5, <2>6 DEF IInv
  <1>2. IInv /\ [Next]_vars => IInv'
    BY TypeStep, LockStep, HandlerStep, DrawnStep, MessageStep, Zenon DEF IInv
  <1> QED
    BY <1>1, <1>2, PTL DEF Spec

\* No line or scroll is taken off the books before it is drawn, however many lines
\* are logged, whoever logs in the middle of a flush or a frame (logger.rs: flush,
\* render).
THEOREM NothingOwed == Spec => []NothingOwedIsShown
  <1>1. IInv => NothingOwedIsShown
    BY NoneAssumption
    DEF IInv, LockInv, DrawnInv, NothingOwedIsShown, RendererSteps, Contexts
  <1> QED
    BY <1>1, Invariant, PTL

\* A panic at any step, alone or in the handler of an exception, leaves its message on
\* the screen, unless it struck while the text box was locked, or with interrupts
\* enabled while the renderer was (main.rs: panic, logger.rs: flush).
THEOREM PanicShown == Spec => []PanicShownUnlessLocked
  <1>1. IInv => PanicShownUnlessLocked
    <2> SUFFICES ASSUME IInv, Panicked, enabled, box = None, ~(renderer # None /\ intr)
                 PROVE  MessageShown
      BY Zenon DEF PanicShownUnlessLocked
    <2>1. pc["main"] \notin BoxSteps
      BY NoneAssumption DEF IInv, LockInv, Contexts
    <2>2. Logged
      BY Zenon DEF Logged, Panicked, Halted
    <2>3. message = text /\ message # 0 /\ framebuffer = text
      BY <2>1, <2>2, Zenon DEF IInv, MessageInv
    <2>4. text >= text
      BY DEF IInv, TypeOK
    <2> QED
      BY <2>3, <2>4, Zenon DEF MessageShown
  <1> QED
    BY <1>1, Invariant, PTL
===============================================================================
