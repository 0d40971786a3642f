-------------------------------- MODULE Console --------------------------------
(***************************************************************************)
(* The console (kernel/src/console.rs) and the log panel above it, as the  *)
(* main loop drives them with keyboard events (main.rs): scrolling the     *)
(* log, opening the console, hiding both, editing a line and submitting it *)
(* as a command, which answers in the log.                                 *)
(*                                                                         *)
(* What a command does to the game is in Game; here it is what it logs.    *)
(* Only presses become events (Ps2Input).  The text box of the log is free *)
(* whenever the main loop is at an event, so no line is dropped; Logger    *)
(* has the exceptions to that.                                             *)
(***************************************************************************)
EXTENDS TextBox, GlyphCache

CONSTANTS LOG_WIDTH, LOG_HEIGHT,  \* of the log panel, pixels (800, 450)
          MAX_INPUT_LEN,  \* (96)
          PROMPT, PLACEHOLDER_TEXT,
          Keys,           \* records [code, character]; "" for no character
          Replies,        \* [known commands -> sequence of the lines logged]
          Unknown(_),     \* the line for any other command
          Notices,        \* lines logged by the rest of the main loop
          Dropped,        \* bytes that are no glyphs, such as those of a dash
          MaxLogged       \* bound: lines in the log

LevelColor ==
  [ERROR |-> "RED", WARN |-> "YELLOW", INFO |-> "WHITE", DEBUG |-> "LIGHT_GRAY"]

\* What the kernel logs has no control bytes but line ends; the help text has a
\* dash of several bytes, none of which the font has.
Lines == [level : DOMAIN LevelColor, args : Seq(Printable \cup {NL} \cup Dropped)]

\* The panels have room for a glyph.
ASSUME ConsoleAssumption ==
  /\ LOG_WIDTH \in Nat /\ LOG_WIDTH >= 3 * PADDING + ADVANCE
  /\ LOG_HEIGHT \in Nat /\ LOG_HEIGHT >= 2 * PADDING
  /\ MAX_INPUT_LEN \in Nat /\ MaxLogged \in Nat
  /\ \A command \in DOMAIN Replies : Replies[command] \in Seq(Lines)
  /\ \A command \in BoundedSeq(Printable, MAX_INPUT_LEN) : Unknown(command) \in Lines
  /\ Notices \subseteq Lines
  /\ Dropped \cap (Printable \cup Colors \cup {ESC, BEL, NL}) = {}
  /\ PROMPT \in Seq(Printable) /\ PLACEHOLDER_TEXT \in Seq(Printable)
  /\ {LevelColor[l] : l \in DOMAIN LevelColor} \subseteq Colors

VARIABLES
  input, cursor_pos, active, visible,
  console,      \* text box of the console
  log,          \* text box of the log
  log_visible,
  logged        \* history: the lines logged, records [level, args]

line_vars == <<input, cursor_pos, active>>
log_vars == <<log, logged>>
vars == <<line_vars, visible, console, log_vars, log_visible>>

-----------------------------------------------------------------------------
Content(text, on) ==
  IF text = <<>> /\ ~on
  THEN PROMPT \o Fg("LIGHT_GRAY") \o PLACEHOLDER_TEXT \o Fg("WHITE")
  ELSE PROMPT \o text

\* update_text, after input, cursor_pos and active have been set.
UpdateText ==
  console' = SetCursorIndex(SetText(console, Content(input', active')),
                            IF active' THEN Len(PROMPT) + cursor_pos' ELSE -1)

\* What TextBoxLogger::log writes for one line.
LogLine(tb, l) ==
  WriteStr(tb, Fg(LevelColor[l.level]) \o l.args \o Fg(tb.color_text) \o <<NL>>)

LogLines(tb, lines) ==
  LET after[n \in 0 .. Len(lines)] ==
        IF n = 0 THEN tb ELSE LogLine(after[n - 1], lines[n])
  IN after[Len(lines)]

WriteLog(lines) ==
  /\ Len(logged) + Len(lines) <= MaxLogged
  /\ log' = LogLines(log, lines)
  /\ logged' = logged \o lines

\* The console is one line high, and as wide as the log above it.
ConsolePanel == New(LOG_WIDTH, MinDimensions(MAX_INPUT_LEN, 1).y)
LogPanel == New(LOG_WIDTH, LOG_HEIGHT)

Init ==
  /\ input = <<>> /\ cursor_pos = 0 /\ active = FALSE /\ visible = TRUE
  /\ console = SetText(ConsolePanel, Content(<<>>, FALSE))
  /\ log = LogPanel /\ log_visible = TRUE /\ logged = <<>>

-----------------------------------------------------------------------------
(* One action per way the main loop treats an event, in its order.         *)

ScrollLog(key) ==
  /\ ~active /\ key.code \in {"ArrowUp", "ArrowDown"}
  /\ log' = Scroll(log, IF key.code = "ArrowUp" THEN 1 ELSE -1)
  /\ UNCHANGED <<line_vars, visible, console, log_visible, logged>>

\* The key that opens the console is not typed into it.
OpenConsole(key) ==
  /\ ~active /\ key.code \in {"T", "Return"}
  /\ active' = TRUE /\ cursor_pos' = Len(input) /\ input' = input
  /\ UpdateText
  /\ UNCHANGED <<visible, log_vars, log_visible>>

ToggleLogs(key) ==
  /\ key.code = "Oem8"
  /\ visible' = ~(visible /\ log_visible)
  /\ log_visible' = ~(visible /\ log_visible)
  /\ UNCHANGED <<line_vars, console, log_vars>>

\* process_event.  Escape does nothing to the text but hide the cursor.
SPACE == " "

Trim(text) ==
  LET kept == {i \in DOMAIN text : text[i] # SPACE} IN
  IF kept = {} THEN <<>>
  ELSE SubSeq(text, CHOOSE i \in kept : \A j \in kept : i <= j,
                    CHOOSE i \in kept : \A j \in kept : i >= j)

Reply(command) ==
  IF command = <<>> THEN <<>>
  ELSE IF command \in DOMAIN Replies THEN Replies[command]
  ELSE <<Unknown(command)>>

Submit(key) ==
  /\ active /\ key.code = "Return"
  /\ input' = <<>> /\ cursor_pos' = 0 /\ active' = FALSE
  /\ UpdateText
  /\ WriteLog(Reply(Trim(input)))
  /\ UNCHANGED <<visible, log_visible>>

\* Mutant: the character behind the cursor is removed.
BackspaceBehind(key) ==
  /\ active /\ key.code = "Backspace"
  /\ IF cursor_pos > 0
     THEN /\ input' = RemoveAt(input, Smaller(cursor_pos + 1, Len(input)))
          /\ cursor_pos' = cursor_pos - 1
          /\ active' = active
          /\ UpdateText
     ELSE UNCHANGED <<line_vars, console>>
  /\ UNCHANGED <<visible, log_vars, log_visible>>

Backspace(key) ==
  /\ active /\ key.code = "Backspace"
  /\ IF cursor_pos > 0
     THEN /\ input' = RemoveAt(input, cursor_pos)
          /\ cursor_pos' = cursor_pos - 1
          /\ active' = active
          /\ UpdateText
     ELSE UNCHANGED <<line_vars, console>>
  /\ UNCHANGED <<visible, log_vars, log_visible>>

Escape(key) ==
  /\ active /\ key.code = "Escape"
  /\ active' = FALSE /\ UNCHANGED <<input, cursor_pos>>
  /\ UpdateText
  /\ UNCHANGED <<visible, log_vars, log_visible>>

Arrow(key) ==
  /\ active /\ key.code \in {"ArrowLeft", "ArrowRight"}
  /\ cursor_pos' = IF key.code = "ArrowLeft" THEN Larger(0, cursor_pos - 1)
                   ELSE Smaller(cursor_pos + 1, Len(input))
  /\ UNCHANGED <<input, active>>
  /\ UpdateText
  /\ UNCHANGED <<visible, log_vars, log_visible>>

\* Mutant: any character is inserted.
AcceptsAny(key) == key.character # "" /\ Len(input) < MAX_INPUT_LEN

\* A character that is no control character, such as Tab's or Delete's.
Accepts(key) == key.character \in Printable /\ Len(input) < MAX_INPUT_LEN

Special ==
  {"Oem8", "Return", "Backspace", "Escape", "ArrowLeft", "ArrowRight"}

Insert(key) ==
  /\ active /\ key.code \notin Special
  /\ IF Accepts(key)
     THEN /\ input' = InsertAt(input, cursor_pos + 1, key.character)
          /\ cursor_pos' = cursor_pos + 1
          /\ active' = active
          /\ UpdateText
     ELSE UNCHANGED <<line_vars, console>>
  /\ UNCHANGED <<visible, log_vars, log_visible>>

\* Lines logged between events, by other parts of the main loop.
Notice ==
  /\ \E l \in Notices : WriteLog(<<l>>)
  /\ UNCHANGED <<line_vars, visible, console, log_visible>>

\* The glyphs of a frame: the log's, then the console's.
FrameGlyphs ==
  (IF log_visible THEN Drawn(log) ELSE <<>>) \o
  (IF visible \/ active THEN Drawn(console) ELSE <<>>)

Event(key) ==
  \/ ScrollLog(key) \/ OpenConsole(key) \/ ToggleLogs(key)
  \/ Submit(key) \/ Backspace(key) \/ Escape(key) \/ Arrow(key) \/ Insert(key)

Next == (\E key \in Keys : Event(key)) \/ Notice

Spec == Init /\ [][Next]_vars

-----------------------------------------------------------------------------
(* Properties.                                                             *)

\* The visual lines that push_byte keeps up to date glyph by glyph are the logical
\* lines cut where the width ends: none is lost, shown twice or cut early.
LayoutIsWrapped == IsWrapped(console) /\ IsWrapped(log)

\* The glyphs of a text box, and those of a logged line, with their line ends.
LineBreak == [b |-> NL, color |-> ""]
Glyphs(buffer) == FlattenSeq([i \in DOMAIN buffer |-> Append(buffer[i], LineBreak)])
Mark(b, color) ==
  CASE b = NL -> <<LineBreak>>
    [] b \in Printable -> <<[b |-> b, color |-> color]>>
    [] OTHER -> <<>>
Marked(bytes, color) == FlattenSeq([i \in DOMAIN bytes |-> Mark(bytes[i], color)])
Shown(l) == Marked(Append(l.args, NL), LevelColor[l.level])

\* Each line in the log has the text and the color of what was logged, without the
\* bytes that are no glyphs and with no trace of them, whatever was logged before it
\* and whatever the user made the kernel quote.
LogShowsWhatWasLogged ==
  Glyphs(log.buffer) =
    Append(FlattenSeq([i \in DOMAIN logged |-> Shown(logged[i])]), LineBreak)

\* However the log is scrolled while lines arrive, the panel shows as many lines
\* as it has room for.
ViewIsFull ==
  Len(LinesToRender(log)) = Smaller(Len(log.visual_lines), MaxVisibleLines(log))

\* The console shows the prompt and the input, or the placeholder when it is closed
\* and empty, and its cursor is before the character that would be typed over.
ConsoleShowsInput ==
  /\ Len(console.buffer) = 1
  /\ [i \in DOMAIN console.buffer[1] |-> console.buffer[1][i].b]
       = PROMPT \o (IF active \/ input # <<>> THEN input ELSE PLACEHOLDER_TEXT)
  /\ active => SubSeq(console.buffer[1], console.cursor_idx + 1, Len(console.buffer[1]))
                 = SubSeq(console.buffer[1], Len(PROMPT) + cursor_pos + 1,
                          Len(PROMPT) + Len(input))

\* A rendering draws one cursor, where the next character goes, if the console is
\* open and either the user types at the end of the line, however long and wrapped
\* it is, or all of the line is in view; a closed console has none.
CursorDrawnOnce ==
  /\ ~active => Cursors(console) = {}
  /\ active /\ \/ cursor_pos = Len(input)
               \/ Len(LinesToRender(console)) = Len(console.visual_lines)
       => \E n \in 1 .. MaxVisibleLines(console) :
            Cursors(console) = {<<n, Len(PROMPT) + cursor_pos>>}

\* Not checked: false for an input as long as MAX_INPUT_LEN allows.
CursorInView == active => Cursors(console) # {}

\* Whatever is typed, logged and scrolled, and however often it is drawn, the cache
\* of glyphs and its queue hold the same ones, and push_back_unchecked finds room
\* (text_box.rs:46); glyphs that were evicted are asked for again by the next frame.
CacheInStep ==
  InStep(Requested(EmptyCache, Pushed(log) \o Pushed(console) \o FrameGlyphs \o FrameGlyphs))

\* The console is a line editor.
Editor == INSTANCE LineEditor WITH
  before <- SubSeq(input, 1, cursor_pos),
  after <- SubSeq(input, cursor_pos + 1, Len(input)),
  open <- active,
  Characters <- Printable
ImplementsEditor == Editor!Spec
================================================================================
