-------------------------------- MODULE TextBox --------------------------------
(***************************************************************************)
(* The text box of kernel-core/src/rendering/text_box.rs: a parser that    *)
(* takes text byte by byte, with commands for the text color; the wrapping *)
(* of logical lines into visual lines; scrolling; and which lines and      *)
(* cursor a rendering shows.                                               *)
(*                                                                         *)
(* A text box is a record.  The font is monospaced (assets/ascii.ttf), so  *)
(* each glyph advances by ADVANCE; letter and line spacing are 0 and the   *)
(* paddings equal, as every text box of the kernel has them.  "FG#rrggbb"  *)
(* is one byte here, a member of Colors; the pixels of glyphs are left     *)
(* out, and their cache is in GlyphCache.                                  *)
(***************************************************************************)
EXTENDS Integers, Sequences, SequencesExt

CONSTANTS PADDING, ADVANCE, LINE_HEIGHT,  \* pixels (10, 8, 17)
          Printable,  \* bytes that become glyphs, the leader "~" among them
          Colors

\* Bytes with a meaning for the parser.
ESC == "ESC"
LEADER == "~"
BEL == "BEL"
NL == "NL"

ASSUME TextBoxAssumption ==
  /\ PADDING \in Nat /\ ADVANCE \in Nat \ {0} /\ LINE_HEIGHT \in Nat \ {0}
  /\ {ESC, BEL, NL} \cap (Printable \cup Colors) = {} /\ Printable \cap Colors = {}
  /\ "WHITE" \in Colors

\* reset_content keeps only the bounding box.
Reset(tb) ==
  [size |-> tb.size,
   buffer |-> << <<>> >>,
   visual_lines |-> <<[line_idx |-> 1, start |-> 0, end |-> 0]>>,
   scroll_offset |-> 0, cursor_x |-> PADDING, cursor_idx |-> -1,
   state |-> "Text", color_text |-> "WHITE", cmd_buffer |-> <<>>]

New(width, height) == Reset([size |-> [x |-> width, y |-> height]])

MaxVisibleLines(tb) == (tb.size.y - 2 * PADDING) \div LINE_HEIGHT

MinDimensions(num_chars, num_lines) ==
  [x |-> 2 * PADDING + num_chars * ADVANCE,
   y |-> 2 * PADDING + num_lines * LINE_HEIGHT]

-----------------------------------------------------------------------------
(* Pushing bytes.                                                          *)

LastLine(tb) == Len(tb.buffer)
LineEnd(tb) == tb.size.x - 2 * PADDING

\* Mutant: the glyph that did not fit is not counted in the new line.
LayoutUncounted(tb) ==
  LET x == tb.cursor_x + ADVANCE
      line == Len(tb.visual_lines)
      i == Len(Last(tb.buffer)) - 1
  IN IF x > LineEnd(tb)
     THEN [tb EXCEPT
             !.visual_lines = Append([@ EXCEPT ![line].end = i],
                                [line_idx |-> LastLine(tb), start |-> i, end |-> i + 1]),
             !.cursor_x = PADDING]
     ELSE [tb EXCEPT !.visual_lines[line].end = @ + 1, !.cursor_x = x]

\* update_last_line_layout: the pushed glyph, number i of its line, goes to the end
\* of the last visual line or, if it does not fit there, to a new one.
Layout(tb) ==
  LET x == tb.cursor_x + ADVANCE
      line == Len(tb.visual_lines)
      i == Len(Last(tb.buffer)) - 1
  IN IF x > LineEnd(tb)
     THEN [tb EXCEPT
             !.visual_lines = Append([@ EXCEPT ![line].end = i],
                                [line_idx |-> LastLine(tb), start |-> i, end |-> i + 1]),
             !.cursor_x = PADDING + ADVANCE]
     ELSE [tb EXCEPT !.visual_lines[line].end = @ + 1, !.cursor_x = x]

PushText(tb, b) ==
  IF b \in Printable
  THEN Layout([tb EXCEPT !.buffer[LastLine(tb)] =
                 Append(@, [b |-> b, color |-> tb.color_text])])
  ELSE tb

NewLogicalLine(tb) ==
  [tb EXCEPT
     !.buffer = Append(@, <<>>),
     !.visual_lines = Append(@, [line_idx |-> LastLine(tb) + 1, start |-> 0, end |-> 0]),
     !.cursor_x = PADDING]

TextByte(tb, b) ==
  CASE b = ESC -> [tb EXCEPT !.state = "Escape"]
    [] b = NL -> NewLogicalLine(tb)
    [] OTHER -> PushText(tb, b)

\* Any command but a color is skipped.
\* Mutant: the next command is added to this one.
ExecCmdKeep(tb) ==
  [tb EXCEPT !.color_text = IF tb.cmd_buffer \in {<<c>> : c \in Colors}
                            THEN Head(tb.cmd_buffer) ELSE @]
ExecCmd(tb) ==
  [tb EXCEPT !.color_text = IF tb.cmd_buffer \in {<<c>> : c \in Colors}
                            THEN Head(tb.cmd_buffer) ELSE @,
             !.cmd_buffer = <<>>]

PushByte(tb, b) ==
  CASE tb.state = "Text" -> TextByte(tb, b)
    [] tb.state = "Escape" ->
         IF b = LEADER THEN [tb EXCEPT !.state = "Command"]
         ELSE TextByte([tb EXCEPT !.state = "Text"], b)
    [] tb.state = "Command" ->
         IF b = BEL THEN ExecCmd([tb EXCEPT !.state = "Text"])
         ELSE [tb EXCEPT !.cmd_buffer = Append(@, b)]

WriteStr(tb, bytes) ==
  LET after[n \in 0 .. Len(bytes)] ==
        IF n = 0 THEN tb ELSE PushByte(after[n - 1], bytes[n])
  IN after[Len(bytes)]
SetText(tb, bytes) == WriteStr(Reset(tb), bytes)
SetCursorIndex(tb, idx) == [tb EXCEPT !.cursor_idx = idx]

Fg(color) == <<ESC, LEADER, color, BEL>>

-----------------------------------------------------------------------------
(* Scrolling and rendering.                                                *)

Larger(a, b) == IF a > b THEN a ELSE b
Smaller(a, b) == IF a < b THEN a ELSE b

\* Mutant: up to the first line at the bottom of the view.
MaxScrollOffsetAll(tb) == Len(tb.visual_lines)
MaxScrollOffset(tb) == Larger(0, Len(tb.visual_lines) - MaxVisibleLines(tb))

Scroll(tb, delta) ==
  [tb EXCEPT !.scroll_offset =
     IF delta < 0 THEN Larger(0, @ + delta) ELSE Smaller(@ + delta, MaxScrollOffset(tb))]

\* The visual lines a rendering draws, the last one lowest.
LinesToRender(tb) ==
  LET end == Len(tb.visual_lines) - tb.scroll_offset
      start == Larger(0, end - MaxVisibleLines(tb))
  IN SubSeq(tb.visual_lines, start + 1, end)

Bytes(glyphs) == [i \in DOMAIN glyphs |-> glyphs[i].b]

\* The glyphs whose bitmaps are asked for: each one when it is laid out, and those
\* in view when the text box is drawn, the lowest line first.
Pushed(tb) == Bytes(FlattenSeq(tb.buffer))
Drawn(tb) ==
  LET lines == Reverse(LinesToRender(tb)) IN
  Bytes(FlattenSeq([n \in DOMAIN lines |->
    SubSeq(tb.buffer[lines[n].line_idx], lines[n].start + 1, lines[n].end)]))

TotalGlyphs(tb) == Len(FlattenSeq(tb.buffer))

\* Mutant: no cursor behind the last glyph.
CursorBeforeGlyphs(tb, line) == {x \in line.start .. line.end - 1 : tb.cursor_idx = x}

\* The cursor is drawn before its glyph, or behind the last glyph of all.
CursorAt(tb, line) ==
  {x \in line.start .. line.end - 1 : tb.cursor_idx = x} \cup
  {x \in {line.end} : tb.cursor_idx = TotalGlyphs(tb) /\ x = TotalGlyphs(tb)}

\* Where a rendering draws the cursor: visual line and number of the glyph.
Cursors(tb) ==
  UNION {{<<n, x>> : x \in CursorAt(tb, LinesToRender(tb)[n])} :
         n \in DOMAIN LinesToRender(tb)}

-----------------------------------------------------------------------------
(* What the layout is to be: each logical line cut into visual lines of as  *)
(* many glyphs as fit, an empty one for an empty line.                      *)

PerLine(tb) == (LineEnd(tb) - PADDING) \div ADVANCE

Cut(tb, n) ==
  LET len == Len(tb.buffer[n])
      k == PerLine(tb)
  IN [i \in 1 .. Larger(1, (len + k - 1) \div k) |->
        [line_idx |-> n, start |-> (i - 1) * k, end |-> Smaller(i * k, len)]]

IsWrapped(tb) ==
  tb.visual_lines = FlattenSeq([n \in DOMAIN tb.buffer |-> Cut(tb, n)])
================================================================================
