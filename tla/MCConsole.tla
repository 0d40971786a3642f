------------------------------ MODULE MCConsole ------------------------------
(* A console for Console whose panels are four glyphs wide; the log is two    *)
(* lines high.  Two letters can be typed, and one command is known.           *)
EXTENDS Console

Line(level, args) == [level |-> level, args |-> args]
Key(code, character) == [code |-> code, character |-> character]

SmallPrompt == <<">", " ">>
SmallPlaceholder == <<"P", "r", "e">>
SmallKeys ==
  {Key("T", "t"), Key("Spacebar", " "), Key("Tab", "TAB"), Key("F1", ""),
   Key("Oem8", "~"), Key("Return", NL), Key("Backspace", "BS"), Key("Escape", ESC),
   Key("ArrowUp", ""), Key("ArrowDown", ""), Key("ArrowLeft", ""), Key("ArrowRight", "")}
SmallReplies ==
  (<<"t">> :> <<Line("INFO", <<"A">>), Line("INFO", <<"w", "w", "w", NL, "DASH", "w">>)>>)
SmallUnknown(command) == Line("WARN", <<"?">> \o command)
SmallNotices == {Line("DEBUG", <<"f">>), Line("ERROR", [i \in 1 .. 10 |-> IF i = 3 THEN "DASH" ELSE "f"])}
===============================================================================
