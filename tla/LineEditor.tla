------------------------------ MODULE LineEditor ------------------------------
(***************************************************************************)
(* What the console promises its user: a line of at most MAX_INPUT_LEN     *)
(* characters, edited at a cursor between what is before and what is after *)
(* it.  Closing it keeps the line; opening it puts the cursor at its end.  *)
(***************************************************************************)
EXTENDS Naturals, Sequences, SequencesExt

CONSTANTS Characters, MAX_INPUT_LEN

VARIABLES before, after, open

line == before \o after
vars == <<before, after, open>>

Init == before = <<>> /\ after = <<>> /\ open = FALSE

Open ==
  /\ ~open /\ open' = TRUE
  /\ before' = line /\ after' = <<>>

Close == open /\ open' = FALSE /\ UNCHANGED <<before, after>>

Insert(ch) ==
  /\ open /\ Len(line) < MAX_INPUT_LEN
  /\ before' = Append(before, ch)
  /\ UNCHANGED <<after, open>>

Backspace ==
  /\ open /\ before # <<>>
  /\ before' = Front(before)
  /\ UNCHANGED <<after, open>>

Left ==
  /\ open /\ before # <<>>
  /\ before' = Front(before) /\ after' = <<Last(before)>> \o after
  /\ UNCHANGED open

Right ==
  /\ open /\ after # <<>>
  /\ before' = Append(before, Head(after)) /\ after' = Tail(after)
  /\ UNCHANGED open

Submit ==
  /\ open /\ open' = FALSE
  /\ before' = <<>> /\ after' = <<>>

Next ==
  \/ Open \/ Close \/ Backspace \/ Left \/ Right \/ Submit
  \/ \E ch \in Characters : Insert(ch)

Spec == Init /\ [][Next]_vars
===============================================================================
