---------------------------- MODULE VoxelTraverser ----------------------------
(***************************************************************************)
(* The walk of a view ray through the cells of the world                   *)
(* (VoxelTraverser of kernel-core/src/game/camera.rs): the first cell by   *)
(* the slab method, then from cell to neighbouring cell (Amanatides and    *)
(* Woo) until the ray leaves the world or is longer than max_distance.     *)
(*                                                                         *)
(* Numbers are exact: a position is an integer vector in units of 1/UNIT   *)
(* of a block, a direction an integer vector f that is not normalised, and *)
(* a point of the ray is position + f * s for a rational s, so that its    *)
(* distance is s * |f|.  The code takes off the way to the first cell from *)
(* t and from max_distance; here both are kept from the camera.            *)
(***************************************************************************)
EXTENDS Integers, Sequences, SequencesExt

CONSTANTS WORLD_X, WORLD_Y, WORLD_Z,  \* blocks per axis (8, 8, 8)
          UNIT,         \* positions per block and axis
          MAX_DISTANCE  \* how far the player reaches (5 blocks)

Dim == <<WORLD_X, WORLD_Y, WORLD_Z>>
Cells(n) == 0 .. n - 1
Blocks == Cells(WORLD_X) \X Cells(WORLD_Y) \X Cells(WORLD_Z)

Offset ==
  [FRONT |-> <<0, 0, 1>>, BACK |-> <<0, 0, -1>>, TOP |-> <<0, 1, 0>>,
   BOTTOM |-> <<0, -1, 0>>, LEFT |-> <<-1, 0, 0>>, RIGHT |-> <<1, 0, 0>>]
Face == DOMAIN Offset

\* The cell next to a block.  Outside the world it is none of Blocks; the code's
\* wrapping_add_signed turns -1 into the largest usize, which is outside as well.
Neighbor(b, face) == [i \in 1 .. 3 |-> b[i] + Offset[face][i]]

\* A ray along a coordinate plane of the world's border has no entry in floating
\* point (0 times infinity); the poses leave it out.
Pose ==
  {p \in [position : Seq(Int), forward : Seq(Int)] :
     /\ Len(p.position) = 3 /\ Len(p.forward) = 3
     /\ \E i \in 1 .. 3 : p.forward[i] # 0
     /\ \A i \in 1 .. 3 :
          p.forward[i] = 0 => p.position[i] \notin {0, UNIT * Dim[i]}}

ASSUME WorldAssumption ==
  /\ WORLD_X \in Nat \ {0} /\ WORLD_Y \in Nat \ {0} /\ WORLD_Z \in Nat \ {0}
  /\ UNIT \in Nat \ {0} /\ MAX_DISTANCE \in Nat

-----------------------------------------------------------------------------
(* Rationals <<numerator, denominator>>; a denominator of 0 is infinity.   *)

Infinity == <<1, 0>>
MinusInfinity == <<-1, 0>>
Quotient(n, d) == IF d < 0 THEN <<-n, -d>> ELSE <<n, d>>
Less(x, y) ==
  \/ x[1] * y[2] < y[1] * x[2]
  \/ x[2] = 0 /\ y[2] = 0 /\ x[1] < y[1]
Least(x, y) == IF Less(y, x) THEN y ELSE x
Greatest(x, y) == IF Less(x, y) THEN y ELSE x

Square(v) == v[1] * v[1] + v[2] * v[2] + v[3] * v[3]

\* The point at s, s >= 0, is more than MAX_DISTANCE from the camera.
TooFar(s, f) ==
  \/ s[2] = 0
  \/ s[1] * s[1] * Square(f) > MAX_DISTANCE * MAX_DISTANCE * s[2] * s[2]

-----------------------------------------------------------------------------
(* Where the ray is in lo <= x[i] <= hi (block coordinates).  An axis the  *)
(* ray does not move along divides by zero: all of the ray or none of it.  *)

Crossing(p, i, plane) ==
  Quotient(UNIT * plane - p.position[i], UNIT * p.forward[i])

Enter(p, i, lo, hi) ==
  IF p.forward[i] # 0
  THEN Least(Crossing(p, i, lo), Crossing(p, i, hi))
  ELSE IF p.position[i] \in UNIT * lo .. UNIT * hi THEN MinusInfinity ELSE Infinity
Exit(p, i, lo, hi) ==
  IF p.forward[i] # 0
  THEN Greatest(Crossing(p, i, lo), Crossing(p, i, hi))
  ELSE Infinity

-----------------------------------------------------------------------------
(* The traverser.                                                          *)

\* The face by which the ray enters a cell along axis i.
FaceOf(p, i) ==
  IF p.forward[i] < 0
  THEN <<"RIGHT", "TOP", "FRONT">>[i]
  ELSE <<"LEFT", "BOTTOM", "BACK">>[i]

\* First of the axes the ray enters the world along last, and that point, or the
\* camera if it is in the world.
EntryAxis(p) ==
  LET in == [i \in 1 .. 3 |-> Enter(p, i, 0, Dim[i])]
      axis == IF Less(in[1], in[2]) THEN 2 ELSE 1
  IN IF Less(in[axis], in[3]) THEN 3 ELSE axis
Close(p) ==
  LET i == EntryAxis(p) IN Greatest(<<0, 1>>, Enter(p, i, 0, Dim[i]))
Far(p) ==
  LET out == [i \in 1 .. 3 |-> Exit(p, i, 0, Dim[i])] IN
  Least(out[1], Least(out[2], out[3]))

\* The cell of the point at s, in the world at its border.
CellAt(p, s) ==
  [i \in 1 .. 3 |->
     LET floor == (p.position[i] * s[2] + UNIT * p.forward[i] * s[1])
                    \div (UNIT * s[2])
     IN IF floor < 0 THEN 0 ELSE IF floor >= Dim[i] THEN Dim[i] - 1 ELSE floor]

Sign(x) == IF x < 0 THEN -1 ELSE 1

\* The next plane the ray crosses along each axis, from cell b on.
NextCrossing(p, b, i) ==
  IF p.forward[i] = 0 THEN Infinity
  ELSE Crossing(p, i, IF p.forward[i] < 0 THEN b[i] ELSE b[i] + 1)

\* The axis whose plane is nearest; of equals the later one.
NextAxis(t) ==
  IF Less(t[1], t[2])
  THEN IF Less(t[1], t[3]) THEN 1 ELSE 3
  ELSE IF Less(t[2], t[3]) THEN 2 ELSE 3

\* One call of next() in Active; once done the iterator stays Empty.
Advance(p, state) ==
  LET axis == NextAxis(state.t)
      b == [state.block EXCEPT ![axis] = @ + Sign(p.forward[axis])]
  IN IF state.done THEN state
     ELSE IF TooFar(state.t[axis], p.forward) \/ b \notin Blocks
     THEN [state EXCEPT !.done = TRUE]
     ELSE [block |-> b, done |-> FALSE,
           t |-> [state.t EXCEPT ![axis] = NextCrossing(p, b, axis)],
           cells |-> Append(state.cells, [block |-> b, face |-> FaceOf(p, axis)])]

\* The state after the first call: in the cell where the ray enters the world.
Active(p) ==
  LET b == CellAt(p, Close(p)) IN
  [block |-> b, done |-> FALSE,
   t |-> [i \in 1 .. 3 |-> NextCrossing(p, b, i)],
   cells |-> <<[block |-> b, face |-> FaceOf(p, EntryAxis(p))]>>]

\* The states after more calls.  A ray crosses fewer cells than the sum of the
\* dimensions.
MaxCalls == WORLD_X + WORLD_Y + WORLD_Z
Walk(p) ==
  LET walk[n \in 0 .. MaxCalls] ==
        IF n = 0 THEN Active(p) ELSE Advance(p, walk[n - 1])
  IN walk

\* The cells and faces the iterator yields, in order.
Traverse(p) ==
  IF Less(Far(p), Close(p)) \/ TooFar(Close(p), p.forward)
  THEN <<>>
  ELSE Walk(p)[MaxCalls].cells

-----------------------------------------------------------------------------
(* What the walk is for, said block by block and without walking.          *)

BlockEnter(p, b) ==
  LET in == [i \in 1 .. 3 |-> Enter(p, i, b[i], b[i] + 1)] IN
  Greatest(<<0, 1>>, Greatest(in[1], Greatest(in[2], in[3])))
BlockExit(p, b) ==
  LET out == [i \in 1 .. 3 |-> Exit(p, i, b[i], b[i] + 1)] IN
  Least(out[1], Least(out[2], out[3]))

Touches(p, b) == ~Less(BlockExit(p, b), BlockEnter(p, b))
Passes(p, b) ==
  /\ Less(BlockEnter(p, b), BlockExit(p, b))
  /\ \A i \in 1 .. 3 : p.forward[i] = 0 => p.position[i] # UNIT * b[i]
                                        /\ p.position[i] # UNIT * (b[i] + 1)
InReach(p, b) == ~TooFar(BlockEnter(p, b), p.forward)

\* hit (a block and a face, or none) is what a player at p sees of the blocks w.
IsNearest(p, w, hit, none) ==
  IF hit = none
  THEN \A b \in w : Passes(p, b) => ~InReach(p, b)
  ELSE /\ hit.block \in w
       /\ Touches(p, hit.block) /\ InReach(p, hit.block)
       /\ \A b \in w :
            Passes(p, b) => ~Less(BlockEnter(p, b), BlockEnter(p, hit.block))
       /\ Less(<<0, 1>>, BlockEnter(p, hit.block)) =>
            \E i \in 1 .. 3 :
              /\ hit.face = FaceOf(p, i)
              /\ ~Less(Enter(p, i, hit.block[i], hit.block[i] + 1),
                       BlockEnter(p, hit.block))
===============================================================================
