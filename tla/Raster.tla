-------------------------------- MODULE Raster --------------------------------
(***************************************************************************)
(* Which pixels the renderer touches and what the depth buffer lets        *)
(* through (kernel-core/src/rendering/renderer.rs): filled rectangles, the *)
(* triangles of the world's mesh and the lines of a block's outline.       *)
(*                                                                         *)
(* Numbers are exact where the code has f32.  A vertex is <<x, y, z>> in   *)
(* units of 1/SUB of a pixel; a pixel is <<column, row>>; a depth is a     *)
(* rational, and nearer is larger, as in the code.  A pixel is one cell of *)
(* the buffer: its bytes and their order are left out.                     *)
(***************************************************************************)
EXTENDS Integers, Sequences, SequencesExt

CONSTANTS WIDTH, HEIGHT, STRIDE,  \* of the framebuffer, in pixels
          SUB                     \* units per pixel

ASSUME RasterAssumption ==
  /\ WIDTH \in Nat /\ HEIGHT \in Nat /\ STRIDE \in Nat /\ STRIDE >= WIDTH
  /\ SUB \in Nat \ {0} /\ SUB % 2 = 0

Lower(a, b) == IF a < b THEN a ELSE b
Higher(a, b) == IF a > b THEN a ELSE b

-----------------------------------------------------------------------------
(* Rectangles, as top_left and bottom_right.                               *)

Rect(left, top, right, bottom) ==
  [left |-> left, top |-> top, right |-> right, bottom |-> bottom]
FramebufferRect == Rect(0, 0, WIDTH, HEIGHT)

Rectangle ==
  {r \in [left : Int, top : Int, right : Int, bottom : Int] :
     r.left <= r.right /\ r.top <= r.bottom}

Pixels(r) == (r.left .. r.right - 1) \X (r.top .. r.bottom - 1)

\* Empty where the code has None.
Intersection(r, s) ==
  Rect(Higher(r.left, s.left), Higher(r.top, s.top), Lower(r.right, s.right), Lower(r.bottom, s.bottom))

Offset2d(p) == p[2] * STRIDE + p[1]

\* fill_solid: the cells it writes, row by row, unchecked.
fill_solid(r) ==
  LET area == Intersection(r, FramebufferRect)
      row_start(y) == y * STRIDE + area.left
  IN IF Pixels(area) = {} THEN {}
     ELSE UNION {row_start(y) .. row_start(y) + (area.right - area.left) - 1 :
                 y \in area.top .. area.bottom - 1}

-----------------------------------------------------------------------------
(* Triangles, clockwise on the screen.                                     *)

Vertex == [1 .. 3 -> Int]
Triangle == [1 .. 3 -> Vertex]

Center(p) == <<p[1] * SUB + SUB \div 2, p[2] * SUB + SUB \div 2>>

\* The cross product of an edge with the way from its start to a point.
Cross(e, q) ==
  (e[2][1] - e[1][1]) * (q[2] - e[1][2]) - (q[1] - e[1][1]) * (e[2][2] - e[1][2])

Edge(t, i) == <<t[(i % 3) + 1], t[((i + 1) % 3) + 1]>>  \* the edge across from vertex i
Area(t) == Cross(<<t[1], t[2]>>, t[3])

\* From the row of the highest point to that of the lowest.
Rows(t) ==
  LET ys == {t[i][2] : i \in 1 .. 3}
      first == CHOOSE y \in ys : \A z \in ys : y <= z
      last == CHOOSE y \in ys : \A z \in ys : y >= z
  IN first \div SUB .. -((-last) \div SUB) - 1

\* Where an edge, extended as far as that takes, crosses the height of the centers of
\* row y: a fraction, in units, with a positive denominator.
MeetsRow(e, y) ==
  LET dy == e[2][2] - e[1][2]
      n == e[1][1] * dy + (e[2][1] - e[1][1]) * ((y * SUB + SUB \div 2) - e[1][2])
  IN IF dy > 0 THEN <<n, dy>> ELSE <<-n, -dy>>

\* The crossing in pixels, less the half that a pixel's center is off.
InPixels(z) == <<2 * z[1] - SUB * z[2], 2 * SUB * z[2]>>
Floor(z) == z[1] \div z[2]
Ceiling(z) == -((-z[1]) \div z[2])

\* Mutant: the bound from the left is cut to a pixel as that from the right is.
LeftBoundCut(e, y, x) ==
  IF e[2][2] < e[1][2] THEN Higher(x, Floor(InPixels(MeetsRow(e, y)))) ELSE x

\* An edge that goes up bounds a row from the left, one that goes down from the right
\* and a level one not at all.  Rounding keeps the order, so each bound is rounded
\* before they are compared.
LeftBound(e, y, x) ==
  IF e[2][2] < e[1][2] THEN Higher(x, Ceiling(InPixels(MeetsRow(e, y)))) ELSE x
RightBound(e, y, x) ==
  IF e[2][2] > e[1][2] THEN Lower(x, Floor(InPixels(MeetsRow(e, y)))) ELSE x

xi_left(t, y) ==
  LeftBound(Edge(t, 3), y, LeftBound(Edge(t, 2), y, LeftBound(Edge(t, 1), y, 0)))
xi_right(t, y) ==
  RightBound(Edge(t, 3), y, RightBound(Edge(t, 2), y, RightBound(Edge(t, 1), y, WIDTH - 1)))

\* The pixels of fill_triangle, row by row.
TrianglePixels(t, clip) ==
  {p \in Pixels(Intersection(clip, FramebufferRect)) :
     Area(t) > 0 /\ p[2] \in Rows(t) /\ p[1] \in xi_left(t, p[2]) .. xi_right(t, p[2])}

\* The depth at a pixel's center, by barycentric coordinates.
DepthAt(t, p) ==
  <<Cross(Edge(t, 1), Center(p)) * t[1][3] + Cross(Edge(t, 2), Center(p)) * t[2][3]
      + Cross(Edge(t, 3), Center(p)) * t[3][3], Area(t)>>

Farther(z, w) == z[1] * w[2] < w[1] * z[2]

\* A frame is a depth and a color per pixel; clear_depth and clear_color.
Cleared(color) == [p \in Pixels(FramebufferRect) |-> [z |-> <<0, 1>>, color |-> color]]

\* Mutant: what is drawn last is in front.
FillTriangleOver(frame, t, color, clip) ==
  [p \in DOMAIN frame |->
     IF p \in TrianglePixels(t, clip) THEN [z |-> DepthAt(t, p), color |-> color]
     ELSE frame[p]]

FillTriangle(frame, t, color, clip) ==
  [p \in DOMAIN frame |->
     IF p \in TrianglePixels(t, clip) /\ Farther(frame[p].z, DepthAt(t, p))
     THEN [z |-> DepthAt(t, p), color |-> color]
     ELSE frame[p]]

\* The frames in which more and more of the triangles ts are drawn, each in a color
\* of its own.
Frames(ts, clip) ==
  LET frames[n \in 0 .. Len(ts)] ==
        IF n = 0 THEN Cleared(<<>>) ELSE FillTriangle(frames[n - 1], ts[n], ts[n], clip)
  IN frames

-----------------------------------------------------------------------------
(* Thin lines (Bresenham), between the pixels of two points.               *)

\* Two points on the screen.
Segment == [1 .. 2 -> [1 .. 2 -> Int]]

\* A cast of f32 to i32 cuts towards 0.
Cut(n) == IF n >= 0 THEN n \div SUB ELSE -((-n) \div SUB)
PixelOf(v) == <<Cut(v[1]), Cut(v[2])>>

Size(n) == IF n < 0 THEN -n ELSE n
Steps(p, q) == Higher(Size(q[1] - p[1]), Size(q[2] - p[2]))

\* One step of the loop of fill_line_thin, which may be across, down or both.
LineStep(p, q, s) ==
  LET dx == Size(q[1] - p[1])
      dy == Size(q[2] - p[2])
      across == 2 * s.err > -dy
      down == 2 * s.err < dx
  IN [x |-> IF ~across THEN s.x ELSE IF p[1] < q[1] THEN s.x + 1 ELSE s.x - 1,
      y |-> IF ~down THEN s.y ELSE IF p[2] < q[2] THEN s.y + 1 ELSE s.y - 1,
      err |-> s.err - (IF across THEN dy ELSE 0) + (IF down THEN dx ELSE 0)]

\* The loop, which ends at q only.
LineStates(p, q) ==
  LET at[n \in 0 .. Steps(p, q)] ==
        IF n = 0
        THEN [x |-> p[1], y |-> p[2], err |-> Size(q[1] - p[1]) - Size(q[2] - p[2])]
        ELSE LineStep(p, q, at[n - 1])
  IN at

LinePixel(p, q) ==
  LET at == LineStates(p, q) IN [n \in 0 .. Steps(p, q) |-> <<at[n].x, at[n].y>>]

-----------------------------------------------------------------------------
(* What these are to be.                                                   *)

FillsItsArea(r) ==
  fill_solid(r) = {Offset2d(p) : p \in Pixels(r) \cap Pixels(FramebufferRect)}

IsIn(t, p) == \A i \in 1 .. 3 : Cross(Edge(t, i), Center(p)) >= 0

\* A row whose centers are less than half a pixel beyond a level edge is drawn, too.
BesideLevelEdge(t, p) ==
  \E i \in 1 .. 3 :
    /\ Edge(t, i)[1][2] = Edge(t, i)[2][2]
    /\ 2 * Size(Edge(t, i)[1][2] - Center(p)[2]) < SUB

\* No gap inside the triangle, nothing outside it but beside a level edge.
CoversTriangle(t, clip) ==
  \A p \in Pixels(FramebufferRect) :
    LET drawn == p \in TrianglePixels(t, clip) IN
    /\ IsIn(t, p) /\ Area(t) > 0 /\ p \in Pixels(clip) => drawn
    /\ drawn => p \in Pixels(clip) /\ (IsIn(t, p) \/ BesideLevelEdge(t, p))

\* renderer.rs:348: the loop takes exactly that many steps, to neighbours only.
ReachesEnd(p, q) ==
  LET line == LinePixel(p, q) IN
  /\ \A n \in DOMAIN line : line[n] = q <=> n = Steps(p, q)
  /\ \A n \in DOMAIN line \ {0} : Steps(line[n - 1], line[n]) = 1

\* After triangles in any order, each pixel has the greatest depth of those that
\* cover it, and the color of one that has it.
NearestIsSeen(ts, clip) ==
  LET frame == Frames(ts, clip)[Len(ts)]
      over(p) == {t \in ToSet(ts) : p \in TrianglePixels(t, clip)
                                      /\ Farther(<<0, 1>>, DepthAt(t, p))}
  IN \A p \in DOMAIN frame :
       /\ \A t \in over(p) : ~Farther(frame[p].z, DepthAt(t, p))
       /\ IF over(p) = {} THEN frame[p].color = <<>>
          ELSE frame[p].color \in over(p) /\ frame[p].z = DepthAt(frame[p].color, p)
===============================================================================
