-------------------------------- MODULE MCGame --------------------------------
(* A small world for Game, 2 x 2 cells and one deep, seen from (2.5, 0.5)     *)
(* looking left, and from below the left cell looking up to the right, a      *)
(* little into the depth; and a small framebuffer for Raster, whose pixels    *)
(* are two units wide.                                                        *)
EXTENDS Drawing

At(position, forward) == [position |-> position, forward |-> forward]

FromTheRight == At(<<10, 2, 2>>, <<-1, 0, 0>>)
SmallPoses == {FromTheRight, At(<<2, -2, 1>>, <<3, 4, 1>>)}

\* More rays, which TLC checks before it starts: from inside and outside, along
\* axes, diagonals and edges, against every world the walk finds the nearest block.
ASSUME RaysSeeNearest ==
  \A position \in {<<1, 2, 1>>, <<4, 4, 2>>, <<9, 5, 3>>, <<-2, -2, 2>>, <<3, 12, -4>>,
                   <<24, 3, 2>>} :
    \A forward \in (-2 .. 2) \X (-2 .. 2) \X {-1, 0, 3} :
      LET p == At(position, forward)
          cells == Traverse(p)
          Hit(w) == LET n == SelectInSeq(cells, LAMBDA c : c.block \in w)
                    IN IF n = 0 THEN None ELSE cells[n]
      IN p \in Pose => \A w \in SUBSET Blocks : IsNearest(p, w, Hit(w), None)

-----------------------------------------------------------------------------
At3(p, z) == <<p[1], p[2], z>>

\* Inside and outside of the framebuffer, on pixels' edges and centers.
Points == {<<-1, 0>>, <<1, 1>>, <<4, 1>>, <<7, 2>>, <<3, 5>>, <<5, 8>>, <<-3, 9>>, <<4, 4>>}
Triangles == {<<At3(p, 1), At3(q, 2), At3(r, 4)>> : p \in Points, q \in Points, r \in Points}
CrossingEachOther ==
  {<< <<-1, -1, 1>>, <<6, 0, 1>>, <<3, 7, 1>> >>, << <<0, 3, 2>>, <<7, 1, 2>>, <<5, 8, 1>> >>,
   << <<2, 2, 1>>, <<8, 2, 3>>, <<2, 8, 3>> >>, << <<8, 2, 1>>, <<8, 8, 3>>, <<2, 8, 2>> >>}
SmallMeshes ==
  {<<t>> : t \in Triangles}
    \cup {<<t, u, v>> : t \in CrossingEachOther, u \in CrossingEachOther, v \in CrossingEachOther}
SmallOutlines == ((-3 .. 9) \X {-3, 0, 5, 8}) \X ({-2, 1, 9} \X (-3 .. 9))
SmallClips == {FramebufferRect, Rect(1, 1, 3, 5), Rect(-2, 2, 9, 3), Rect(3, 3, 3, 3)}
SmallAreas ==
  {Rect(l, u, l + w, u + h) : l \in -1 .. 5, u \in -1 .. 4, w \in 0 .. 6, h \in 0 .. 5}
===============================================================================
