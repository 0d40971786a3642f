-------------------------------- MODULE Drawing --------------------------------
(***************************************************************************)
(* Game draws its frames with Raster (kernel/src/main.rs:359-372).  The    *)
(* projection from the world to the screen is not modelled, so the shapes  *)
(* that the mesh and the outline of the target become are constants.       *)
(***************************************************************************)
EXTENDS Game, Raster

CONSTANTS Meshes,    \* sequences of triangles on the screen, as a mesh is drawn
          Outlines,  \* pairs of points on the screen, as an outline is drawn
          Areas,     \* rectangles that are filled
          Clips      \* rectangles that triangles are clipped to

ASSUME DrawingAssumption ==
  /\ \A ts \in Meshes : ts \in Seq(Triangle)
  /\ \A line \in Outlines : line \in Segment
  /\ Areas \subseteq Rectangle /\ Clips \subseteq Rectangle

Drawn == UNION {ToSet(ts) : ts \in Meshes}

TrianglesCovered == \A t \in Drawn, clip \in Clips : CoversTriangle(t, clip)
LinesEnd == \A line \in Outlines : ReachesEnd(PixelOf(line[1]), PixelOf(line[2]))
AreasFilled == \A r \in Areas : FillsItsArea(r)
NearestSeen == \A ts \in Meshes, clip \in Clips : NearestIsSeen(ts, clip)

\* When a frame is drawn (main.rs:359-372), pixels are where the shape is
\* (renderer.rs): the triangles of the mesh leave no gap and stay inside their clip;
\* the loop of fill_line_thin, which only ends at the last point, gets there from
\* neighbour to neighbour for the outline of the targeted block; fill_solid writes
\* the cells of its area and no others, though it does not check one.
CoverageExact ==
  pc = "render" =>
    /\ mesh # {} => TrianglesCovered
    /\ target # None => LinesEnd
    /\ AreasFilled

\* Whatever the order in which the faces of the mesh are drawn, also those that cross
\* each other, a pixel shows one that is nearest there (renderer.rs:464).
DepthDecides == pc = "render" /\ mesh # {} => NearestSeen
===============================================================================
