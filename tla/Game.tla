--------------------------------- MODULE Game ---------------------------------
(***************************************************************************)
(* The game state of the main loop (kernel/src/main.rs): the blocks of the *)
(* world, the mesh drawn for them, the camera, and the save file.  One     *)
(* frame takes the clicks, runs the console commands typed since the last  *)
(* frame, finds the targeted block, breaks and places, and draws.          *)
(*                                                                         *)
(* The save file is two sectors of a SectorStore, the specification that   *)
(* both drivers implement: once one of its calls has timed out, it reports *)
(* saves that are not on the disk and reads what is not there.  Power may  *)
(* fail at any step, between the two sectors as well; no driver ever has   *)
(* the disk write back its cache, so it may lose sectors it had taken.     *)
(***************************************************************************)
EXTENDS VoxelTraverser

CONSTANTS FLOOR,          \* layers of the first world (4)
          HEADER, SECTOR, \* bytes of the save header and of a sector (32, 512)
          Poses,          \* camera positions and directions
          FirstPose,      \* that of Camera::default
          SaveLbas,       \* where the player saves
          Commands,       \* subset of {"set-lba", "save", "load"}
          MaxSaves,       \* bound: saves the player makes
          Timeouts,       \* TRUE if a call to the store may time out
          WriteCache,     \* TRUE if the disk may lose sectors it has taken
          None

\* A save file has its two sectors to itself.
ASSUME GameAssumption ==
  /\ FLOOR \in Nat /\ HEADER \in Nat /\ SECTOR \in Nat /\ MaxSaves \in Nat
  /\ Poses \subseteq Pose /\ FirstPose \in Poses
  /\ SaveLbas \subseteq Nat
  /\ \A l, m \in SaveLbas : m # l + 1

\* None is no cell of a ray: Rust's Option tells them apart.
ASSUME NoneAssumption == None \notin [block : Blocks, face : Face]

\* The cells the view ray of each pose crosses, each with the face it enters by.
Ray == [p \in Poses |-> Traverse(p)]

VARIABLES
  pc,                \* step of the frame
  world, mesh,       \* WORLD and the mesh built from it
  camera, save_lba,
  clicks, target,    \* clicks of this frame; targeted_block
  disk, req, ret,    \* the sector store
  late,              \* one of its calls has timed out since boot
  saves,             \* history: per address, the games the player saved
  durable            \* history: per address, the game whose save has been
                     \* reported, and neither overwritten nor lost since

storeVars == <<disk, req, ret, late>>
history == <<saves, durable>>
vars == <<pc, world, mesh, camera, save_lba, clicks, target, storeVars, history>>

-----------------------------------------------------------------------------
(* game/world.rs                                                           *)

\* get_world_mesh: the faces that border on air, one quad each.
Mesh(w) == {q \in w \X Face : Neighbor(q[1], q[2]) \notin w}

FirstWorld == {b \in Blocks : b[2] < FLOOR}

\* Mutant: the first cell of the ray is passed over.
LookingAtSkip(p, w) ==
  LET hits == {i \in 2 .. Len(Ray[p]) : Ray[p][i].block \in w} IN
  IF hits = {} THEN None
  ELSE Ray[p][CHOOSE i \in hits : \A j \in hits : i <= j]

\* looking_at_solid_block: the first solid block of the ray.
LookingAt(p, w) ==
  LET hits == {i \in DOMAIN Ray[p] : Ray[p][i].block \in w} IN
  IF hits = {} THEN None
  ELSE Ray[p][CHOOSE i \in hits : \A j \in hits : i <= j]

-----------------------------------------------------------------------------
(* game/save.rs.  A sector is what deserialize tells of it: whether it      *)
(* starts with the magic and this version, the camera, and the blocks whose *)
(* byte is not zero.                                                       *)

Index(b) == (b[1] * WORLD_Y + b[2]) * WORLD_Z + b[3]
FirstBlocks == {b \in Blocks : HEADER + Index(b) < SECTOR}

Sector(valid, cam, blocks) == [valid |-> valid, camera |-> cam, blocks |-> blocks]
Blank == Sector(FALSE, None, {})

Serialize(w, cam) ==
  <<Sector(TRUE, cam, w \cap FirstBlocks), Sector(FALSE, None, w \ FirstBlocks)>>

Valid(buf) == buf[1].valid
\* Mutant: the blocks of the second sector are left out.
DeserializedHalf(buf) == <<buf[1].blocks, buf[1].camera>>
Deserialized(buf) == <<buf[1].blocks \cup buf[2].blocks, buf[1].camera>>

\* Every sector that was ever on the disk or in a bounce frame: frames start as
\* zeroes, and are filled from the disk and by saves only.
Known ==
  {Blank} \cup UNION {UNION {ToSet(Serialize(g[1], g[2])) : g \in ToSet(saves[l])} :
                     l \in SaveLbas}

Store == INSTANCE SectorStore WITH
  Lbas <- SaveLbas \cup {l + 1 : l \in SaveLbas},
  Data <- {},  \* only in its Init and Next, which Game replaces
  MaxCount <- 8,
  Requests <- {}  \* only in its Next, which Game replaces

Save(lba) ==
  [op |-> "write", lba |-> lba, count |-> 2, data |-> Serialize(world, camera)]
Load(lba) == [op |-> "read", lba |-> lba, count |-> 2, data |-> <<None, None>>]

-----------------------------------------------------------------------------
Init ==
  /\ pc = "frame"
  /\ world = FirstWorld /\ mesh = Mesh(FirstWorld)
  /\ camera = FirstPose
  /\ save_lba = None /\ clicks = {} /\ target = None
  /\ req = None /\ ret = None /\ late = FALSE
  /\ disk = [l \in SaveLbas \cup {l + 1 : l \in SaveLbas} |-> Blank]
  /\ saves = [l \in SaveLbas |-> <<>>]
  /\ durable = [l \in SaveLbas |-> None]

\* pop_delta turns the camera, pop_clicks takes the clicks of the frame.
Mouse ==
  /\ pc = "frame"
  /\ camera' \in Poses
  /\ clicks' \in SUBSET {"left", "right"}
  /\ pc' = "events"
  /\ UNCHANGED <<world, mesh, save_lba, target, storeVars, history>>

\* One console command; without an address save and load only say so.
SetLba(l) ==
  /\ pc = "events" /\ "set-lba" \in Commands
  /\ save_lba' = l
  /\ UNCHANGED <<pc, world, mesh, camera, clicks, target, storeVars, history>>

StartSave ==
  /\ pc = "events" /\ "save" \in Commands
  /\ save_lba # None
  /\ Len(saves[save_lba]) < MaxSaves
  /\ Store!Call(Save(save_lba))
  /\ pc' = "save"
  /\ saves' = [saves EXCEPT ![save_lba] = Append(@, <<world, camera>>)]
  /\ durable' = [durable EXCEPT ![save_lba] = None]
  /\ UNCHANGED <<world, mesh, camera, save_lba, clicks, target>>

StartLoad ==
  /\ pc = "events" /\ "load" \in Commands
  /\ save_lba # None
  /\ Store!Call(Load(save_lba))
  /\ pc' = "load"
  /\ UNCHANGED <<world, mesh, camera, save_lba, clicks, target, history>>

\* The driver works on the call, or on those before it that timed out.
Storage ==
  /\ \/ Store!Persist \/ Store!ReturnOk \/ Store!ReturnErr
     \/ \E s \in DOMAIN disk, d \in Known : Store!LatePersist(s, d)
     \/ \E data \in Known \X Known : Store!LateOk(data)
  /\ late' => Timeouts
  /\ durable' = IF late' THEN [l \in SaveLbas |-> None] ELSE durable
  /\ UNCHANGED <<pc, world, mesh, camera, save_lba, clicks, target, saves>>

FinishSave ==
  /\ pc = "save" /\ ret # None
  /\ durable' = IF ret.status = "Ok" /\ ~late
                THEN [durable EXCEPT ![save_lba] = Last(saves[save_lba])]
                ELSE durable
  /\ ret' = None
  /\ pc' = "events"
  /\ UNCHANGED <<world, mesh, camera, save_lba, clicks, target, disk, req, late, saves>>

\* Mutant: the mesh is not rebuilt.
FinishLoadOldMesh ==
  /\ pc = "load" /\ ret # None
  /\ IF ret.status = "Ok" /\ Valid(ret.data)
     THEN LET game == Deserialized(ret.data) IN world' = game[1] /\ camera' = game[2]
     ELSE UNCHANGED <<world, camera>>
  /\ ret' = None
  /\ pc' = "events"
  /\ UNCHANGED <<mesh, save_lba, clicks, target, disk, req, late, history>>

\* The read may fail, and what it returns may not be a save file of this version.
FinishLoad ==
  /\ pc = "load" /\ ret # None
  /\ IF ret.status = "Ok" /\ Valid(ret.data)
     THEN LET game == Deserialized(ret.data) IN
          world' = game[1] /\ camera' = game[2] /\ mesh' = Mesh(game[1])
     ELSE UNCHANGED <<world, camera, mesh>>
  /\ ret' = None
  /\ pc' = "events"
  /\ UNCHANGED <<save_lba, clicks, target, disk, req, late, history>>

\* The keys move the camera (unless the console is open), then the targeted
\* block is looked up.
MoveAndAim ==
  /\ pc = "events"
  /\ camera' \in Poses
  /\ target' = LookingAt(camera', world)
  /\ pc' = "break"
  /\ UNCHANGED <<world, mesh, save_lba, clicks, storeVars, history>>

Break ==
  /\ pc = "break"
  /\ IF "left" \in clicks /\ target # None
     THEN world' = world \ {target.block} /\ mesh' = Mesh(world')
     ELSE UNCHANGED <<world, mesh>>
  /\ pc' = "place"
  /\ UNCHANGED <<camera, save_lba, clicks, target, storeVars, history>>

\* Mutant: the face is not looked at.
OnTopOf(t) == Neighbor(t.block, "TOP")
InFrontOf(t) == Neighbor(t.block, t.face)

InBounds(b) == b \in Blocks

\* target is still the one of before Break.
Place ==
  /\ pc = "place"
  /\ IF "right" \in clicks /\ target # None
        /\ InBounds(InFrontOf(target))
     THEN world' = world \cup {InFrontOf(target)} /\ mesh' = Mesh(world')
     ELSE UNCHANGED <<world, mesh>>
  /\ pc' = "render"
  /\ UNCHANGED <<camera, save_lba, clicks, target, storeVars, history>>

Render ==
  /\ pc = "render"
  /\ pc' = "frame"
  /\ target' = None /\ clicks' = {}
  /\ UNCHANGED <<world, mesh, camera, save_lba, storeVars, history>>

\* Shutdown, power failure or panic: only the disk survives.
PowerOff ==
  /\ pc' = "off"
  /\ world' = FirstWorld /\ mesh' = Mesh(FirstWorld) /\ camera' = FirstPose
  /\ save_lba' = None /\ clicks' = {} /\ target' = None
  /\ req' = None /\ ret' = None /\ late' = FALSE
  /\ UNCHANGED <<disk, history>>

\* A sector that the disk had taken and not written yet is an older one again.
LoseCached(s, older) ==
  /\ pc = "off" /\ WriteCache
  /\ disk' = [disk EXCEPT ![s] = older]
  /\ durable' = [l \in SaveLbas |-> IF s \in {l, l + 1} THEN None ELSE durable[l]]
  /\ UNCHANGED <<pc, world, mesh, camera, save_lba, clicks, target, req, ret, late, saves>>

Boot ==
  /\ pc = "off"
  /\ pc' = "frame"
  /\ UNCHANGED <<world, mesh, camera, save_lba, clicks, target, storeVars, history>>

Next ==
  \/ Mouse
  \/ \E l \in SaveLbas : SetLba(l)
  \/ StartSave \/ StartLoad
  \/ Storage
  \/ FinishSave \/ FinishLoad
  \/ MoveAndAim \/ Break \/ Place \/ Render
  \/ PowerOff \/ Boot
  \/ \E s \in DOMAIN disk, older \in Known : LoseCached(s, older)

Spec == Init /\ [][Next]_vars

-----------------------------------------------------------------------------
(* Properties.                                                             *)

\* What is drawn is the world: whatever broke, placed or loaded blocks has
\* rebuilt the mesh, a face bordering on air for each visible side of a block.
MeshShowsWorld == pc = "render" => mesh = Mesh(world)

\* The targeted block is what the player sees: a solid block within reach that the
\* view ray meets through that face, with none nearer, and none is targeted only if
\* none is there.
TargetIsNearest == pc = "break" => IsNearest(camera, world, target, None)

\* A block is placed in the cell the view ray crossed just before it met the
\* targeted block, unless the camera is inside that block: never out of sight
\* behind it, and never in a cell that was solid when the player aimed.
PlacesWhereLooked ==
  [][pc = "place" /\ pc' = "render" /\ target # None /\ target # Ray[camera][1] =>
       \A b \in world' \ world :
         \E i \in 2 .. Len(Ray[camera]) :
           Ray[camera][i] = target /\ b = Ray[camera][i - 1].block]_vars

Loads == pc = "load" /\ pc' = "events" /\ ret.status = "Ok"

\* A game whose save was reported ("World saved", main.rs:253) is what the next load
\* from that address brings back, blocks and camera: through calls that fail and saves
\* elsewhere, and across power cycles at any moment that lose none of its sectors.  It
\* holds as long as no storage call times out; a call that does ends it for the saves
\* before, and for all until the next boot (durable, which is cleared then).
LoadRestoresLastSave ==
  [][Loads /\ durable[save_lba] # None =>
       <<world', camera'>> = durable[save_lba]]_vars

\* A load that is accepted ("World loaded") brings back a game the player saved
\* at that address, never parts of two, with storage that neither times out nor loses
\* what it has taken.
LoadsOnlySavedGames ==
  [][Loads /\ <<world', camera'>> # <<world, camera>> =>
       \E i \in DOMAIN saves[save_lba] : <<world', camera'>> = saves[save_lba][i]]_vars
===============================================================================
