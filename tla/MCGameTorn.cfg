CONSTANTS
  WORLD_X = 2
  WORLD_Y = 2
  WORLD_Z = 1
  UNIT = 4
  MAX_DISTANCE = 2
  FLOOR = 1
  HEADER = 1
  SECTOR = 3
  Poses <- SmallPoses
  FirstPose <- FromTheRight
  SaveLbas = {4}
  Commands = {"set-lba", "save", "load"}
  MaxSaves = 2
  Timeouts = FALSE
  WriteCache = FALSE
  WIDTH = 4
  HEIGHT = 4
  STRIDE = 5
  SUB = 2
  Meshes <- SmallMeshes
  Outlines <- SmallOutlines
  Areas <- SmallAreas
  Clips <- SmallClips
  None = None
SPECIFICATION Spec
PROPERTY LoadsOnlySavedGames
