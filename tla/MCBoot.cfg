SPECIFICATION FairSpec
CONSTANTS
  PAGE = 2
  HEAP_PAGES = 2
  TABLE_FRAMES = {2, 4}
  BUSES = 1
  DEVICES = 2
  FUNCTIONS = 3
  WORD = 64
  NVME_REGS = 160
  AHCI_REGS = 16
  Ports = 2
  FRAMES = 14
  MaxStrays = 2
  None = None
  FIRMWARE = FIRMWARE
  Machines <- MCMachines
CHECK_DEADLOCK FALSE
INVARIANTS
  FramesExclusive
  BackendFound
  BackendReady
  AnswersInStep
  PortsConfigured
  DevicesReady
PROPERTIES
  MovedWhenIdle
  BootEnds
