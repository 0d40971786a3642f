# minecraft-os: specifications, model checks and proofs

minecraft-os is a bare-metal x86-64 kernel in Rust that is a small block game: it boots, sets up
its devices and stays in one main loop that reads keyboard and mouse, runs console commands, edits
an 8 x 8 x 8 world and draws it. This directory holds TLA+ modules translated from the Rust source
(paths are relative to the repository: `kernel/src`, `kernel-core/src`), the TLC configurations that
check them on small instances, and proofs about them for the TLA+ proof system. `PROJECT.json` maps
each definition to the lines it stands for and lists the runs, hazards, findings and theorems.

## The system

There is one CPU and one thread. What makes the kernel hard all the same: the interrupt handlers
of keyboard and mouse, which share spin locks with the main loop; exception and panic handlers,
which run on top of anything, with the locks it held; devices that read and write memory by
themselves, may answer late, or may be missing or broken when the kernel boots; and a disk that
survives while everything else is lost.

| Component | State | Operations | Talks to | Must hold |
|---|---|---|---|---|
| Storage (`storage.rs`) | which backend was found at boot | `init`, `read_sectors`, `write_sectors` | called by the main loop; calls NVMe or AHCI | the disk that is there is found; a synchronous sector store |
| NVMe (`nvme/`) | submission and completion ring, phase, CID counter, bounce frame; at boot the admin queue | `init`, the two calls, `submit`, `poll`, `wait` | controller through memory and doorbells | own completion for each call; DMA in bounds; each call returns; a driver or none after `init` |
| AHCI (`ahci/`) | slot 0, its table, bounce frame, port registers | `init`, `stop_port`, `start_port`, the two calls, `setup_command`, `issue_command` | HBA through memory and registers | the same; a port's memory is moved only when it is idle |
| PS/2 input (`ps2/keyboard.rs`, `ps2/mouse.rs`, `interrupts.rs`) | key states, event ring, packet decoder, buttons, motion | two handlers; pops by the main loop | 8042, PIC; shared locks | packets stay aligned; no key sticks; no motion, event or click lost or invented; no handler meets a held lock |
| PS/2 initialisation (`ps2/mod.rs`) | configuration byte, channels, mouse type | `init`, polled | 8042 and both devices | answers are told from input; ports and devices are left working; it ends, or says why not |
| Game (`main.rs`, `game/`) | world, mesh, camera, save address, clicks, target | steps of a frame; `set-lba`, `save`, `load` | PS/2, Storage, renderer | mesh shows world; the nearest block is targeted; saved games come back |
| View ray (`game/camera.rs`) | traverser | `next` | Game | visits the cells the ray crosses, nearest first |
| Console (`console.rs`, `main.rs`) | input, cursor, active, visible, text box | key dispatch, editing, submit | Game, log | cursor in the line; the box shows the line |
| Text box (`text_box.rs`) | parser, lines, layout, scroll offset; cache of glyphs and its queue | `push_byte`, `set_text`, `scroll`, `render`, `get_raster` | Console, Logger | layout is the wrapped text; the view is full; cache and queue hold the same glyphs |
| Logger (`logger.rs`, `rendering.rs`) | text box, `needs_flush`, visible; renderer lock | `log`, `flush`, `render` | everything, in any context | what is not owed is shown; panics are shown |
| Exceptions, panic (`interrupts.rs`, `main.rs`) | none | handlers | Logger | the message is shown, then halt |
| Memory (`memory.rs`, `allocator.rs`) | next frame, heap, byte counter | frames, DMA frames, `init_heap` | drivers, everything that allocates | no frame used twice |
| PCI (`pci.rs`) | list of functions found | `scan_all`, `find_by_class`, `read_bar_address`, `enable_bus_mastering` | configuration space; the disk drivers | every function is found; a wide address is whole |
| Renderer (`rendering/renderer.rs`) | color and depth buffer | rectangles, triangles, lines | Game, text boxes | pixels are where the shape is; the nearest is seen |
| Kernel entry (`main.rs`) | none | `kernel_main` up to the main loop | all of the above, in order | boot ends, with what is there working |
| Timer (`timer.rs`) | tick counter | `tick`, `sleep` | main loop | a frame is not shorter than its interval |
| Others | | ACPI, screen, GDT, serial, host tools | | |

Calls are synchronous. Shared state is guarded by spin locks: the world, the renderer, the text
box of the log, keyboard and mouse (these two taken with interrupts disabled by the main loop), and
the heap. There are no other threads, so a lock that is held by interrupted code is held for ever.

## Modules

The modules are written so that they can be proved about: parameters are CONSTANTS with named
assumptions, each operation is an action, no operator is RECURSIVE. Small variants of a definition
marked *Mutant* stand before it; each seeds one plausible bug, and every checked property is broken
by at least one of them (`PROJECT.json`, "mutants").

**SectorStore** is the abstract specification of `storage.rs`: a caller has one call at a time;
sectors of a write become persistent one by one and in any order (`Persist`); the call then returns
Ok with all of them on the disk or with the data read, or an error with any part of them moved. That
ends with the first Timeout (`late`), since neither driver takes its command back: from then on a
sector may change between calls (`LatePersist`) and a call may be answered in place of an earlier
one (`LateOk`).

**Nvme** is the I/O queue pair. `Call`, `Reject`, `Submit`, `Complete` and `Timeout` are the driver
(`nvme/mod.rs`, `nvme/queue.rs`): one state change each, from the entry of `read_sectors` or
`write_sectors` to its result. `Fetch`, `Transfer`, `Post` and `PostError` are the controller, which
is external: it fetches up to the tail doorbell, moves sectors in any order, and posts completions
under its phase bit in any order. The 500 million polls of `wait` end by their count whatever the
controller does: `Timeout` is possible as long as there is no completion. Addresses are sector
offsets into the one bounce frame. A command carries `Nlb`, the count less one as a u16. A call for
no sectors passes the size test, and the length then wraps to the largest there is, or the kernel
panics (`Panic`), which depends on the build: the model lets either happen.

**Ahci** is the same for slot 0 of an AHCI port: `ZeroTable`, `CopyFis` and `SetPrdt` fill the slot,
`Issue` waits for the port and sets the bit in PxCI, `Complete` and `Timeout` end the two waits; the
HBA is external. It reads FIS and PRDT entry one after the other (`FetchFis`, `FetchPrdt`), and
finds any mixture of old and new in the one that the driver is changing (`TornFis`, `TornPrdt`): the
driver refills the slot before it knows that the port is idle. An error halts
the HBA with the bit set, and since the driver does not restart it each later call has to end by
itself. The command FIS carries 48 bits of the address (`LBA_LIMIT`), and the model cuts it as the
code does; a count of 0 stands for `COUNT_LIMIT` sectors there, of which the largest PRDT entry has
room for `PRDT_LIMIT`.

**Ps2Input** interleaves a user, the devices with the one output buffer of the 8042, the PIC, the
two handlers in steps (read of the status and the byte; use of it; end of interrupt) and the main
loop (`PopDelta`, `PopClicks`, `PopEvents`, each a critical section without interrupts). A key event carries the number of its press (`serial`) and a packet the sum of all movement up to it
(`total`), histories that tell lost from invented. The sums of movement are integers below
`MOTION_LIMIT`, as i16 are; one that overflows wraps, or panics with the handler's interrupts off
(`Halted`), which again depends on the build. Boot leaves
both requests latched, since `ps2::init` polls with them unmasked: they are served first, and
`EarlyInput` says whether a device may send before they are.

**VoxelTraverser** is the ray walk of `camera.rs` as operators: slab entry, first cell, axis choice,
end by distance or at the border. f32 becomes exact rationals (a denominator of 0 is the infinity
that the reciprocal of a zero component yields), directions need no normalisation, and distances
are compared by their squares. What rounding does to a tie is not modelled. `IsNearest` says, block
by block and without walking, what the walk is for.

**Game** is one frame of the main loop in its order: mouse, console commands, movement and targeted
block, break, place, draw. It extends VoxelTraverser, keeps the mesh as the set of drawn faces, and
uses SectorStore for its disk, so that what the NVMe proofs establish is what Game builds on. A save
file is two sectors, of which the first alone has magic, version and camera. `PowerOff` may strike
at every step, also between the two sectors, and since no driver flushes the disk's cache, sectors
that it had taken may then be older ones again (`LoseCached`). `durable` is what has been reported as
saved and has not met with a timeout, a loss or a new save since. A pose is a position and a direction; there are few of
them, and mouse and movement reach any of them.

**TextBox** models the text box as a record with an operator per method: the parser of text and
color commands, the incremental wrapping, scrolling, and which lines and cursor a rendering draws.
Bytes that are no ASCII (`Dropped`), such as those of the dash in the kernel's help, are dropped by
`PushText` as in the code. `IsWrapped` is the reference for the layout. **Console** drives two of them, the console's and the
log's, with one action per way the main loop treats a key event. **LineEditor** is what the console
promises: a line in two halves with a cursor between them. What writes strings and lines one after
the other (`WriteStr`, `LogLines`, `Requested`) is a recursive function, so that it can be proved
about.

**Logger** has a main thread and a handler context on top of it. Both run the steps of `log` and
`flush`; the main thread also renders frames, scrolls and changes visibility; an exception or panic
may be raised at each step. Text, staging buffer and framebuffer are version numbers: what matters
is whether the screen shows the newest line.

**Memory** is the frame allocator as the code has it, an index into an iterator over the usable
frames of the memory map that is only ever raised, with the history of what each frame was handed
out for; `HeapUsers` are the frames of `init_heap`, some of which (`TABLE_FRAMES`) the mapper takes
for page tables in between.
**Pci** is the scan and what the drivers ask of its result, over an external configuration space.
A base address is put together from one or two double words of `WORD` values. `SoundSpace` is what
any configuration space is like; `Decodes` is where a function has its memory, for comparison.

**NvmeInit** and **AhciInit** are the two `init_inner`, one action per step between which a device
can do something: `Disable`, `Ready`, `Submit`, `Answered` and so on, with each early return as an
action of its own (`NotFound`, `Refused`, `RunOut`, `OutOfFrames`, `GiveUp`). Their devices may be
slow, mute or broken (`Kinds`, `PortKinds`) and may still be running on what firmware gave them.
AhciInit loops over the ports, and on a failure goes on to the next one with a new frame, as the
code does. `NvmeReady` and `AhciReady` say what a driver that exists has been left with; this is the
state in which Nvme and Ahci begin.

**Ps2Init** is `ps2::init`: commands, answers in the one output buffer, reads that time out and
reads that do not. The exchanges with keyboard and mouse are two scripts (`KbdScript`,
`MouseScript`) of commands and the number of bytes read for each. Whether there is an 8042 at all
(without one, `init` logs a warning and goes on with ports that read as ones or zeros), what the devices are, what the
firmware has enabled, stale bytes and bytes that come unasked are external. The `mouse_type` it
finds is what makes `BYTES_NEEDED` of Ps2Input 3 or 4.

**Boot** composes these five: it extends Memory and Pci, instances the other three over them, and
runs them in the order of `kernel_main`: heap, PCI, AHCI, NVMe, the choice of the backend, PS/2. A
machine is what boot finds: `SoundMap`, `SoundSpace` and `SoundStorage` say what can be assumed of
it, the last that it has one disk controller of a class at most, since the drivers ask for no other,
with its registers in memory space. The controllers take their steps at any time, so a driver that reads too
early or leaves a device running is seen.

**GlyphCache** is `get_raster` with its two statics as a record. **Raster** is what the renderer
does to pixels: `fill_solid` with its unchecked writes, `fill_triangle` row by row, from the rounded
crossing of its left edges (`LeftBound`) to that of its right ones (`RightBound`), with clip and depth
test, and the loop of `fill_line_thin`. f32 becomes exact numbers: a vertex has coordinates in units of a
fraction of a pixel and a depth is a rational. Both have constant definitions only. Properties
about them are checked in the runs of the parts that draw: the cache by what Console's two text boxes
ask of it in each state (`Pushed`, `FrameGlyphs`), the renderer when Game draws a frame, by the
triangles, lines and areas that **Drawing** has as constants, since the projection is not modelled.
Drawing is Game with Raster: what is to be on the screen when a frame is drawn.

MC modules (`MCNvme`, `MCAhci`, `MCPs2Input`, `MCGame`, `MCLogger`, `MCConsole`, `MCBoot`) give the
constants their values and add no behaviour. MCGame also lists the shapes for Drawing, MCBoot
the machines.

How the modules fit: Boot leaves Nvme and Ahci where they begin; these implement SectorStore; Game
calls SectorStore; Game extends VoxelTraverser; Console extends TextBox and GlyphCache and implements LineEditor;
Ps2Input, set up by Boot, delivers the events that Console consumes and the clicks and motion that
Game consumes; Logger refines, for its locks and its screen, the log that Console treats as always
free.

## Runs

| Run | What it shows | Bounds, and why they suffice |
|---|---|---|
| `nvme` | a synchronous store and own completions until a call times out; after that still the phase test, one completion owed per timeout, DMA in bounds | rings of 3, 2 CIDs, 2 sectors, bounce of 2: several wraps of ring, CIDs and phase; failing commands; calls too large for frame or buffer and one for no sectors, at lengths below 4; 2 timeouts, after which the ring of 3 is full and no call is made |
| `nvme_saved` | violation: Ok for a write that is not on the disk | 2 timeouts at most, 2-sector writes |
| `ahci` | a store until a wait runs out; DMA in bounds after that, but for slots read half filled; calls return | 3 timeouts, errors, addresses at the 48-bit limit (4 here), counts below 4 with 0 among them, a largest PRDT entry of 3 |
| `ps2_input` | all of the input properties with every interleaving | packets of 3 bytes, 2 packets that move by -1 or 2, sums below 3 so that two packets overflow, 5 key actions, event ring of 2 so that it overflows |
| `ps2_clicks` | violation: a click is lost | a press and one more packet |
| `ps2_early` | violation: a mouse byte becomes a key event | a byte sent before the stale IRQ 1 is served |
| `game` | mesh, targeting, placing, save and load; pixels of rectangles, triangles and lines, and the depth test | 2 x 2 x 1 world with a save split between blocks, one pose to its right and one below it, 2 saves, calls that time out, a disk that loses what it has cached; before it starts TLC checks up to 450 more rays against all worlds (`RaysSeeNearest` in MCGame). Framebuffer of 4 x 4 pixels in rows of 5, vertices on half pixels: all rectangles that reach one pixel beyond it, 512 triangles (with degenerate and counterclockwise ones) under 4 clips, lines in all directions, all triples of 4 triangles that cross each other |
| `game_torn` | violation: parts of two games are loaded | the same, without timeouts and with a disk that keeps what it takes |
| `logger` | nothing owed is shown, panics outside the locks are shown, lines are shown in the end | 4 lines or scrolls, 3 exceptions at any steps |
| `logger_panic` | violation: a panic over the renderer's lock is not shown | the same |
| `console` | line editor, wrapping, colors, view and cursor; cache of glyphs in step with its queue | 4 glyphs per line, inputs up to 3 after a prompt of 2, so that the console wraps as it does with 95 glyphs a line and 98 to show; log of 2 visible lines and 3 logged, replies and notices with a byte that is dropped. Cache of 3 for 11 glyphs, so that what is in view is evicted and drawn again |
| `boot` | no frame given twice; the disk that is there is found and its driver is ready; PS/2 answers in step, ports and devices configured; ports moved only when idle; boot ends | 819 machines: a good one, and those with one part that is not, in all combinations of that part (258 PS/2 wirings, two of them without an 8042, with and without stale bytes and talking devices; NVMe kinds x firmware x kinds of 2 AHCI ports; places and absence of the PCI functions; 2 to 13 usable frames, so that memory runs out at every allocation). 1 bus, 2 devices, 3 functions; double words of 64 values, with the NVMe registers above them; 2 bytes unasked |

Deadlock is checked except where the system may stop. In `logger` and `logger_panic` a kernel that
has halted does, and so does one whose interrupted code holds a lock its handler needs for a frame.
Boot stops where the main loop begins, in a panic, or in a read that waits for a byte which never
comes (see below). `nvme`, `nvme_saved` and `ahci` stop in a panic, or when their bound on timeouts
is reached and the device has nothing left to do.

Only Nvme's type invariant is a property of a run, as the base of the proofs; the other modules
spend their properties on what several steps or several parts can break. Their types are part of the
invariants that the proof modules define and prove.

### Findings

The five violations are disagreements of the code with what it says of itself; `PROJECT.json`
quotes both sides.

1. `nvme_saved`: after one timeout a call is answered by the completion of an earlier one, because
   completions are not compared with the CID that was submitted.
2. `ps2_clicks`: a press followed by any further packet in the same frame is no edge when
   `pop_clicks` looks.
3. `ps2_early`: the keyboard handler takes a mouse byte when a request left over from boot is
   served after the mouse has sent.
4. `game_torn`: nothing ties the second sector of a save to the first.
5. `logger_panic`: `flush` gives up on a locked renderer when interrupts are enabled, which they are
   in a panic of the main loop.

Beside these, `CursorInView` in Console is false: a long input wraps and the one line the console
shows is the last, because `line_end` takes the left padding off twice and `min_dimensions` does not.

Boot has two exceptions built into its liveness property. With the keyboard or the mouse missing, one
byte that comes unasked or late puts the answers out of step, and then `init_keyboard`
(`ps2/mod.rs:323`) or `log_ack` (`mod.rs:282`, which waits at 207-208) reads a byte that nobody
sends, without a bound: the kernel does not come up. Nor does it on a machine without an 8042, of
which `init` only warns (`mod.rs:440-443`): with a status of all ones it waits for ever to send the
first command (204), with all zeros for the configuration byte (208). `BootEnds` says where it is
stuck then, and that it ends on all the other machines of the run; devices that answer but never stop
sending, or an 8042 that stops working, are not among them. Also,
a second PS/2 port is found only if firmware has left its interrupt enabled (`mod.rs:477-478`);
`DevicesReady` promises a mouse only then.

### Fairness

Safety runs use no fairness. Where something must happen eventually:

- Ahci: weak fairness of the driver, whose waits end by their count. None for the HBA, which may stop
  at any step, and none for callers.
- Ps2Input: weak fairness of the devices, which send what they have, and of the main loop, which
  never blocks; strong fairness of the handlers, since an interrupt is enabled only between the
  critical sections of the main loop, again and again. None for the user.
- Boot: weak fairness of the kernel, whose bounded polls end by their count, of each disk controller
  and of each PS/2 device, which send what they were asked for. None for bytes that come unasked.
- Logger: weak fairness of what a context has begun (logging, a frame, a handler); strong fairness
  of enabling interrupts and of starting a frame, since the main loop comes round to both again and
  again but may log or scroll in between. None for lines, exceptions or visibility.

## Proofs

Eight modules of proofs, one for each part or group of parts. Each theorem is about every value of
the constants: rings, panels, worlds, memory maps, sets of calls, keys and machines of any size,
and any number of timeouts, power failures, exceptions and lines. The assumptions are those the
modules state by name (`RingAssumption`, `MemoryAssumption`, `ConsoleAssumption` and so on), which
TLC evaluates in the runs. Nearly always the property is not inductive; the invariant that is, named
below, says what has to be true in between.

**NvmeProofs**, for every ring size of at least 2, any number of CIDs, any sectors, contents and
calls, those for no sectors included (of a call that passes the size test, the sectors are on the
disk):

- `TypeCorrect`, by induction alone.
- `PhaseCorrect`: the test on the phase bit is right for ever. `PhaseInv` adds that the completion
  ring is split at the controller's slot, entries before it carry the controller's phase and the
  rest the other, and that the driver's head is on the side its own phase says.
- `DmaSafe`: no command moves sectors out of bounds, timed out or not, except by the wrapped length
  of a call for no sectors. `DmaInv` extends the claim to the commands still in the submission ring,
  stale slots included (`SafeCommand`).
- `Conservation`: one completion owed per timeout and waiting call, when `MaxTimeouts < QUEUE_SIZE`,
  no call being made once that many have timed out; with more, `submit` lets the tail run into the
  head. It rests on `PhaseInv` (a completion is taken only when there is one) and on lemmas about
  distances in a ring.
- `OwnAnswers`, until a call has timed out: a call takes its own completion. The number of timeouts
  is not bounded here, and what is proved is about the steps while there has been none
  (`TimeoutsGrow`: there is no way back). Conservation then leaves at most one command in one of
  three places (`OneOutstanding`); `ServeInv` says that it is the current call's and which of its
  sectors have been moved.
- `StoreRefinement`: the driver implements SectorStore, at every step (`IsSectorStore`). Before the
  first timeout this follows from `ServeInv` (`CompleteRefines`, `TransferRefines`, `StepRefines`).
  After it the steps are those of SectorStore's late phase (`LateCompleteRefines`,
  `LateTransferRefines`), which promise little: any sector may still change, one at a
  time, and an Ok may be the answer to another call. That it promises no more is no weakness of the
  proof: `nvme_saved` is the counterexample to more. Nothing is claimed of what happens during a call
  for no sectors.

**AhciProofs**: `DmaStaysInBounds`, except for what was built for no sectors and what the HBA reads
of a slot while the driver refills it, which it can only do once a wait has run out. `QuietInv` is
the reason for the second: until then the slot of an idle HBA is filled. `SlotInv` says what each
part of the slot holds at each step of filling it, and `ActiveInv` that what the HBA has read outside
a refill is whole, though FIS and PRDT may be of two calls. `StoreRefinement` is as for NVMe: by
`ServeInv`, which follows the sectors of the one command and errors that halt the HBA, until a wait
has run out, and by the late steps of SectorStore after that. The hypothesis `WholeAddresses` says
that addresses fit the 48 bits of a command; the code cuts larger ones off, and then another sector
is moved.

**Ps2InputProofs**: `HandlersNeverSpin` (`NoSelfDeadlock`) for all behaviours, by `LockInv`. The four
others (`MouseInStep`, `NoKeyStuck`, `PressesReachTheLoop`, `MotionReachesTheCamera`) have the
hypothesis `~EarlyInput`: no device sends before the requests left over from boot are served. It is
needed, `ps2_early` is what happens without. Under it a latched request stands for the byte in the
8042 (`RequestInv`), so that a handler reads its own device; `KeysInv` then says of the bytes about
keys, wherever they are, that they are numbered without a gap after the newest in the ring, and
`PacketsInv` that packets are in order and whole, each with the total of all movement so far, and
that what the handler has summed is the difference of two totals until an i16 overflows, whatever
`MOTION_LIMIT` is: motion is conserved up to then, and nothing is claimed after it.

**GameProofs**: `MeshCurrent`; `LastSaveRestored`, by the invariant that what has been reported as
saved is what its two sectors hold, that a call in progress is the main loop's and what it has
returned is still true of the disk (`CallInv`, `DurableInv`), with power failing between any two
steps and taking cached sectors with it. It is about games that are still `durable`, and it says what
ends that: a timeout, after which the storage promises too little (`LateInv`; `LateStep` is all that
is shown then), or the loss of a sector; `PlacedWhereLooked`, for every ray and world, by induction on the walk: each cell is entered
by its face from the one before it (`WalkStates`, `AdvanceOK`, `RayIsConnected`).
`NearestTargeted` shows that the first solid block of the walk is the nearest the ray passes, for
worlds of any size, any distance of sight and every ray that does not run in a plane of the world's
border (there the code multiplies 0 by infinity; `Pose` leaves it out), with level rays and cameras
outside the world included. Distances are fractions of the reach or one of two infinities, all in one total order
(`Ordered`; `TooFarther`: what is beyond a point out of reach is out of reach). The rest goes one
axis at a time, since no prover here finds products of four unknowns:
- along an axis a ray crosses the planes one after the other, and which it has crossed at a point
  follows from its coordinate there (`CrossedInOrder`, `CrossedBefore`), so the cells of an axis come
  in order (`CellsInOrder`), and a block the ray passes that is not beyond a cell along any axis has
  been left before that cell is entered (`PassedBefore`);
- the first cell is where the ray enters the world or the camera stands (`WorldPoints`, `EntryCell`);
- `WalkSees` is the invariant of the walk: `t` holds the exits of the current cell, the cells visited
  are touched, in reach, entered by their face and in order, and every block passed and not visited
  is beyond the current cell along some axis, and out of reach once the walk is done. A step goes
  through the nearest exit (`NearestPlane`, `StepForward`, `StillBeyond`; `ActiveSees`, `AdvanceSees`);
- `WalkEnds` counts the cells ahead: `MaxCalls` calls of `next` are enough (`AdvanceEnds`), and then
  the ray has every block it passes (`RayMeetsAll`), the first of them first (`LookingAtNearest`).

It assumes that `None` is no cell, as Rust's `Option` does, and is about exact numbers: what rounding
in f32 does to a ray along an edge is left out of the model.

The renderer is there, too, for any framebuffer and all shapes with coordinates in fractions of a
pixel. `FilledExactly` counts the cells row by row. `LineReachesEnd` is the argument for Bresenham's
loop: after n steps along the longer side, the steps along the shorter one are as near to the line
as they can be (`Near`, `MinorStep`), so that both sides are used up together (`NearEnd`).
`TriangleCovered` first has to get from the scanline to the shape: the ceiling or floor of an edge's
crossing is on one side of a pixel's center exactly if that edge's cross product has the right sign
(`BoundIsEdge`), so a row is filled between its edges (`RowIsBetweenEdges`). It then takes the three
cross products as weights: they add up to the area, and weighted
with them the heights of the corners, seen from the pixel, add up to 0 (`Corners`), so a pixel
inside has corners above and below and its row is drawn (`RowsAre`); a level edge that a pixel is beyond is the
first or last height. `DepthTestDecides` goes triangle by triangle (`OneMore`) and needs that
comparing by products is a strict order on rationals (`FartherThanBoth`). `ShapesCovered` and
`NearestShown` state both of Drawing, in each state since they are facts about the shapes.

**LoggerProofs**: `NothingOwed` and `PanicShown`, for any interleaving of main thread, exceptions and
panic. `LockInv` says by the steps of both contexts who holds which lock, `HandlerInv` where a
handler may be, `DrawnInv` what version text, staging buffer and screen have when a flush is owed or
under way, `MessageInv` that the handler's line stays the last one.

**BootProofs**: `FramesHandedOutOnce`, for any memory map of whole and disjoint usable regions
(`SoundMap`; `UsableStep` and `FramesOfMap` show that the iterator then yields each frame once);
`BackendIsReady`, with `NvmeInv` and `AhciInv`, which say at each step of the two `init_inner` what
device and driver have agreed on so far, for every kind and timing of devices; `PortsMovedWhenIdle`, for ports that stop while they are polled.
`DiskIsFound` follows boot from the scan to the choice of the backend, on PCI of any size. That the
list has every function there is, each with its own registers, is proved of the scan's two nested
concatenations (`FlattenedSeqs`, `DeviceScanned`, `AllScanned`), and kept while the drivers set
bus-master bits (`SpaceInv`, `Enabled`); the driver then reads the address that the function decodes
(`ReadsAddress`). `NvmeFound` says which kinds of controller can be at which step, so that a good one
is never given up; `AhciFound` that no good port has been passed by; `StageInv` how far each part is
at each stage of `kernel_main`, and that frames have run out when it panicked. The heap has at least
two pages (8192 in the code), so what a driver cannot get is less than what the heap took.

**Ps2InitProofs**: `ConfiguredInTheEnd` for all machines and all noise, by `PortInv` step by step.
`BytesAnswer` and `DevicesInUse` are about a calm machine (nothing unasked, no poll that ends too
early), as the properties are: `AnswerInv` says that the bytes to come are the answer to the last
command or the rest of it, `UseInv` that the devices dealt with are talking. The scripts of both
devices are looked through command by command (`KbdScripts`, `MouseScripts`).

**ConsoleProofs**: everything the run checks of Console.

- `ConsoleInvariant` is the base. `Laid` says of a text box that its visual lines are its logical
  lines wrapped (`IsWrapped`) and that the next glyph goes where the last of them ends; of the
  console it adds what it shows and where its cursor is, of the log that its parser is between
  commands, with color and command buffer reset, and that its glyphs are those of all that was
  logged.
- `WrappedText`: the step is one glyph (`GlyphPushed`): laid out at the end of the last visual line,
  or on a new one, the text is what cutting the whole logical line anew would give (`CutGrows`,
  `CutOnce`, `Fit`). Strings follow byte by byte (`StringWritten`).
- `LogIsShown`: a line leaves the parser as it found it, so lines and colors do not mix
  (`LineHeld`, `LinesHeld`), and it shows the bytes that have a glyph: those that are dropped leave
  nothing behind (`Mark`, `Shown`, `MarkedMore`). It needs that logged text has no control bytes but
  line ends, which `ConsoleAssumption` says of notices and replies and the proof shows of what the
  user types; any other byte will do.
- `FullView`, `InputIsShown` and `CursorIsDrawn` follow from the invariant.
- `CacheStaysInStep`: for a cache of any size, one request keeps cache and queue in step
  (`OneRequested`), so do all sequences of requests (`KeptInStep`), and what is drawn is one of them.
- `EditorRefinement`: the console implements LineEditor. What insertion, removal and the arrows do to
  the line is taken apart into what it does before and after the cursor (`TypedAt`, `RemovedAt`,
  `MovedOver`), step by step (`StepRefines`).

What a recursive function computes is proved by a lemma of its own: `Induction` (a set with 0 and
each successor holds every number, from the well-foundedness of <) takes a set and not an operator,
so it can be instantiated; lemmas such as `WalkStates`, `Written`, `LinesLogged`, `AllRequested` and
`Flattened` use it to show that a recursive definition has the value its equations say.

### Only model-checked

- Liveness (`EveryCallReturns` of Ahci, `EverythingServed`, `EventuallyShown`, `BootEnds`): temporal
  induction over fairness, and ENABLED, are out of the prover's reach. That a call to the NVMe driver
  returns is no property: its one wait ends by its count, and there is nothing else in the way.

Every other property of a passing run is stated by a theorem. The runs that expect a violation show
states the code can reach, and need no proof.

## Not modelled

Modules were written in order of what is most at stake: what reaches the disk (SectorStore, Nvme),
what is lost between an interrupt and the main loop (Ps2Input), the game and its save file (Game),
the log of last resort (Logger), the second driver (Ahci), targeting and the console
(VoxelTraverser, TextBox, LineEditor, Console), then everything that runs before the main loop
(Memory, Pci, NvmeInit, AhciInit, Ps2Init, Boot) and what draws (GlyphCache, Raster). No module is
missing from the plan. What is left out, and why:

- Timer: a counter and a sleep that waits for it. The frame cap only changes how often a frame is
  begun, and every module leaves that free.
- Screen: the floating-point projection, which has no state beyond the frame. What becomes of the
  triangles is in Raster. Coordinates are exact and unbounded where the code has i32; rounding in f32 is left out everywhere.
- Logger: the locks of glyph cache, serial port and heap, which a line takes on the same path. An
  exception or panic that strikes under one of them never gets its message out, as with the two locks
  that are modelled.
- Disk caches: neither driver sends Flush. Nvme and Ahci write to the disk at once, and Game, where
  power fails, lets it lose what it had cached (`LoseCached`).
- Renderer: the bytes of a pixel, the thick anti-aliased lines of the crosshair, and
  `fill_contiguous`, which has no caller.
- Memory: the heap's own allocator (an external crate), the counter of its bytes, and unaligned
  regions of the memory map. A fault inside the allocator would be that crate's.
- PCI: status bits that are cleared by writing them back (the double word of the command register
  has them in its upper half, `pci.rs:110`), and FR, the acknowledgement of FRE, in AHCI.
- Mouse: movement along y, whose sums are kept as those along x are, and `MouseType::Unknown`, with
  which the handler drops each byte (`mouse.rs:173`). Scancode decoding and ACPI tables are in
  external crates; GDT and serial port are a static table and output without a protocol.
- The host tools, which build an image and start QEMU.
