-------------------------------- MODULE Memory --------------------------------
(***************************************************************************)
(* Physical memory: the frame allocator over the bootloader's memory map   *)
(* (kernel/src/memory.rs) and the mapping of the heap (allocator.rs).  A    *)
(* frame is named by its place in an iterator over the usable frames, and  *)
(* nothing is ever given back.                                             *)
(*                                                                         *)
(* Addresses are counted in units of which PAGE make a frame; the memory   *)
(* map and the page tables the mapper still lacks are external.            *)
(***************************************************************************)
EXTENDS Naturals, Sequences, SequencesExt

CONSTANTS PAGE,        \* units of a frame (4096 bytes in the code)
          HEAP_PAGES   \* pages of the heap (8192 in the code)

ASSUME MemoryAssumption == PAGE \in Nat \ {0} /\ HEAP_PAGES \in Nat

VARIABLES
  memory_map,  \* regions [kind, start, end], as the bootloader found them
  next,        \* BootInfoFrameAllocator::next
  granted      \* history: per frame handed out, what for, in order

memVars == <<memory_map, next, granted>>

\* The frames of a region, one for each step of PAGE from its start.
FramesOf(r) ==
  [i \in 1 .. (r.end - r.start + PAGE - 1) \div PAGE |->
     (r.start + (i - 1) * PAGE) \div PAGE]

IsUsable(r) == r.kind = "usable"

\* A memory map as bootloaders give it: usable regions of whole frames, which do not
\* overlap (external).
SoundMap(map) ==
  /\ map \in Seq([kind : STRING, start : Nat, end : Nat])
  /\ \A i \in DOMAIN map : IsUsable(map[i]) =>
       map[i].start <= map[i].end /\ map[i].start % PAGE = 0 /\ map[i].end % PAGE = 0
  /\ \A i, j \in DOMAIN map : i # j /\ IsUsable(map[i]) /\ IsUsable(map[j]) =>
       map[i].end <= map[j].start \/ map[j].end <= map[i].start

usable_frames ==
  FlattenSeq([i \in DOMAIN memory_map |->
    IF IsUsable(memory_map[i]) THEN FramesOf(memory_map[i]) ELSE <<>>])

MemoryInit(map) == memory_map = map /\ next = 0 /\ granted = <<>>

-----------------------------------------------------------------------------
\* allocate_frame fails when the iterator has no such element.
Enough(n) == next + n <= Len(usable_frames)

\* The frame that the i-th allocation from here on returns.
Frame(i) == usable_frames[next + i]

Handed(users) ==
  granted' = granted \o [i \in DOMAIN users |-> [frame |-> Frame(i), user |-> users[i]]]

\* Mutant: the index does not pass the last frame of a batch.
AllocateShort(users) ==
  Enough(Len(users)) /\ Handed(users) /\ next' = next + Len(users) - 1
  /\ UNCHANGED memory_map

\* One call of allocate_frame for each user, in that order.
Allocate(users) ==
  Enough(Len(users)) /\ Handed(users) /\ next' = next + Len(users)
  /\ UNCHANGED memory_map

\* The frames of init_heap: one for each page and, when that is mapped, those of the
\* page tables that the mapper lacks for it: all levels for the first page, then one
\* table where a page is the first of its 512.
HeapUsers(tables) ==
  [i \in 1 .. HEAP_PAGES + Cardinality(tables) |->
     IF i \in tables THEN "table" ELSE "heap"]

-----------------------------------------------------------------------------
\* No frame is handed out twice, whether to the heap, its page tables or a
\* device, and every one lies in a usable region (memory.rs:95-132).
FramesExclusive ==
  /\ IsInjective([i \in DOMAIN granted |-> granted[i].frame])
  /\ \A i \in DOMAIN granted : \E r \in ToSet(memory_map) :
       /\ IsUsable(r)
       /\ r.start <= granted[i].frame * PAGE
       /\ (granted[i].frame + 1) * PAGE <= r.end
===============================================================================
