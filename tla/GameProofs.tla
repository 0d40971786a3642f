------------------------------ MODULE GameProofs ------------------------------
(* Proofs about Game, for any world, poses, addresses and number of saves.    *)
(* What the walk of VoxelTraverser yields is proved by induction on its calls *)
(* (lemma Induction: a set of numbers with 0 and every successor is Nat).     *)
EXTENDS Drawing, SequenceTheorems, WellFoundedInduction, TLAPS

Lbas == SaveLbas \cup {l + 1 : l \in SaveLbas}
Games == (SUBSET Blocks) \X Poses

TypeOK ==
  /\ pc \in {"frame", "events", "save", "load", "break", "place", "render", "off"}
  /\ world \in SUBSET Blocks /\ camera \in Poses
  /\ save_lba \in SaveLbas \cup {None}
  /\ late \in BOOLEAN
  /\ saves \in [SaveLbas -> Seq(Games)]
  /\ durable \in [SaveLbas -> Games \cup {None}]

MeshInv == mesh = Mesh(world)

\* What is aimed at is a cell of the view ray.
AimInv ==
  pc \in {"break", "place"} =>
    target = None \/ \E i \in DOMAIN Ray[camera] : target = Ray[camera][i]

\* A sector that passes for the first of a save file was written by a save.
Contents == [valid : BOOLEAN, camera : Poses \cup {None}, blocks : SUBSET Blocks]
Sectors == {s \in Contents : s.valid => s.camera \in Poses}
DiskOK == disk \in [Lbas -> Sectors]

Saved == Last(saves[save_lba])
OnDisk(l, game) ==
  LET file == Serialize(game[1], game[2]) IN disk[l] = file[1] /\ disk[l + 1] = file[2]

\* The call in progress is the one the main loop waits for, and what it has returned
\* is still true of the disk, unless a call has timed out.
CallInv ==
  /\ pc \notin {"save", "load"} => req = None
  /\ req # None => ret = None
  /\ pc \in {"save", "load"} => save_lba \in SaveLbas
  /\ pc = "save" =>
       /\ saves[save_lba] # <<>>
       /\ durable[save_lba] = None
       /\ req # None =>
            req = [op |-> "write", lba |-> save_lba, count |-> 2,
                   data |-> Serialize(Saved[1], Saved[2])]
       /\ ret # None /\ ret.status = "Ok" /\ ~late => OnDisk(save_lba, Saved)
  /\ pc = "load" =>
       /\ req # None => req = Load(save_lba)
       /\ ret # None /\ ret.status = "Ok" =>
            /\ ret.data[1] \in Sectors /\ ret.data[2] \in Sectors
            /\ ~late => ret.data = <<disk[save_lba], disk[save_lba + 1]>>

\* What was reported as saved has stayed on the disk.
DurableInv == \A l \in SaveLbas : durable[l] # None => OnDisk(l, durable[l])

\* After a timeout nothing is known of what was saved.
LateInv == late => \A l \in SaveLbas : durable[l] = None

SaveInv == CallInv /\ DurableInv /\ LateInv

IInv == TypeOK /\ MeshInv /\ AimInv /\ DiskOK /\ SaveInv

-----------------------------------------------------------------------------
(* Induction.                                                              *)

LEMMA LeastNumber ==
  ASSUME NEW T, T \subseteq Nat, T # {}
  PROVE  \E n \in T : \A m \in T : ~(m < n)
  <1> DEFINE R == {p \in Nat \X Nat : p[1] < p[2]}
  <1>1. IsWellFoundedOn(R, Nat)
    BY NatLessThanWellFounded DEF OpToRel
  <1>2. \A x, y \in Nat : <<y, x>> \in R <=> y < x
    OBVIOUS
  <1> HIDE DEF R
  <1>3. PICK x \in T : \A y \in T : ~(<<y, x>> \in R)
    BY <1>1, WFMin, Zenon
  <1>4. \A y \in T : ~(y < x)
    BY <1>2, <1>3, Zenon
  <1> QED
    BY <1>4, Zenon

LEMMA Induction ==
  ASSUME NEW S, 0 \in S, \A n \in Nat \cap S : n + 1 \in S
  PROVE  \A n \in Nat : n \in S
  <1> SUFFICES ASSUME Nat \ S # {}
               PROVE  FALSE
    BY Zenon
  <1>1. Nat \ S \subseteq Nat
    BY Zenon
  <1>2. PICK n \in Nat \ S : \A m \in Nat \ S : ~(m < n)
    BY <1>1, LeastNumber, Zenon
  <1>3. n # 0
    BY Zenon
  <1>4. n - 1 \in Nat /\ (n - 1) + 1 = n /\ n - 1 < n
    BY <1>3
  <1> QED
    BY <1>2, <1>4, Zenon

-----------------------------------------------------------------------------
(* The walk.                                                               *)

\* The walk is what its recursive definition says.
LEMMA WalkStates ==
  ASSUME NEW p
  PROVE  /\ MaxCalls \in Nat
         /\ Walk(p)[0] = Active(p)
         /\ \A n \in 1 .. MaxCalls : Walk(p)[n] = Advance(p, Walk(p)[n - 1])
  <1> DEFINE State(f, i) == IF i = 0 THEN Active(p) ELSE Advance(p, f[i - 1])
             Upto(f, n) == f = [i \in 0 .. n |-> State(f, i)]
             Walkable == {n \in Nat : \E f : Upto(f, n)}
  <1>1. MaxCalls \in Nat
    BY WorldAssumption DEF MaxCalls
  <1>2. 0 \in Walkable
    <2> DEFINE f == [i \in 0 .. 0 |-> Active(p)]
    <2>1. Upto(f, 0)
      OBVIOUS
    <2> QED
      BY <2>1
  <1>3. ASSUME NEW n \in Nat \cap Walkable PROVE n + 1 \in Walkable
    <2>1. PICK f : Upto(f, n)
      OBVIOUS
    <2> DEFINE g == [i \in 0 .. n + 1 |-> IF i <= n THEN f[i] ELSE Advance(p, f[n])]
    <2>2. \A i \in 0 .. n : f[i] = State(f, i)
      BY <2>1
    <2>3. \A i \in 0 .. n : g[i] = State(g, i)
      BY <2>2
    <2>4. g[n + 1] = State(g, n + 1)
      OBVIOUS
    <2>5. \A i \in 0 .. n + 1 : g[i] = State(g, i)
      <3>1. \A i \in 0 .. n + 1 : i \in 0 .. n \/ i = n + 1
        OBVIOUS
      <3> QED
        BY <2>3, <2>4, <3>1, Zenon
    <2>6. g = [i \in 0 .. n + 1 |-> g[i]]
      BY Zenon
    <2> HIDE DEF g
    <2>7. Upto(g, n + 1)
      BY <2>5, <2>6
    <2>8. n + 1 \in Nat
      OBVIOUS
    <2> QED
      BY <2>7, <2>8, Zenon
  <1>4. \E f : Upto(f, MaxCalls)
    <2> HIDE DEF Walkable
    <2>1. MaxCalls \in Walkable
      BY <1>1, <1>2, <1>3, Induction, Zenon
    <2> QED
      BY <2>1 DEF Walkable
  <1>5. Walk(p) = CHOOSE f : Upto(f, MaxCalls)
    BY DEF Walk
  <1>6. Upto(Walk(p), MaxCalls)
    BY <1>4, <1>5
  <1> QED
    BY <1>1, <1>6

Cell == [block : Blocks, face : Face]

\* The iterator stands in the last cell it has yielded, and has entered each cell
\* by its face from the one before.
WalkOK(state) ==
  /\ "block" \in DOMAIN state /\ "cells" \in DOMAIN state
  /\ state.block \in Blocks
  /\ state.cells \in Seq(Cell) /\ Len(state.cells) > 0
  /\ state.cells[Len(state.cells)].block = state.block
  /\ \A i \in 2 .. Len(state.cells) :
       Neighbor(state.cells[i].block, state.cells[i].face) = state.cells[i - 1].block

LEMMA BlocksAre ==
  /\ \A b \in Blocks : /\ b = <<b[1], b[2], b[3]>>
                       /\ b[1] \in Int /\ b[2] \in Int /\ b[3] \in Int
  /\ \A b : /\ b = <<b[1], b[2], b[3]>>
            /\ \A i \in 1 .. 3 : b[i] \in Cells(Dim[i])
            => b \in Blocks
  <1> USE WorldAssumption DEF Blocks, Cells, Dim
  <1>1. ASSUME NEW b \in Blocks
        PROVE  /\ b = <<b[1], b[2], b[3]>>
               /\ b[1] \in Int /\ b[2] \in Int /\ b[3] \in Int
    BY <1>1
  <1>2. ASSUME NEW b, b = <<b[1], b[2], b[3]>>, \A i \in 1 .. 3 : b[i] \in Cells(Dim[i])
        PROVE  b \in Blocks
    <2>1. b[1] \in Cells(WORLD_X) /\ b[2] \in Cells(WORLD_Y) /\ b[3] \in Cells(WORLD_Z)
      BY <1>2
    <2> QED
      BY <1>2, <2>1
  <1> QED
    BY <1>1, <1>2, Zenon

\* A face leads back to the cell the ray came from.
LEMMA FaceLeadsBack ==
  ASSUME NEW p \in Pose, NEW axis \in 1 .. 3, NEW b \in Blocks
  PROVE  LET c == [b EXCEPT ![axis] = @ + Sign(p.forward[axis])] IN
         /\ FaceOf(p, axis) \in Face
         /\ Neighbor(c, FaceOf(p, axis)) = b
  <1> DEFINE c == [b EXCEPT ![axis] = @ + Sign(p.forward[axis])]
             face == FaceOf(p, axis)
  <1>1. b = <<b[1], b[2], b[3]>> /\ b[1] \in Int /\ b[2] \in Int /\ b[3] \in Int
    BY BlocksAre
  <1>2. p.forward[axis] \in Int
    BY DEF Pose
  <1>3. /\ face \in Face
        /\ Offset[face] = [i \in 1 .. 3 |-> IF i = axis THEN -Sign(p.forward[axis]) ELSE 0]
    BY <1>2 DEF FaceOf, Face, Offset, Sign
  <1>4. Sign(p.forward[axis]) \in {-1, 1}
    BY DEF Sign
  <1>5. c = [i \in 1 .. 3 |-> IF i = axis THEN b[i] + Sign(p.forward[axis]) ELSE b[i]]
    <2>1. b = [i \in 1 .. 3 |-> b[i]]
      BY <1>1
    <2>2. DOMAIN b = 1 .. 3
      BY <2>1, Zenon
    <2>3. c = [i \in DOMAIN b |-> IF i = axis THEN b[axis] + Sign(p.forward[axis]) ELSE b[i]]
      BY Zenon
    <2> QED
      BY <2>2, <2>3
  <1>6. Neighbor(c, face) = [i \in 1 .. 3 |-> b[i]]
    BY <1>1, <1>3, <1>4, <1>5 DEF Neighbor
  <1>7. b = [i \in 1 .. 3 |-> b[i]]
    BY <1>1
  <1> QED
    BY <1>3, <1>6, <1>7

\* The point where the ray enters the world, if it is in reach, and its cell.
LEMMA EntryPoint ==
  ASSUME NEW p \in Pose, ~TooFar(Close(p), p.forward)
  PROVE  /\ EntryAxis(p) \in 1 .. 3
         /\ Close(p)[1] \in Int /\ Close(p)[2] \in Nat \ {0}
         /\ CellAt(p, Close(p)) \in Blocks
  <1>1. EntryAxis(p) \in 1 .. 3
    BY DEF EntryAxis
  <1>2. PICK i \in 1 .. 3 : i = EntryAxis(p)
    BY <1>1
  <1>3. p.position[i] \in Int /\ p.forward[i] \in Int
    BY DEF Pose
  <1>4. Dim[i] \in Int /\ UNIT \in Int
    BY WorldAssumption DEF Dim
  <1> DEFINE Point == {<<n, d>> : n \in Int, d \in Nat}
  <1>5. \A plane \in Int : Crossing(p, i, plane) \in Point
    <2>1. UNIT * p.forward[i] \in Int
      BY <1>3, <1>4
    <2>2. \A plane \in Int : UNIT * plane - p.position[i] \in Int
      BY <1>3, <1>4
    <2>3. \A n, d \in Int : Quotient(n, d) \in Point
      BY DEF Quotient
    <2> HIDE DEF Point
    <2> QED
      BY <2>1, <2>2, <2>3, Zenon DEF Crossing
  <1>6. Enter(p, i, 0, Dim[i]) \in Point
    <2>1. MinusInfinity \in Point /\ Infinity \in Point
      BY DEF MinusInfinity, Infinity
    <2>2. 0 \in Int
      OBVIOUS
    <2> HIDE DEF Point
    <2>3. Crossing(p, i, 0) \in Point /\ Crossing(p, i, Dim[i]) \in Point
      BY <1>4, <1>5, <2>2, Zenon
    <2> QED
      BY <2>1, <2>3, Zenon DEF Enter, Least
  <1>7. Close(p) \in Point
    <2>1. <<0, 1>> \in Point
      OBVIOUS
    <2> HIDE DEF Point
    <2> QED
      BY <1>2, <1>6, <2>1, Zenon DEF Close, Greatest
  <1>8. Close(p)[1] \in Int /\ Close(p)[2] \in Nat
    BY <1>7
  <1>9. Close(p)[2] # 0
    BY Zenon DEF TooFar
  <1>10. CellAt(p, Close(p)) \in Blocks
    <2> DEFINE s == Close(p)
               cell == CellAt(p, s)
    <2>1. \A k \in 1 .. 3 : cell[k] \in Cells(Dim[k])
      <3> SUFFICES ASSUME NEW k \in 1 .. 3 PROVE cell[k] \in Cells(Dim[k])
        OBVIOUS
      <3> DEFINE x == p.position[k] * s[2] + UNIT * p.forward[k] * s[1]
      <3>1. p.position[k] \in Int /\ p.forward[k] \in Int
        BY DEF Pose
      <3>2. x \in Int
        BY <1>4, <1>8, <3>1
      <3>3. UNIT * s[2] \in Nat \ {0}
        BY <1>8, <1>9, WorldAssumption
      <3>4. x \div (UNIT * s[2]) \in Int
        <4> HIDE DEF x
        <4>1. \A m \in Int, n \in Nat \ {0} : m \div n \in Int
          OBVIOUS
        <4> QED
          BY <3>2, <3>3, <4>1
      <3>5. Dim[k] \in Nat \ {0}
        BY WorldAssumption DEF Dim
      <3>6. cell[k] = LET floor == x \div (UNIT * s[2])
                      IN IF floor < 0 THEN 0
                         ELSE IF floor >= Dim[k] THEN Dim[k] - 1 ELSE floor
        BY DEF CellAt
      <3> HIDE DEF x, cell
      <3> QED
        BY <3>4, <3>5, <3>6 DEF Cells
    <2>2. cell = <<cell[1], cell[2], cell[3]>>
      BY DEF CellAt
    <2> QED
      BY <2>1, <2>2, BlocksAre, Zenon
  <1> QED
    BY <1>1, <1>8, <1>9, <1>10

LEMMA ActiveOK ==
  ASSUME NEW p \in Pose, ~TooFar(Close(p), p.forward)
  PROVE  WalkOK(Active(p))
  <1> DEFINE b == CellAt(p, Close(p))
             cell == [block |-> b, face |-> FaceOf(p, EntryAxis(p))]
  <1>1. b \in Blocks /\ EntryAxis(p) \in 1 .. 3
    BY EntryPoint
  <1>2. cell \in Cell
    BY <1>1, FaceLeadsBack DEF Cell
  <1>3. /\ Active(p).block = b /\ Active(p).cells = <<cell>>
        /\ "block" \in DOMAIN Active(p) /\ "cells" \in DOMAIN Active(p)
    BY DEF Active
  <1> HIDE DEF b
  <1> QED
    BY <1>1, <1>2, <1>3 DEF WalkOK

LEMMA AdvanceOK ==
  ASSUME NEW p \in Pose, NEW state, WalkOK(state)
  PROVE  WalkOK(Advance(p, state))
  <1> DEFINE axis == NextAxis(state.t)
             b == [state.block EXCEPT ![axis] = @ + Sign(p.forward[axis])]
             cell == [block |-> b, face |-> FaceOf(p, axis)]
             last == Len(state.cells)
             next == [block |-> b, done |-> FALSE,
                      t |-> [state.t EXCEPT ![axis] = NextCrossing(p, b, axis)],
                      cells |-> Append(state.cells, cell)]
  <1>1. CASE Advance(p, state) = state
    BY <1>1
  <1>2. CASE Advance(p, state) = [state EXCEPT !.done = TRUE]
    <2> DEFINE done == [state EXCEPT !.done = TRUE]
    <2>1. /\ done.block = state.block /\ done.cells = state.cells
          /\ DOMAIN done = DOMAIN state
      BY Zenon DEF WalkOK
    <2> HIDE DEF done
    <2> QED
      BY <1>2, <2>1 DEF WalkOK
  <1>3. CASE b \in Blocks /\ Advance(p, state) = next
    <2>1. axis \in 1 .. 3
      BY DEF NextAxis
    <2>2. /\ state.block \in Blocks
          /\ state.cells \in Seq(Cell) /\ last \in Nat /\ last > 0
          /\ state.cells[last].block = state.block
      BY DEF WalkOK
    <2>3. FaceOf(p, axis) \in Face /\ Neighbor(b, FaceOf(p, axis)) = state.block
      BY <2>1, <2>2, FaceLeadsBack
    <2>4. cell \in Cell /\ cell.block = b /\ cell.face = FaceOf(p, axis)
      BY <1>3, <2>3 DEF Cell
    <2> HIDE DEF cell, axis, b
    <2>5. /\ next.block = b /\ next.cells = Append(state.cells, cell)
          /\ "block" \in DOMAIN next /\ "cells" \in DOMAIN next
      OBVIOUS
    <2> HIDE DEF next
    <2>6. /\ Append(state.cells, cell) \in Seq(Cell)
          /\ Len(Append(state.cells, cell)) = last + 1
          /\ Append(state.cells, cell)[last + 1] = cell
          /\ \A i \in 1 .. last : Append(state.cells, cell)[i] = state.cells[i]
      BY <2>2, <2>4, AppendProperties
    <2>7. \A i \in 2 .. last :
            Neighbor(state.cells[i].block, state.cells[i].face) = state.cells[i - 1].block
      BY DEF WalkOK
    <2>8. \A i \in 2 .. last + 1 :
            Neighbor(next.cells[i].block, next.cells[i].face) = next.cells[i - 1].block
      <3> SUFFICES ASSUME NEW i \in 2 .. last + 1
                   PROVE  Neighbor(next.cells[i].block, next.cells[i].face)
                            = next.cells[i - 1].block
        OBVIOUS
      <3>1. CASE i = last + 1
        <4>1. i - 1 = last /\ last \in 1 .. last
          BY <2>2, <3>1
        <4> QED
          BY <2>2, <2>3, <2>4, <2>5, <2>6, <3>1, <4>1, Zenon
      <3>2. CASE i # last + 1
        <4>1. i \in 2 .. last /\ i \in 1 .. last /\ i - 1 \in 1 .. last
          BY <2>2, <3>2
        <4> QED
          BY <2>5, <2>6, <2>7, <4>1, Zenon
      <3> QED
        BY <3>1, <3>2
    <2>9. Len(next.cells) = last + 1 /\ last + 1 > 0
      BY <2>2, <2>5, <2>6
    <2>10. next.cells[last + 1].block = next.block /\ next.cells \in Seq(Cell)
      BY <2>4, <2>5, <2>6
    <2>11. WalkOK(next)
      BY <1>3, <2>5, <2>8, <2>9, <2>10, Zenon DEF WalkOK
    <2> QED
      BY <1>3, <2>11, Zenon
  <1> HIDE DEF axis, b, cell, next
  <1> QED
    BY <1>1, <1>2, <1>3, Zenon DEF Advance, axis, b, cell, next

\* Each cell of a view ray is entered by its face from the one before it.
LEMMA RayIsConnected ==
  ASSUME NEW p \in Pose
  PROVE  /\ Traverse(p) \in Seq(Cell)
         /\ \A i \in 2 .. Len(Traverse(p)) :
              Neighbor(Traverse(p)[i].block, Traverse(p)[i].face) = Traverse(p)[i - 1].block
  <1>1. CASE Less(Far(p), Close(p)) \/ TooFar(Close(p), p.forward)
    <2>1. Traverse(p) = <<>>
      BY <1>1, Zenon DEF Traverse
    <2> QED
      BY <2>1
  <1>2. CASE ~(Less(Far(p), Close(p)) \/ TooFar(Close(p), p.forward))
    <2> DEFINE Walked == {n \in Nat : n <= MaxCalls => WalkOK(Walk(p)[n])}
    <2>1. 0 \in Walked
      BY <1>2, ActiveOK, WalkStates
    <2>2. ASSUME NEW n \in Nat \cap Walked PROVE n + 1 \in Walked
      <3>1. CASE n + 1 <= MaxCalls
        <4>1. n + 1 \in 1 .. MaxCalls /\ (n + 1) - 1 = n /\ n <= MaxCalls /\ n + 1 \in Nat
          BY <3>1, WalkStates
        <4>2. Walk(p)[n + 1] = Advance(p, Walk(p)[n])
          BY <4>1, WalkStates
        <4>3. WalkOK(Walk(p)[n + 1])
          BY <4>1, <4>2, AdvanceOK
        <4> QED
          BY <4>1, <4>3
      <3>2. CASE ~(n + 1 <= MaxCalls)
        BY <3>2
      <3> QED
        BY <3>1, <3>2
    <2>3. MaxCalls \in Walked
      <3> HIDE DEF Walked
      <3> QED
        BY <2>1, <2>2, Induction, WalkStates, Zenon
    <2>4. WalkOK(Walk(p)[MaxCalls])
      BY <2>3, WalkStates
    <2>5. Traverse(p) = Walk(p)[MaxCalls].cells
      BY <1>2, Zenon DEF Traverse
    <2> QED
      BY <2>4, <2>5, Zenon DEF WalkOK
  <1> QED
    BY <1>1, <1>2, Zenon

-----------------------------------------------------------------------------
(* The save file.                                                          *)

LEMMA Addresses ==
  ASSUME NEW l \in SaveLbas
  PROVE  /\ l \in Lbas /\ l + 1 \in Lbas /\ l \in Nat /\ l # l + 1
         /\ \A m \in SaveLbas : m # l => m # l + 1 /\ m + 1 # l /\ m + 1 # l + 1
         /\ l .. (l + 2 - 1) = {l, l + 1}
BY GameAssumption DEF Lbas

\* deserialize undoes serialize.
LEMMA SerializeOK ==
  ASSUME NEW game \in Games
  PROVE  LET file == Serialize(game[1], game[2]) IN
         /\ game = <<game[1], game[2]>>
         /\ file[1] \in Sectors /\ file[2] \in Sectors
         /\ Valid(file) /\ Deserialized(file) = game
  <1> DEFINE file == Serialize(game[1], game[2])
  <1>1. game = <<game[1], game[2]>> /\ game[1] \in SUBSET Blocks /\ game[2] \in Poses
    BY DEF Games
  <1> DEFINE first == Sector(TRUE, game[2], game[1] \cap FirstBlocks)
             rest == Sector(FALSE, None, game[1] \ FirstBlocks)
  <1>2. /\ first.valid = TRUE /\ first.camera = game[2]
        /\ first.blocks = game[1] \cap FirstBlocks
    BY DEF Sector
  <1>3. rest.valid = FALSE /\ rest.blocks = game[1] \ FirstBlocks
    BY DEF Sector
  <1>4. file = <<first, rest>>
    BY Zenon DEF Serialize
  <1>5. first \in Contents /\ rest \in Contents
    <2>1. \A t \in BOOLEAN, c \in Poses \cup {None}, b \in SUBSET Blocks :
            Sector(t, c, b) \in Contents
      BY DEF Sector, Contents
    <2>2. /\ game[1] \cap FirstBlocks \in SUBSET Blocks
          /\ game[1] \ FirstBlocks \in SUBSET Blocks
      BY <1>1
    <2> QED
      BY <1>1, <2>1, <2>2
  <1> HIDE DEF first, rest, file
  <1>7. file[1] = first /\ file[2] = rest
    BY <1>4
  <1>8. first \in Sectors
    BY <1>1, <1>2, <1>5, Zenon DEF Sectors
  <1>9. rest \in Sectors
    <2>1. ~rest.valid
      BY <1>3
    <2> QED
      BY <1>5, <2>1, Zenon DEF Sectors
  <1>10. Valid(file)
    BY <1>2, <1>7, Zenon DEF Valid
  <1>11. first.blocks \cup rest.blocks = game[1]
    BY <1>1, <1>2, <1>3
  <1>12. Deserialized(file) = game
    BY <1>1, <1>2, <1>7, <1>11, Zenon DEF Deserialized
  <1> QED
    BY <1>1, <1>7, <1>8, <1>9, <1>10, <1>12, Zenon DEF file

\* Whatever was saved is made of sectors, and so are the bounce frames.
LEMMA KnownOK ==
  ASSUME TypeOK
  PROVE  Known \subseteq Sectors
  <1> SUFFICES ASSUME NEW s \in Known PROVE s \in Sectors
    OBVIOUS
  <1>1. CASE s = Blank
    BY <1>1 DEF Blank, Sector, Sectors, Contents
  <1>2. CASE s # Blank
    <2>1. PICK l \in SaveLbas :
            s \in UNION {ToSet(Serialize(g[1], g[2])) : g \in ToSet(saves[l])}
      BY <1>2, Zenon DEF Known
    <2>2. PICK g \in ToSet(saves[l]) : s \in ToSet(Serialize(g[1], g[2]))
      BY <2>1, Zenon
    <2>3. saves[l] \in Seq(Games)
      BY <2>1 DEF TypeOK
    <2>4. g \in Games
      BY <2>2, <2>3 DEF ToSet
    <2> DEFINE first == Sector(TRUE, g[2], g[1] \cap FirstBlocks)
               rest == Sector(FALSE, None, g[1] \ FirstBlocks)
    <2>5. Serialize(g[1], g[2]) = <<first, rest>>
      BY Zenon DEF Serialize
    <2> HIDE DEF first, rest
    <2>6. s \in {Serialize(g[1], g[2])[1], Serialize(g[1], g[2])[2]}
      BY <2>2, <2>5 DEF ToSet
    <2> QED
      BY <2>4, <2>6, SerializeOK, Zenon
  <1> QED
    BY <1>1, <1>2

\* What a load brings back, and that it is what was saved last.
LEMMA Loaded ==
  ASSUME TypeOK, DiskOK, SaveInv, pc = "load", ret # None, ret.status = "Ok"
  PROVE  /\ Valid(ret.data) => Deserialized(ret.data) \in Games
         /\ durable[save_lba] # None =>
              Valid(ret.data) /\ Deserialized(ret.data) = durable[save_lba]
  <1>1. save_lba \in SaveLbas /\ ret.data[1] \in Sectors /\ ret.data[2] \in Sectors
    BY Zenon DEF SaveInv, CallInv
  <1>4. ASSUME Valid(ret.data) PROVE Deserialized(ret.data) \in Games
    <2>1. ret.data[1].camera \in Poses
      BY <1>1, <1>4 DEF Valid, Sectors, Contents
    <2>2. ret.data[1].blocks \cup ret.data[2].blocks \in SUBSET Blocks
      BY <1>1 DEF Sectors, Contents
    <2> QED
      BY <2>1, <2>2, Zenon DEF Deserialized, Games
  <1>5. ASSUME durable[save_lba] # None
        PROVE  Valid(ret.data) /\ Deserialized(ret.data) = durable[save_lba]
    <2> DEFINE game == durable[save_lba]
               file == Serialize(game[1], game[2])
    <2>1. game \in Games
      BY <1>1, <1>5, Zenon DEF TypeOK
    <2>2. ret.data = <<disk[save_lba], disk[save_lba + 1]>>
      BY <1>1, <1>5, Zenon DEF SaveInv, CallInv, LateInv
    <2>3. ret.data[1] = disk[save_lba] /\ ret.data[2] = disk[save_lba + 1]
      BY <2>2
    <2>4. file[1] = ret.data[1] /\ file[2] = ret.data[2]
      BY <1>1, <1>5, <2>3, Zenon DEF SaveInv, DurableInv, OnDisk
    <2>5. Valid(file) /\ Deserialized(file) = game
      BY <2>1, SerializeOK
    <2> QED
      BY <2>5, <2>4, Zenon DEF Valid, Deserialized
  <1> QED
    BY <1>4, <1>5, Zenon

-----------------------------------------------------------------------------
(* Steps.                                                                  *)

\* What the calls to the store do.
LEMMA CallStep ==
  ASSUME NEW r, Store!Call(r)
  PROVE  req = None /\ req' = r /\ ret' = None /\ disk' = disk /\ late' = late
BY DEF Store!Call

LEMMA PersistStep ==
  ASSUME TypeOK, DiskOK, SaveInv, Store!Persist
  PROVE  /\ pc = "save" /\ save_lba \in SaveLbas /\ req # None /\ ret = None
         /\ req' = req /\ ret' = ret /\ late' = late
         /\ \E i \in {0, 1} :
              disk' = [disk EXCEPT ![save_lba + i] = Serialize(Saved[1], Saved[2])[i + 1]]
  <1>1. req # None /\ req.op = "write" /\ req' = req /\ ret' = ret /\ late' = late
    BY DEF Store!Persist
  <1>2. pc = "save"
    <2>1. Load(save_lba).op = "read"
      BY DEF Load
    <2> QED
      BY <1>1, <2>1 DEF SaveInv, CallInv
  <1>3. save_lba \in SaveLbas /\ ret = None
    BY <1>1, <1>2 DEF SaveInv, CallInv
  <1> DEFINE file == Serialize(Saved[1], Saved[2])
  <1>4. req.lba = save_lba /\ req.count = 2 /\ req.data = file
    <2> HIDE DEF file
    <2>1. req = [op |-> "write", lba |-> save_lba, count |-> 2, data |-> file]
      BY <1>1, <1>2, Zenon DEF SaveInv, CallInv, file
    <2> QED
      BY <2>1
  <1>5. PICK s \in save_lba .. (save_lba + 2 - 1) :
          disk' = [disk EXCEPT ![s] = file[s - save_lba + 1]]
    BY <1>4, Zenon DEF Store!Persist, Store!Span, Store!Part
  <1>6. save_lba \in Nat
    BY <1>3, Addresses
  <1>7. PICK i \in {0, 1} : s = save_lba + i /\ s - save_lba + 1 = i + 1
    <2>1. s = save_lba + 0 \/ s = save_lba + 1
      BY <1>5, <1>6
    <2> QED
      BY <1>6, <2>1
  <1> HIDE DEF file
  <1>8. disk' = [disk EXCEPT ![save_lba + i] = file[i + 1]]
    BY <1>5, <1>7, Zenon
  <1> QED
    BY <1>1, <1>2, <1>3, <1>8, Zenon DEF file

LEMMA ReturnStep ==
  ASSUME TypeOK, DiskOK, SaveInv, Store!ReturnOk \/ Store!ReturnErr
  PROVE  /\ late' \in BOOLEAN /\ (late => late')
         /\ pc \in {"save", "load"} /\ req' = None /\ disk' = disk
         /\ pc = "save" /\ ret'.status = "Ok" => OnDisk(save_lba, Saved)
         /\ pc = "load" /\ ret'.status = "Ok" =>
              /\ ret'.data = <<disk[save_lba], disk[save_lba + 1]>>
              /\ ret'.data[1] \in Sectors /\ ret'.data[2] \in Sectors
  <1>1. /\ req # None /\ req' = None /\ disk' = disk
        /\ late' \in BOOLEAN /\ (late => late')
    BY DEF Store!ReturnOk, Store!ReturnErr, TypeOK
  <1>2. pc \in {"save", "load"}
    BY <1>1 DEF SaveInv, CallInv
  <1>3. save_lba \in SaveLbas /\ save_lba \in Nat
    BY <1>2, Addresses DEF SaveInv, CallInv
  <1>4. CASE Store!ReturnErr
    <2>1. PICK e \in Store!Failures : ret' = [status |-> e, data |-> <<>>]
      BY <1>4, Zenon DEF Store!ReturnErr
    <2>2. ret'.status # "Ok"
      BY <2>1 DEF Store!Failures
    <2> QED
      BY <1>1, <1>2, <2>2
  <1>5. CASE Store!ReturnOk /\ pc = "save"
    <2> DEFINE file == Serialize(Saved[1], Saved[2])
    <2> HIDE DEF file
    <2>1. req = [op |-> "write", lba |-> save_lba, count |-> 2, data |-> file]
      BY <1>1, <1>5, Zenon DEF SaveInv, CallInv, file
    <2>2. req.op = "write" /\ req.lba = save_lba /\ req.count = 2 /\ req.data = file
      BY <2>1
    <2>3. \A s \in save_lba .. (save_lba + 2 - 1) : disk[s] = file[s - save_lba + 1]
      BY <1>5, <2>2, Zenon DEF Store!ReturnOk, Store!Span, Store!Part
    <2>4. disk[save_lba] = file[1] /\ disk[save_lba + 1] = file[2]
      BY <1>3, <2>3
    <2> QED
      BY <1>1, <1>5, <2>4, Zenon DEF OnDisk, file
  <1>6. CASE Store!ReturnOk /\ pc = "load"
    <2>1. req = [op |-> "read", lba |-> save_lba, count |-> 2, data |-> <<None, None>>]
      BY <1>1, <1>6, Zenon DEF SaveInv, CallInv, Load
    <2>2. req.op # "write" /\ req.lba = save_lba /\ req.count = 2
      BY <2>1
    <2>3. ret' = [status |-> "Ok", data |-> [i \in 1 .. 2 |-> disk[save_lba + i - 1]]]
      BY <1>6, <2>2, Zenon DEF Store!ReturnOk
    <2>4. ret'.data = [i \in 1 .. 2 |-> disk[save_lba + i - 1]]
      BY <2>3
    <2>5. ret'.data = <<disk[save_lba], disk[save_lba + 1]>>
      BY <1>3, <2>4
    <2>6. disk[save_lba] \in Sectors /\ disk[save_lba + 1] \in Sectors
      BY <1>3, Addresses, Zenon DEF DiskOK
    <2>7. ret'.data[1] = disk[save_lba] /\ ret'.data[2] = disk[save_lba + 1]
      BY <2>5
    <2> QED
      BY <1>1, <1>6, <2>5, <2>6, <2>7
  <1> QED
    BY <1>2, <1>4, <1>5, <1>6

\* What the store does once a call has timed out.
LatePersists == \E s \in DOMAIN disk, d \in Known : Store!LatePersist(s, d)
LateReturns == \E data \in Known \X Known : Store!LateOk(data)

LEMMA LateStep ==
  ASSUME TypeOK, DiskOK, SaveInv, LatePersists \/ LateReturns
  PROVE  /\ late /\ late' = late
         /\ disk' \in [Lbas -> Sectors]
         /\ \/ req' = req /\ ret' = ret
            \/ /\ pc \in {"save", "load"} /\ req' = None
               /\ pc = "load" => ret'.data[1] \in Sectors /\ ret'.data[2] \in Sectors
  <1>1. CASE LatePersists
    <2>1. PICK s \in DOMAIN disk, d \in Known : Store!LatePersist(s, d)
      BY <1>1, Zenon DEF LatePersists
    <2>2. /\ late /\ late' = late /\ req' = req /\ ret' = ret
          /\ disk' = [disk EXCEPT ![s] = d]
      BY <2>1 DEF Store!LatePersist
    <2>3. d \in Sectors
      BY KnownOK
    <2> QED
      BY <2>2, <2>3 DEF DiskOK
  <1>2. CASE LateReturns
    <2>1. PICK data \in Known \X Known : Store!LateOk(data)
      BY <1>2, Zenon DEF LateReturns
    <2>2. /\ late /\ late' = late /\ req # None /\ req' = None /\ disk' = disk
      BY <2>1 DEF Store!LateOk
    <2>3. pc \in {"save", "load"}
      BY <2>2 DEF SaveInv, CallInv
    <2>4. ASSUME pc = "load"
          PROVE  ret'.data[1] \in Sectors /\ ret'.data[2] \in Sectors
      <3>1. req = [op |-> "read", lba |-> save_lba, count |-> 2, data |-> <<None, None>>]
        BY <2>2, <2>4, Zenon DEF SaveInv, CallInv, Load
      <3>2. req.op # "write"
        BY <3>1
      <3>3. ret' = [status |-> "Ok", data |-> data]
        BY <2>1, <3>2, Zenon DEF Store!LateOk
      <3>4. ret'.data = data
        BY <3>3
      <3> QED
        BY <3>4, KnownOK
    <2> QED
      BY <2>2, <2>3, <2>4 DEF DiskOK
  <1> QED
    BY <1>1, <1>2

\* The store's steps leave the game alone.
LEMMA StorageStep ==
  ASSUME TypeOK, Storage
  PROVE  /\ UNCHANGED <<pc, world, mesh, camera, save_lba, clicks, target, saves>>
         /\ \/ Store!Persist \/ (Store!ReturnOk \/ Store!ReturnErr)
            \/ (LatePersists \/ LateReturns)
         /\ durable' = IF late' THEN [l \in SaveLbas |-> None] ELSE durable
BY Zenon DEF Storage, LatePersists, LateReturns

LEMMA NextCases ==
  ASSUME [Next]_vars
  PROVE  \/ Mouse \/ (\E l \in SaveLbas : SetLba(l)) \/ StartSave \/ StartLoad \/ Storage
         \/ FinishSave \/ FinishLoad \/ MoveAndAim \/ Break \/ Place \/ Render
         \/ PowerOff \/ Boot
         \/ (\E s \in DOMAIN disk, older \in Known : LoseCached(s, older))
         \/ UNCHANGED vars
BY DEF Next

\* The game that a load which is accepted has brought back.
LEMMA FinishLoadStep ==
  ASSUME TypeOK, DiskOK, SaveInv, FinishLoad
  PROVE  /\ world' \in SUBSET Blocks /\ camera' \in Poses
         /\ pc = "load" /\ pc' = "events" /\ disk' = disk /\ req' = req /\ ret' = None
         /\ late' = late
         /\ save_lba' = save_lba /\ saves' = saves /\ durable' = durable
         /\ mesh = Mesh(world) => mesh' = Mesh(world')
         /\ ret.status = "Ok" /\ durable[save_lba] # None =>
              <<world', camera'>> = durable[save_lba]
  <1>1. /\ pc = "load" /\ pc' = "events" /\ disk' = disk /\ req' = req /\ ret' = None
        /\ late' = late
        /\ save_lba' = save_lba /\ saves' = saves /\ durable' = durable /\ ret # None
    BY DEF FinishLoad, history
  <1>2. CASE ret.status = "Ok" /\ Valid(ret.data)
    <2> DEFINE game == Deserialized(ret.data)
    <2>1. world' = game[1] /\ camera' = game[2] /\ mesh' = Mesh(world')
      BY <1>2, Zenon DEF FinishLoad
    <2>2. game \in Games /\ (durable[save_lba] # None => game = durable[save_lba])
      BY <1>1, <1>2, Loaded
    <2> HIDE DEF game
    <2>3. game = <<game[1], game[2]>> /\ game[1] \in SUBSET Blocks /\ game[2] \in Poses
      BY <2>2 DEF Games
    <2> QED
      BY <1>1, <2>1, <2>2, <2>3, Zenon
  <1>3. CASE ~(ret.status = "Ok" /\ Valid(ret.data))
    <2>1. world' = world /\ camera' = camera /\ mesh' = mesh
      BY <1>3, Zenon DEF FinishLoad
    <2>2. ret.status = "Ok" => durable[save_lba] = None
      BY <1>1, <1>3, Loaded
    <2>3. world \in SUBSET Blocks /\ camera \in Poses
      BY Zenon DEF TypeOK
    <2> QED
      BY <1>1, <2>1, <2>2, <2>3, Zenon
  <1> QED
    BY <1>2, <1>3, Zenon

LEMMA TypeStep ==
  ASSUME TypeOK, DiskOK, SaveInv, [Next]_vars
  PROVE  TypeOK'
  <1> USE DEF TypeOK, storeVars, history
  <1>1. CASE Mouse
    BY <1>1 DEF Mouse
  <1>2. CASE \E l \in SaveLbas : SetLba(l)
    BY <1>2 DEF SetLba
  <1>3. CASE StartSave
    <2>1. save_lba \in SaveLbas /\ late' = late
      BY <1>3, CallStep DEF StartSave
    <2>2. <<world, camera>> \in Games
      BY DEF Games
    <2>3. saves[save_lba] \in Seq(Games)
      BY <2>1
    <2>4. Append(saves[save_lba], <<world, camera>>) \in Seq(Games)
      BY <2>2, <2>3, AppendProperties
    <2>5. saves' = [saves EXCEPT ![save_lba] = Append(saves[save_lba], <<world, camera>>)]
      BY <1>3 DEF StartSave
    <2>6. saves' \in [SaveLbas -> Seq(Games)]
      BY <2>1, <2>4, <2>5
    <2>7. durable' \in [SaveLbas -> Games \cup {None}]
      BY <1>3 DEF StartSave
    <2> QED
      BY <1>3, <2>1, <2>6, <2>7 DEF StartSave
  <1>4. CASE StartLoad
    BY <1>4, CallStep DEF StartLoad
  <1>5. CASE Storage
    <2>1. late' \in BOOLEAN
      BY <1>5, StorageStep, PersistStep, ReturnStep, LateStep, Zenon
    <2> QED
      BY <1>5, <2>1, StorageStep
  <1>6. CASE FinishSave
    <2>1. save_lba \in SaveLbas /\ saves[save_lba] # <<>>
      BY <1>6 DEF FinishSave, SaveInv, CallInv
    <2>2. saves[save_lba] \in Seq(Games)
      BY <2>1
    <2>3. Last(saves[save_lba]) \in Games
      BY <2>1, <2>2 DEF Last
    <2>4. durable' = durable \/ durable' = [durable EXCEPT ![save_lba] = Last(saves[save_lba])]
      BY <1>6, Zenon DEF FinishSave
    <2>5. durable' \in [SaveLbas -> Games \cup {None}]
      BY <2>1, <2>3, <2>4
    <2> QED
      BY <1>6, <2>5 DEF FinishSave
  <1>7. CASE FinishLoad
    BY <1>7, FinishLoadStep
  <1>8. CASE MoveAndAim
    BY <1>8 DEF MoveAndAim
  <1>9. CASE Break
    BY <1>9 DEF Break
  <1>10. CASE Place
    BY <1>10 DEF Place, InBounds
  <1>11. CASE Render
    BY <1>11 DEF Render
  <1>12. CASE PowerOff
    BY <1>12, GameAssumption DEF PowerOff, FirstWorld
  <1>13. CASE Boot
    BY <1>13 DEF Boot
  <1>14. CASE \E s \in DOMAIN disk, older \in Known : LoseCached(s, older)
    BY <1>14 DEF LoseCached
  <1>15. CASE UNCHANGED vars
    BY <1>15 DEF vars
  <1> QED
    BY NextCases, <1>1, <1>2, <1>3, <1>4, <1>5, <1>6, <1>7, <1>8, <1>9, <1>10, <1>11, <1>12,
       <1>13, <1>14, <1>15

LEMMA MeshStep ==
  ASSUME TypeOK, DiskOK, SaveInv, MeshInv, [Next]_vars
  PROVE  MeshInv'
  <1> USE DEF MeshInv
  <1>1. CASE FinishLoad
    BY <1>1, FinishLoadStep
  <1>2. CASE Break
    BY <1>2, Zenon DEF Break
  <1>3. CASE Place
    BY <1>3, Zenon DEF Place
  <1>4. CASE PowerOff
    BY <1>4, Zenon DEF PowerOff
  <1>5. CASE ~(FinishLoad \/ Break \/ Place \/ PowerOff)
    BY <1>5, NextCases
    DEF Mouse, SetLba, StartSave, StartLoad, Storage, FinishSave, MoveAndAim, Render, Boot,
        LoseCached, vars
  <1> QED
    BY <1>1, <1>2, <1>3, <1>4, <1>5

\* looking_at_solid_block returns a cell of the ray, or nothing.
LEMMA AimedAtRay ==
  ASSUME NEW p \in Poses, NEW w
  PROVE  /\ \A i \in 2 .. Len(Ray[p]) :
              Neighbor(Ray[p][i].block, Ray[p][i].face) = Ray[p][i - 1].block
         /\ DOMAIN Ray[p] = 1 .. Len(Ray[p]) /\ Len(Ray[p]) \in Nat
         /\ LookingAt(p, w) = None \/ \E i \in DOMAIN Ray[p] : LookingAt(p, w) = Ray[p][i]
  <1>1. p \in Pose /\ Ray[p] = Traverse(p)
    BY GameAssumption DEF Ray
  <1>2. Ray[p] \in Seq(Cell)
    BY <1>1, RayIsConnected
  <1>3. DOMAIN Ray[p] = 1 .. Len(Ray[p]) /\ Len(Ray[p]) \in Nat
    BY <1>2
  <1> DEFINE hits == {i \in DOMAIN Ray[p] : Ray[p][i].block \in w}
  <1>4. CASE hits = {}
    BY <1>1, <1>3, <1>4, RayIsConnected, Zenon DEF LookingAt
  <1>5. CASE hits # {}
    <2>1. hits \subseteq Nat
      BY <1>3
    <2>2. PICK n \in hits : \A m \in hits : ~(m < n)
      BY <1>5, <2>1, LeastNumber, Zenon
    <2>3. \A m \in hits : n <= m
      BY <2>1, <2>2
    <2> DEFINE first == CHOOSE i \in hits : \A j \in hits : i <= j
    <2>4. first \in hits
      BY <2>2, <2>3, Zenon
    <2>5. LookingAt(p, w) = Ray[p][first]
      BY <1>5, Zenon DEF LookingAt
    <2> QED
      BY <1>1, <1>3, <2>4, <2>5, RayIsConnected, Zenon
  <1> QED
    BY <1>4, <1>5, Zenon

LEMMA AimStep ==
  ASSUME TypeOK, AimInv, [Next]_vars
  PROVE  AimInv'
  <1> USE DEF AimInv
  <1>1. CASE MoveAndAim
    <2>1. camera' \in Poses /\ target' = LookingAt(camera', world)
      BY <1>1 DEF MoveAndAim
    <2>2. PICK p \in Poses : p = camera'
      BY <2>1
    <2>3. target' = None \/ \E i \in DOMAIN Ray[p] : target' = Ray[p][i]
      BY <2>1, <2>2, AimedAtRay, Zenon
    <2>4. Ray' = Ray
      BY DEF Ray
    <2> QED
      BY <2>2, <2>3, <2>4, Zenon
  <1>2. CASE Break
    BY <1>2, Zenon DEF Break, Ray
  <1>3. CASE ~(MoveAndAim \/ Break)
    BY <1>3, NextCases
    DEF Mouse, SetLba, StartSave, StartLoad, Storage, FinishSave, FinishLoad, Place, Render,
        PowerOff, Boot, LoseCached, vars
  <1> QED
    BY <1>1, <1>2, <1>3

LEMMA DiskStep ==
  ASSUME TypeOK, DiskOK, SaveInv, [Next]_vars
  PROVE  DiskOK'
  <1> USE DEF DiskOK
  <1>1. CASE Storage
    <2>1. CASE Store!Persist
      <3>1. /\ save_lba \in SaveLbas /\ pc = "save"
            /\ \E i \in {0, 1} :
                 disk' = [disk EXCEPT ![save_lba + i] = Serialize(Saved[1], Saved[2])[i + 1]]
        BY <2>1, PersistStep
      <3>2. Saved \in Games
        <4>1. saves[save_lba] \in Seq(Games) /\ saves[save_lba] # <<>>
          BY <3>1 DEF TypeOK, SaveInv, CallInv
        <4> QED
          BY <4>1 DEF Saved, Last
      <3> DEFINE file == Serialize(Saved[1], Saved[2])
      <3>3. PICK game \in Games : game = Saved
        BY <3>2
      <3>4. file[1] \in Sectors /\ file[2] \in Sectors
        BY <3>3, SerializeOK
      <3>5. save_lba + 0 = save_lba /\ save_lba \in Lbas /\ save_lba + 1 \in Lbas
        BY <3>1, Addresses
      <3> HIDE DEF file
      <3>6. disk' = [disk EXCEPT ![save_lba] = file[1]]
            \/ disk' = [disk EXCEPT ![save_lba + 1] = file[2]]
        <4>1. PICK i \in {0, 1} : disk' = [disk EXCEPT ![save_lba + i] = file[i + 1]]
          BY <3>1, Zenon DEF file
        <4>2. CASE i = 0
          <5>1. i + 1 = 1
            BY <4>2
          <5> QED
            BY <3>5, <4>1, <4>2, <5>1, Zenon
        <4>3. CASE i = 1
          <5>1. i + 1 = 2
            BY <4>3
          <5> QED
            BY <4>1, <4>3, <5>1, Zenon
        <4> QED
          BY <4>2, <4>3
      <3> QED
        BY <3>4, <3>5, <3>6
    <2>2. CASE Store!ReturnOk \/ Store!ReturnErr
      BY <2>2, ReturnStep
    <2>3. CASE LatePersists \/ LateReturns
      BY <2>3, LateStep
    <2> QED
      BY <1>1, <2>1, <2>2, <2>3, StorageStep
  <1>2. CASE StartSave
    BY <1>2, CallStep, Zenon DEF StartSave
  <1>3. CASE StartLoad
    BY <1>3, CallStep, Zenon DEF StartLoad
  <1>4. CASE \E s \in DOMAIN disk, older \in Known : LoseCached(s, older)
    <2>1. PICK s \in DOMAIN disk, older \in Known : disk' = [disk EXCEPT ![s] = older]
      BY <1>4, Zenon DEF LoseCached
    <2> QED
      BY <2>1, KnownOK
  <1>5. CASE ~(\/ Storage \/ StartSave \/ StartLoad
              \/ \E s \in DOMAIN disk, older \in Known : LoseCached(s, older))
    BY <1>5, NextCases
    DEF Mouse, SetLba, FinishSave, FinishLoad, MoveAndAim, Break, Place, Render, PowerOff,
        Boot, storeVars, vars
  <1> QED
    BY <1>1, <1>2, <1>3, <1>4, <1>5

\* Nothing that was reported as saved is touched but by Persist.
LEMMA DurableKept ==
  ASSUME DurableInv, disk' = disk,
         \A l \in SaveLbas : durable'[l] \in {durable[l], None}
  PROVE  DurableInv'
BY Zenon DEF DurableInv, OnDisk

LEMMA DurableStep ==
  ASSUME TypeOK, DiskOK, SaveInv, [Next]_vars
  PROVE  DurableInv'
  <1>1. CASE StartSave
    <2>1. save_lba \in SaveLbas /\ durable' = [durable EXCEPT ![save_lba] = None]
      BY <1>1 DEF StartSave, TypeOK
    <2>2. disk' = disk
      BY <1>1, CallStep, Zenon DEF StartSave
    <2>3. \A l \in SaveLbas : durable'[l] \in {durable[l], None}
      BY <2>1 DEF TypeOK
    <2> QED
      BY <2>2, <2>3, DurableKept DEF SaveInv
  <1>2. CASE Storage /\ Store!Persist
    <2> DEFINE file == Serialize(Saved[1], Saved[2])
    <2>1. /\ pc = "save" /\ save_lba \in SaveLbas
      BY <1>2, PersistStep
    <2>2. PICK i \in {0, 1} : disk' = [disk EXCEPT ![save_lba + i] = file[i + 1]]
      BY <1>2, PersistStep
    <2>3. \A l \in SaveLbas : durable'[l] # None => durable'[l] = durable[l]
      BY <1>2, StorageStep
    <2> HIDE DEF file
    <2> SUFFICES ASSUME NEW l \in SaveLbas, durable'[l] # None
                 PROVE  OnDisk(l, durable[l])'
      BY Zenon DEF DurableInv
    <2>4. l # save_lba
      BY <2>1, <2>3 DEF SaveInv, CallInv
    <2>5. save_lba \in Nat /\ l # save_lba + i /\ l + 1 # save_lba + i
      BY <2>1, <2>4, Addresses
    <2>6. disk'[l] = disk[l] /\ disk'[l + 1] = disk[l + 1]
      BY <2>2, <2>5, Addresses DEF DiskOK
    <2>7. OnDisk(l, durable[l])
      BY <2>3, Zenon DEF SaveInv, DurableInv
    <2> QED
      BY <2>3, <2>6, <2>7, Zenon DEF OnDisk
  <1>3. CASE FinishSave
    <2>1. pc = "save" /\ ret # None /\ disk' = disk /\ save_lba \in SaveLbas
      BY <1>3 DEF FinishSave, SaveInv, CallInv
    <2>2. CASE ret.status = "Ok" /\ ~late
      <3>1. durable' = [durable EXCEPT ![save_lba] = Saved]
        BY <1>3, <2>2, Zenon DEF FinishSave, Saved
      <3>2. OnDisk(save_lba, Saved)
        BY <2>1, <2>2, Zenon DEF SaveInv, CallInv
      <3> SUFFICES ASSUME NEW l \in SaveLbas, durable'[l] # None
                   PROVE  OnDisk(l, durable[l])'
        BY Zenon DEF DurableInv
      <3>3. durable'[l] = IF l = save_lba THEN Saved ELSE durable[l]
        BY <2>1, <3>1 DEF TypeOK
      <3>4. l # save_lba => OnDisk(l, durable[l])
        BY <3>3, Zenon DEF SaveInv, DurableInv
      <3> QED
        BY <2>1, <3>2, <3>3, <3>4, Zenon DEF OnDisk
    <2>3. CASE ~(ret.status = "Ok" /\ ~late)
      <3>1. durable' = durable
        BY <1>3, <2>3, Zenon DEF FinishSave
      <3> QED
        BY <2>1, <3>1, DurableKept, Zenon DEF SaveInv
    <2> QED
      BY <2>2, <2>3
  <1>4. CASE Storage /\ (LatePersists \/ LateReturns)
    <2>1. late' /\ durable' = [l \in SaveLbas |-> None]
      BY <1>4, StorageStep, LateStep
    <2> QED
      BY <2>1 DEF DurableInv
  <1>5. CASE Storage /\ (Store!ReturnOk \/ Store!ReturnErr)
    <2>1. disk' = disk
      BY <1>5, ReturnStep
    <2>2. \A l \in SaveLbas : durable'[l] \in {durable[l], None}
      BY <1>5, StorageStep
    <2> QED
      BY <2>1, <2>2, DurableKept, Zenon DEF SaveInv
  <1>6. CASE \E s \in DOMAIN disk, older \in Known : LoseCached(s, older)
    <2>1. PICK s \in Lbas, older \in Known : LoseCached(s, older)
      BY <1>6 DEF DiskOK
    <2> SUFFICES ASSUME NEW l \in SaveLbas, durable'[l] # None
                 PROVE  OnDisk(l, durable[l])'
      BY Zenon DEF DurableInv
    <2>2. s # l /\ s # l + 1 /\ durable'[l] = durable[l]
      BY <2>1 DEF LoseCached
    <2>3. disk'[l] = disk[l] /\ disk'[l + 1] = disk[l + 1]
      BY <2>1, <2>2, Addresses DEF LoseCached, DiskOK
    <2>4. OnDisk(l, durable[l])
      BY <2>2, Zenon DEF SaveInv, DurableInv
    <2> QED
      BY <2>2, <2>3, <2>4, Zenon DEF OnDisk
  <1>7. CASE ~(\/ StartSave \/ Storage \/ FinishSave
              \/ \E s \in DOMAIN disk, older \in Known : LoseCached(s, older))
    <2>1. disk' = disk /\ durable' = durable
      <3>2. CASE StartLoad
        BY <3>2, CallStep, Zenon DEF StartLoad, history
      <3>3. CASE ~StartLoad
        BY <1>7, <3>3, NextCases
        DEF Mouse, SetLba, FinishLoad, MoveAndAim, Break, Place, Render, PowerOff, Boot,
            storeVars, history, vars
      <3> QED
        BY <3>2, <3>3
    <2> QED
      BY <2>1, DurableKept, Zenon DEF SaveInv
  <1> QED
    BY <1>1, <1>2, <1>3, <1>7, <1>4, <1>5, <1>6, StorageStep

LEMMA LateStepOK ==
  ASSUME TypeOK, DiskOK, SaveInv, [Next]_vars
  PROVE  LateInv'
  <1> USE DEF SaveInv, LateInv
  <1>1. CASE StartSave
    BY <1>1, CallStep, Zenon DEF StartSave, TypeOK
  <1>2. CASE StartLoad
    BY <1>2, CallStep, Zenon DEF StartLoad, history
  <1>3. CASE Storage
    BY <1>3, StorageStep
  <1>4. CASE FinishSave
    <2>1. late' = late /\ (late => durable' = durable)
      BY <1>4, Zenon DEF FinishSave
    <2> QED
      BY <2>1
  <1>5. CASE FinishLoad
    BY <1>5, FinishLoadStep, Zenon
  <1>6. CASE PowerOff
    BY <1>6 DEF PowerOff
  <1>7. CASE \E s \in DOMAIN disk, older \in Known : LoseCached(s, older)
    BY <1>7 DEF LoseCached
  <1>8. CASE ~(\/ StartSave \/ StartLoad \/ Storage \/ FinishSave \/ FinishLoad \/ PowerOff
              \/ \E s \in DOMAIN disk, older \in Known : LoseCached(s, older))
    BY <1>8, NextCases
    DEF Mouse, SetLba, MoveAndAim, Break, Place, Render, Boot, storeVars, history, vars
  <1> QED
    BY <1>1, <1>2, <1>3, <1>4, <1>5, <1>6, <1>7, <1>8

LEMMA CallStepOK ==
  ASSUME TypeOK, DiskOK, SaveInv, [Next]_vars
  PROVE  CallInv'
  <1> USE DEF SaveInv
  <1>1. CASE StartSave
    <2> DEFINE game == <<world, camera>>
    <2>1. /\ save_lba \in SaveLbas /\ save_lba' = save_lba
          /\ pc' = "save"
          /\ saves' = [saves EXCEPT ![save_lba] = Append(saves[save_lba], game)]
          /\ durable' = [durable EXCEPT ![save_lba] = None]
      BY <1>1 DEF StartSave, TypeOK
    <2>2. req' = Save(save_lba) /\ ret' = None /\ disk' = disk
      BY <1>1, CallStep, Zenon DEF StartSave
    <2>3. game[1] = world /\ game[2] = camera
      OBVIOUS
    <2>4. game \in Games
      BY DEF TypeOK, Games
    <2> HIDE DEF game
    <2>5. saves[save_lba] \in Seq(Games) /\ saves'[save_lba] = Append(saves[save_lba], game)
      BY <2>1 DEF TypeOK
    <2>6. saves'[save_lba] # <<>> /\ Last(saves'[save_lba]) = game
      BY <2>4, <2>5, AppendProperties DEF Last
    <2>7. Saved' = game
      BY <2>1, <2>6 DEF Saved
    <2>8. req' = [op |-> "write", lba |-> save_lba, count |-> 2,
                  data |-> Serialize(game[1], game[2])]
      BY <2>2, <2>3, Zenon DEF Save
    <2>9. durable'[save_lba] = None
      BY <2>1 DEF TypeOK
    <2>10. pc' \in {"save", "load"} /\ pc' # "load"
      BY <2>1
    <2> QED
      BY <2>1, <2>2, <2>6, <2>7, <2>8, <2>9, <2>10, Zenon DEF CallInv
  <1>2. CASE StartLoad
    <2>1. save_lba \in SaveLbas /\ save_lba' = save_lba /\ pc' = "load" /\ durable' = durable
      BY <1>2 DEF StartLoad, TypeOK, history
    <2>2. req' = Load(save_lba) /\ ret' = None /\ disk' = disk
      BY <1>2, CallStep, Zenon DEF StartLoad
    <2>3. Load(save_lba)' = Load(save_lba)
      BY <2>1 DEF Load
    <2>4. pc' \in {"save", "load"} /\ pc' # "save"
      BY <2>1
    <2> QED
      BY <2>1, <2>2, <2>3, <2>4, Zenon DEF CallInv
  <1>3. CASE Storage /\ Store!Persist
    <2>1. /\ pc = "save" /\ save_lba \in SaveLbas /\ req # None /\ ret = None
          /\ req' = req /\ ret' = ret
      BY <1>3, PersistStep
    <2>2. /\ pc' = pc /\ save_lba' = save_lba /\ saves' = saves
          /\ durable'[save_lba] \in {durable[save_lba], None}
      BY <1>3, <2>1, StorageStep
    <2>3. Saved' = Saved
      BY <2>2 DEF Saved
    <2>4. pc' \in {"save", "load"} /\ pc' # "load"
      BY <2>1, <2>2
    <2>5. pc = "save" => durable'[save_lba] = None
      BY <2>2 DEF CallInv
    <2> QED
      BY <2>1, <2>2, <2>3, <2>4, <2>5, Zenon DEF CallInv
  <1>4. CASE Storage /\ (Store!ReturnOk \/ Store!ReturnErr)
    <2>1. Store!ReturnOk \/ Store!ReturnErr
      BY <1>4
    <2>2. /\ pc \in {"save", "load"} /\ req' = None /\ disk' = disk
          /\ pc = "save" /\ ret'.status = "Ok" => OnDisk(save_lba, Saved)
          /\ pc = "load" /\ ret'.status = "Ok" =>
               /\ ret'.data = <<disk[save_lba], disk[save_lba + 1]>>
               /\ ret'.data[1] \in Sectors /\ ret'.data[2] \in Sectors
      BY <2>1, ReturnStep
    <2>3. save_lba \in SaveLbas
      BY <2>2 DEF CallInv
    <2>4. /\ pc' = pc /\ save_lba' = save_lba /\ saves' = saves
          /\ durable'[save_lba] \in {durable[save_lba], None}
      BY <1>4, <2>3, StorageStep
    <2>5. pc = "save" => durable'[save_lba] = None
      BY <2>4 DEF CallInv
    <2>6. Saved' = Saved /\ (OnDisk(save_lba, Saved) => OnDisk(save_lba, Saved)')
      BY <2>2, <2>4 DEF Saved, OnDisk
    <2> QED
      BY <2>2, <2>4, <2>6, <2>3, <2>5, Zenon DEF CallInv
  <1>5. CASE Storage /\ (LatePersists \/ LateReturns)
    <2>1. /\ late /\ late' = late
          /\ \/ req' = req /\ ret' = ret
             \/ /\ pc \in {"save", "load"} /\ req' = None
                /\ pc = "load" => ret'.data[1] \in Sectors /\ ret'.data[2] \in Sectors
      BY <1>5, LateStep
    <2>2. /\ pc' = pc /\ save_lba' = save_lba /\ saves' = saves
          /\ durable' = [l \in SaveLbas |-> None]
      BY <1>5, <2>1, StorageStep
    <2>3. Saved' = Saved /\ Load(save_lba)' = Load(save_lba)
      BY <2>2 DEF Saved, Load
    <2>4. pc = "save" => durable'[save_lba] = None
      BY <2>2 DEF CallInv
    <2> QED
      BY <2>1, <2>2, <2>3, <2>4, Zenon DEF CallInv
  <1>6. CASE FinishSave \/ FinishLoad
    <2>1. pc \in {"save", "load"} /\ pc' = "events" /\ req' = req /\ ret # None
      BY <1>6 DEF FinishSave, FinishLoad
    <2>2. req = None
      BY <2>1, Zenon DEF CallInv
    <2> QED
      BY <2>1, <2>2 DEF CallInv
  <1>7. CASE PowerOff
    BY <1>7 DEF PowerOff, CallInv
  <1>8. CASE \/ Boot \/ \E s \in DOMAIN disk, older \in Known : LoseCached(s, older)
    <2>1. /\ pc \notin {"save", "load"} /\ pc' \notin {"save", "load"}
          /\ req' = req /\ ret' = ret
      BY <1>8 DEF Boot, LoseCached, storeVars
    <2> QED
      BY <2>1 DEF CallInv
  <1>9. CASE Mouse \/ (\E l \in SaveLbas : SetLba(l)) \/ MoveAndAim \/ Break \/ Place \/ Render
    <2>1. /\ pc \notin {"save", "load"} /\ pc' \notin {"save", "load"} /\ req' = req
      BY <1>9
      DEF Mouse, SetLba, MoveAndAim, Break, Place, Render, storeVars, history
    <2> QED
      BY <2>1 DEF CallInv
  <1>10. CASE UNCHANGED vars
    BY <1>10, Zenon DEF vars, storeVars, history, CallInv, OnDisk, Saved, Load
  <1> QED
    BY NextCases, StorageStep, <1>1, <1>2, <1>3, <1>4, <1>6, <1>7, <1>9, <1>10, <1>5, <1>8,
       Zenon

-----------------------------------------------------------------------------
(* The theorems.                                                           *)

LEMMA InitOK == Init => IInv
  <1> SUFFICES ASSUME Init PROVE IInv
    OBVIOUS
  <1>1. TypeOK
    <2>1. <<>> \in Seq(Games)
      OBVIOUS
    <2>2. saves \in [SaveLbas -> Seq(Games)]
      BY <2>1 DEF Init
    <2>3. durable \in [SaveLbas -> Games \cup {None}]
      BY DEF Init
    <2> QED
      BY <2>2, <2>3, GameAssumption DEF Init, TypeOK, FirstWorld
  <1>2. MeshInv
    BY Zenon DEF Init, MeshInv
  <1>3. AimInv
    BY DEF Init, AimInv
  <1>4. DiskOK
    <2>1. disk = [l \in Lbas |-> Blank]
      BY Zenon DEF Init, Lbas
    <2>2. Blank \in Sectors
      BY DEF Blank, Sector, Sectors, Contents
    <2> QED
      BY <2>1, <2>2 DEF DiskOK
  <1>5. SaveInv
    BY DEF Init, SaveInv, CallInv, DurableInv, LateInv
  <1> QED
    BY <1>1, <1>2, <1>3, <1>4, <1>5 DEF IInv

\* The strengthened invariant of the game: the mesh, the aim, the sectors of the disk
\* and the call to the store (main.rs, save.rs).
THEOREM Invariant == Spec => []IInv
  <1>1. IInv /\ [Next]_vars => IInv'
    BY TypeStep, MeshStep, AimStep, DiskStep, CallStepOK, DurableStep, LateStepOK,
       Zenon
    DEF IInv, SaveInv
  <1> QED
    BY InitOK, <1>1, PTL DEF Spec

\* Whatever breaks, places or loads blocks has rebuilt the mesh before the frame is
\* drawn, in a world of any size (main.rs, world.rs: get_world_mesh).
THEOREM MeshCurrent == Spec => []MeshShowsWorld
  <1>1. IInv => MeshShowsWorld
    BY Zenon DEF IInv, MeshInv, MeshShowsWorld
  <1> QED
    BY <1>1, Invariant, PTL

\* A block is placed in the cell the view ray has just left, in a world of any size and
\* from any pose: the walk goes from neighbour to neighbour, and the face it reports is
\* the one it has come through (camera.rs: VoxelTraverser, main.rs).
THEOREM PlacedWhereLooked == Spec => PlacesWhereLooked
  <1> DEFINE Placed ==
        pc = "place" /\ pc' = "render" /\ target # None /\ target # Ray[camera][1] =>
          \A b \in world' \ world :
            \E i \in 2 .. Len(Ray[camera]) :
              Ray[camera][i] = target /\ b = Ray[camera][i - 1].block
  <1>1. IInv /\ [Next]_vars => [Placed]_vars
    <2> SUFFICES ASSUME IInv, Next, pc = "place", pc' = "render", target # None,
                        target # Ray[camera][1], NEW b \in world' \ world
                 PROVE  \E i \in 2 .. Len(Ray[camera]) :
                          Ray[camera][i] = target /\ b = Ray[camera][i - 1].block
      BY Zenon
    <2>1. Place
      BY NextCases
      DEF Mouse, SetLba, StartSave, StartLoad, Storage, FinishSave, FinishLoad, MoveAndAim,
          Break, Render, PowerOff, Boot, LoseCached, vars
    <2>2. b = InFrontOf(target)
      BY <2>1 DEF Place
    <2>3. camera \in Poses
      BY Zenon DEF IInv, TypeOK
    <2>4. PICK p \in Poses : p = camera
      BY <2>3
    <2>5. PICK i \in DOMAIN Ray[p] : target = Ray[p][i]
      BY <2>4 DEF IInv, AimInv
    <2>6. i \in 1 .. Len(Ray[p]) /\ i # 1 /\ Len(Ray[p]) \in Nat
      BY <2>4, <2>5, AimedAtRay
    <2>7. i \in 2 .. Len(Ray[p])
      BY <2>6
    <2>8. Neighbor(Ray[p][i].block, Ray[p][i].face) = Ray[p][i - 1].block
      BY <2>7, AimedAtRay
    <2> QED
      BY <2>2, <2>4, <2>5, <2>7, <2>8, Zenon DEF InFrontOf
  <1> QED
    BY <1>1, Invariant, PTL DEF Spec, PlacesWhereLooked

\* A load brings back the game that was last reported as saved at its address, for any
\* number of addresses, saves, failed calls and power cycles, unless a storage call has
\* timed out since, or the disk has lost a sector of it (save.rs, main.rs).
THEOREM LastSaveRestored == Spec => LoadRestoresLastSave
  <1> DEFINE Restored ==
        Loads /\ durable[save_lba] # None => <<world', camera'>> = durable[save_lba]
  <1>1. IInv /\ [Next]_vars => [Restored]_vars
    <2> SUFFICES ASSUME IInv, Next, Loads, durable[save_lba] # None
                 PROVE  <<world', camera'>> = durable[save_lba]
      BY Zenon
    <2>1. FinishLoad
      BY NextCases
      DEF Loads, Mouse, SetLba, StartSave, StartLoad, Storage, FinishSave, MoveAndAim, Break,
          Place, Render, PowerOff, Boot, LoseCached, vars
    <2> QED
      BY <2>1, FinishLoadStep, Zenon DEF IInv, Loads
  <1> QED
    BY <1>1, Invariant, PTL DEF Spec, LoadRestoresLastSave

-----------------------------------------------------------------------------
(* Areas.                                                                  *)

\* Two rectangles have in common what their intersection has.
LEMMA InBoth ==
  ASSUME NEW r \in Rectangle, NEW s \in Rectangle
  PROVE  LET area == Intersection(r, s) IN
         /\ area.left \in Int /\ area.top \in Int /\ area.right \in Int /\ area.bottom \in Int
         /\ Pixels(area) = Pixels(r) \cap Pixels(s)
  <1> DEFINE area == Intersection(r, s)
  <1>1. /\ r.left \in Int /\ r.top \in Int /\ r.right \in Int /\ r.bottom \in Int
        /\ s.left \in Int /\ s.top \in Int /\ s.right \in Int /\ s.bottom \in Int
    BY DEF Rectangle
  <1>2. /\ area.left = Higher(r.left, s.left) /\ area.top = Higher(r.top, s.top)
        /\ area.right = Lower(r.right, s.right) /\ area.bottom = Lower(r.bottom, s.bottom)
    BY DEF Intersection, Rect
  <1> HIDE DEF area
  <1>3. area.left \in Int /\ area.top \in Int /\ area.right \in Int /\ area.bottom \in Int
    BY <1>1, <1>2 DEF Higher, Lower
  <1>4. area.left .. area.right - 1 = (r.left .. r.right - 1) \cap (s.left .. s.right - 1)
    BY <1>1, <1>2 DEF Higher, Lower
  <1>5. area.top .. area.bottom - 1 = (r.top .. r.bottom - 1) \cap (s.top .. s.bottom - 1)
    BY <1>1, <1>2 DEF Higher, Lower
  <1>6. \A A, B, C, D : (A \cap B) \X (C \cap D) = (A \X C) \cap (B \X D)
    OBVIOUS
  <1>7. Pixels(area) = Pixels(r) \cap Pixels(s)
    BY <1>4, <1>5, <1>6, Zenon DEF Pixels
  <1> QED
    BY <1>3, <1>7 DEF area

\* fill_solid, which checks nothing, writes the cells of its area and none outside of
\* the buffer.
THEOREM FilledExactly ==
  ASSUME NEW r \in Rectangle
  PROVE  FillsItsArea(r) /\ fill_solid(r) \subseteq 0 .. STRIDE * HEIGHT - 1
  <1> DEFINE area == Intersection(r, FramebufferRect)
             Row(y) == y * STRIDE + area.left .. y * STRIDE + area.left + (area.right - area.left) - 1
             rows == area.top .. area.bottom - 1
  <1>1. STRIDE \in Nat /\ WIDTH \in Nat /\ HEIGHT \in Nat /\ STRIDE >= WIDTH
    BY RasterAssumption
  <1>2. FramebufferRect \in Rectangle
    BY <1>1 DEF FramebufferRect, Rect, Rectangle
  <1>3. /\ area.left \in Int /\ area.top \in Int /\ area.right \in Int /\ area.bottom \in Int
        /\ Pixels(area) = Pixels(r) \cap Pixels(FramebufferRect)
    BY <1>2, InBoth
  <1>4. fill_solid(r) = IF Pixels(area) = {} THEN {} ELSE UNION {Row(y) : y \in rows}
    BY DEF fill_solid
  <1>5. Pixels(area) = (area.left .. area.right - 1) \X rows
    BY DEF Pixels
  <1>6. Pixels(FramebufferRect) = (0 .. WIDTH - 1) \X (0 .. HEIGHT - 1)
    BY DEF Pixels, FramebufferRect, Rect
  <1> HIDE DEF area
  <1>7. ASSUME NEW y \in rows, NEW c
        PROVE  c \in Row(y) <=> \E x \in area.left .. area.right - 1 : c = y * STRIDE + x
    <2>1. y \in Int
      BY <1>3
    <2> DEFINE k == y * STRIDE
    <2>2. k \in Int
      BY <1>1, <2>1
    <2> HIDE DEF k
    <2>3. \A l, m \in Int : \A z : z \in k + l .. k + l + (m - l) - 1
                                     <=> \E x \in l .. m - 1 : z = k + x
      <3> SUFFICES ASSUME NEW l \in Int, NEW m \in Int, NEW z
                   PROVE  z \in k + l .. k + l + (m - l) - 1 <=> \E x \in l .. m - 1 : z = k + x
        OBVIOUS
      <3>1. ASSUME z \in k + l .. k + l + (m - l) - 1 PROVE \E x \in l .. m - 1 : z = k + x
        <4>1. z - k \in l .. m - 1 /\ z = k + (z - k)
          BY <2>2, <3>1
        <4> QED
          BY <4>1
      <3>2. ASSUME NEW x \in l .. m - 1, z = k + x PROVE z \in k + l .. k + l + (m - l) - 1
        BY <2>2, <3>2
      <3> QED
        BY <3>1, <3>2
    <2> QED
      BY <1>3, <2>3 DEF k
  <1>8. \A c : c \in fill_solid(r) <=> \E p \in Pixels(area) : c = Offset2d(p)
    <2>1. \A c : (\E p \in Pixels(area) : c = Offset2d(p))
                   <=> \E y \in rows : \E x \in area.left .. area.right - 1 : c = y * STRIDE + x
      <3> DEFINE across == area.left .. area.right - 1
      <3>1. ASSUME NEW c, NEW p \in Pixels(area), c = Offset2d(p)
            PROVE  \E y \in rows : \E x \in across : c = y * STRIDE + x
        <4>1. p[1] \in across /\ p[2] \in rows
          BY <1>5
        <4>2. c = p[2] * STRIDE + p[1]
          BY <3>1 DEF Offset2d
        <4> HIDE DEF rows, across
        <4> QED
          BY <4>1, <4>2, Zenon
      <3>2. ASSUME NEW c, NEW y \in rows, NEW x \in across, c = y * STRIDE + x
            PROVE  \E p \in Pixels(area) : c = Offset2d(p)
        <4>1. <<x, y>> \in Pixels(area)
          BY <1>5
        <4>2. Offset2d(<<x, y>>) = y * STRIDE + x
          BY DEF Offset2d
        <4> HIDE DEF rows, across
        <4> QED
          BY <3>2, <4>1, <4>2, Zenon
      <3> HIDE DEF rows
      <3> QED
        BY <3>1, <3>2, Zenon
    <2> HIDE DEF Row, rows
    <2> QED
      BY <1>4, <1>7, <2>1
  <1>9. FillsItsArea(r)
    <2>1. \A c : c \in {Offset2d(p) : p \in Pixels(area)} <=> \E p \in Pixels(area) : c = Offset2d(p)
      OBVIOUS
    <2>2. fill_solid(r) = {Offset2d(p) : p \in Pixels(area)}
      BY <1>8, <2>1
    <2> QED
      BY <1>3, <2>2, Zenon DEF FillsItsArea
  <1>10. ASSUME NEW p \in Pixels(area) PROVE Offset2d(p) \in 0 .. STRIDE * HEIGHT - 1
    <2>1. p \in (0 .. WIDTH - 1) \X (0 .. HEIGHT - 1)
      BY <1>3, <1>6
    <2>2. p[1] \in Nat /\ p[1] < WIDTH /\ p[2] \in Nat /\ p[2] <= HEIGHT - 1
      BY <1>1, <2>1
    <2>3. \A h \in Nat, s \in Nat : \A y \in Nat : y <= h - 1 => /\ y * s \in Nat /\ s * h \in Nat
                                                       /\ y * s + s <= s * h
      <3> SUFFICES ASSUME NEW h \in Nat, NEW s \in Nat, NEW y \in Nat, y <= h - 1
                   PROVE  y * s \in Nat /\ s * h \in Nat /\ y * s + s <= s * h
        OBVIOUS
      <3>1. (h - 1 - y) * s \in Nat
        OBVIOUS
      <3>2. (h - 1 - y) * s = s * h - s - y * s
        OBVIOUS
      <3> QED
        BY <3>1, <3>2
    <2>4. p[2] * STRIDE \in Nat /\ STRIDE * HEIGHT \in Nat /\ p[2] * STRIDE + STRIDE <= STRIDE * HEIGHT
      BY <1>1, <2>2, <2>3
    <2> QED
      BY <1>1, <2>2, <2>4 DEF Offset2d
  <1> QED
    BY <1>8, <1>9, <1>10

-----------------------------------------------------------------------------
(* Lines.                                                                  *)

\* Products with a positive factor keep the order.
LEMMA Times ==
  ASSUME NEW k \in Nat \ {0}
  PROVE  \A a, b \in Int :
           /\ a * k \in Int /\ (a + 1) * k = a * k + k /\ (a - 1) * k = a * k - k
           /\ 0 * k = 0 /\ 1 * k = k
           /\ a <= b <=> a * k <= b * k
           /\ a < b <=> a * k < b * k
  <1>1. \A a, b \in Int : a * k \in Int /\ (a + 1) * k = a * k + k /\ (a - 1) * k = a * k - k
    OBVIOUS
  <1>2. \A a \in Nat : a * k >= 0 /\ (a > 0 => a * k > 0)
    OBVIOUS
  <1>3. \A a, b \in Int : (b - a) * k = b * k - a * k
    OBVIOUS
  <1>4. ASSUME NEW a \in Int, NEW b \in Int
        PROVE  (a <= b => a * k <= b * k) /\ (a < b => a * k < b * k)
    <2>1. CASE a <= b
      <3>1. b - a \in Nat /\ (a < b => b - a > 0)
        BY <2>1
      <3>2. (b - a) * k >= 0 /\ (a < b => (b - a) * k > 0)
        BY <1>2, <3>1
      <3> QED
        BY <1>1, <1>3, <3>2
    <2> QED
      BY <2>1
  <1> QED
    BY <1>1, <1>4

\* The states of the loop are what its recursive definition says.
LEMMA LineStatesAre ==
  ASSUME NEW p, NEW q, Steps(p, q) \in Nat
  PROVE  LET at == LineStates(p, q) IN
         /\ at[0] = [x |-> p[1], y |-> p[2], err |-> Size(q[1] - p[1]) - Size(q[2] - p[2])]
         /\ \A n \in 1 .. Steps(p, q) : at[n] = LineStep(p, q, at[n - 1])
  <1> DEFINE start == [x |-> p[1], y |-> p[2], err |-> Size(q[1] - p[1]) - Size(q[2] - p[2])]
             State(f, i) == IF i = 0 THEN start ELSE LineStep(p, q, f[i - 1])
             Upto(f, n) == f = [i \in 0 .. n |-> State(f, i)]
             Walkable == {n \in Nat : \E f : Upto(f, n)}
  <1> HIDE DEF start
  <1>1. 0 \in Walkable
    <2> DEFINE f == [i \in 0 .. 0 |-> start]
    <2>1. Upto(f, 0)
      OBVIOUS
    <2> QED
      BY <2>1
  <1>2. ASSUME NEW n \in Nat \cap Walkable PROVE n + 1 \in Walkable
    <2>1. PICK f : Upto(f, n)
      OBVIOUS
    <2> DEFINE g == [i \in 0 .. n + 1 |-> IF i <= n THEN f[i] ELSE LineStep(p, q, f[n])]
    <2>2. \A i \in 0 .. n : f[i] = State(f, i)
      BY <2>1
    <2>3. \A i \in 0 .. n : g[i] = State(g, i)
      BY <2>2
    <2>4. g[n + 1] = State(g, n + 1)
      OBVIOUS
    <2>5. \A i \in 0 .. n + 1 : g[i] = State(g, i)
      <3>1. \A i \in 0 .. n + 1 : i \in 0 .. n \/ i = n + 1
        OBVIOUS
      <3> QED
        BY <2>3, <2>4, <3>1, Zenon
    <2>6. g = [i \in 0 .. n + 1 |-> g[i]]
      BY Zenon
    <2> HIDE DEF g
    <2>7. Upto(g, n + 1)
      BY <2>5, <2>6
    <2>8. n + 1 \in Nat
      OBVIOUS
    <2> QED
      BY <2>7, <2>8, Zenon
  <1>3. \E f : Upto(f, Steps(p, q))
    <2> HIDE DEF Walkable
    <2>1. Steps(p, q) \in Walkable
      BY <1>1, <1>2, Induction, Zenon
    <2> QED
      BY <2>1 DEF Walkable
  <1>4. LineStates(p, q) = CHOOSE f : Upto(f, Steps(p, q))
    BY DEF LineStates, start
  <1>5. Upto(LineStates(p, q), Steps(p, q))
    BY <1>3, <1>4
  <1> QED
    BY <1>5 DEF start

\* After n steps along the longer side, of length M, a line is as near to b steps along the
\* shorter one, of length m, as it can be.  u is n * m and v is b * M.
Near(M, u, v) == 2 * v - M < 2 * u /\ 2 * u <= 2 * v + M

LEMMA MinorStep ==
  ASSUME NEW M \in Nat, NEW m \in Nat, m <= M, NEW n \in Nat, n + 1 <= M,
         NEW b \in Nat, Near(M, n * m, b * M),
         NEW e \in Int, e = M - m - n * m + b * M
  PROVE  /\ 2 * e > -m
         /\ LET c == IF 2 * e < M THEN b + 1 ELSE b
            IN  c \in Nat /\ c <= m /\ Near(M, (n + 1) * m, c * M)
  <1> DEFINE u == n * m
             v == b * M
             c == IF 2 * e < M THEN b + 1 ELSE b
  <1>1. u \in Nat /\ v \in Nat /\ M > 0 /\ M \in Nat \ {0}
    OBVIOUS
  <1>2. (n + 1) * m = u + m /\ (b + 1) * M = v + M /\ (2 * b + 1) * M = 2 * v + M
    OBVIOUS
  <1>3. 2 * v - M < 2 * u /\ 2 * u <= 2 * v + M
    BY DEF Near
  <1>4. e = M - m - u + v
    OBVIOUS
  <1> HIDE DEF u, v
  <1>5. 2 * e > -m
    <2>1. CASE m < M
      BY <1>1, <1>3, <1>4, <2>1
    <2>2. CASE m = M
      <3>1. u = n * M /\ (2 * n) * M = 2 * u
        BY <2>2 DEF u
      <3>2. (2 * n) * M <= (2 * b + 1) * M
        BY <1>2, <1>3, <3>1
      <3>3. 2 * n <= 2 * b + 1
        BY <1>1, <3>2, Times
      <3>4. n <= b
        BY <3>3
      <3>5. n * M <= b * M
        BY <1>1, <3>4, Times
      <3>6. u <= v
        BY <3>1, <3>5 DEF v
      <3> QED
        BY <1>1, <1>4, <2>2, <3>6
    <2> QED
      BY <2>1, <2>2
  <1>6. c \in Nat /\ c * M = (IF 2 * e < M THEN v + M ELSE v) /\ c * M \in Nat
    BY <1>1, <1>2 DEF v
  <1> HIDE DEF c
  <1>7. Near(M, u + m, c * M)
    <2>1. CASE 2 * e < M
      BY <1>1, <1>3, <1>4, <1>6, <2>1 DEF Near
    <2>2. CASE ~(2 * e < M)
      BY <1>1, <1>3, <1>4, <1>6, <2>2 DEF Near
    <2> QED
      BY <2>1, <2>2
  <1>8. c <= m
    <2>1. u + m <= m * M /\ m * M \in Nat
      <3>1. (M - (n + 1)) * m \in Nat
        OBVIOUS
      <3>2. (M - (n + 1)) * m = m * M - (n + 1) * m
        OBVIOUS
      <3> QED
        BY <1>1, <1>2, <3>1, <3>2
    <2>2. 2 * (c * M) - M < 2 * (m * M)
      BY <1>1, <1>6, <1>7, <2>1 DEF Near
    <2>3. (2 * c - 1) * M = 2 * (c * M) - M /\ (2 * m) * M = 2 * (m * M)
      BY <1>6
    <2>4. (2 * c - 1) * M < (2 * m) * M
      BY <2>2, <2>3
    <2>5. 2 * c - 1 < 2 * m
      BY <1>1, <1>6, <2>4, Times
    <2> QED
      BY <1>6, <2>5
  <1> QED
    BY <1>2, <1>5, <1>6, <1>7, <1>8 DEF c

\* At the end of the longer side the shorter one is at its end, too.
LEMMA NearEnd ==
  ASSUME NEW M \in Nat \ {0}, NEW m \in Nat, NEW b \in Nat, Near(M, M * m, b * M)
  PROVE  b = m
  <1> DEFINE v == b * M
             w == m * M
  <1>1. v \in Nat /\ w \in Nat /\ M * m = w
        /\ (2 * b + 1) * M = 2 * v + M /\ (2 * b - 1) * M = 2 * v - M /\ (2 * m) * M = 2 * w
    OBVIOUS
  <1>2. 2 * v - M < 2 * w /\ 2 * w <= 2 * v + M
    BY <1>1 DEF Near
  <1> HIDE DEF v, w
  <1>3. (2 * b - 1) * M < (2 * m) * M /\ (2 * m) * M <= (2 * b + 1) * M
    BY <1>1, <1>2
  <1>4. 2 * b - 1 < 2 * m /\ 2 * m <= 2 * b + 1
    BY <1>3, Times
  <1> QED
    BY <1>4

Along(from, to, a) == IF from < to THEN from + a ELSE from - a

\* After n steps the loop is a steps across and b steps down; one of them is n.
AfterSteps(p, q, n, s, a, b) ==
  LET dx == Size(q[1] - p[1])
      dy == Size(q[2] - p[2])
  IN /\ s.x = Along(p[1], q[1], a) /\ s.y = Along(p[2], q[2], b)
     /\ s.err = dx - dy - a * dy + b * dx
     /\ a <= dx /\ b <= dy
     /\ dx >= dy => a = n /\ (dx # 0 => Near(dx, n * dy, b * dx))
     /\ dx < dy => b = n /\ Near(dy, n * dx, a * dy)

OnLine(p, q, n, s) == \E a, b \in Nat : AfterSteps(p, q, n, s, a, b)

LEMMA Sides ==
  ASSUME NEW p, NEW q, p[1] \in Int, p[2] \in Int, q[1] \in Int, q[2] \in Int
  PROVE  LET dx == Size(q[1] - p[1])
             dy == Size(q[2] - p[2])
         IN /\ dx \in Nat /\ dy \in Nat
            /\ Steps(p, q) = IF dx >= dy THEN dx ELSE dy
            /\ Along(p[1], q[1], dx) = q[1] /\ Along(p[2], q[2], dy) = q[2]
            /\ \A a \in Nat : a < dx => Along(p[1], q[1], a) # q[1]
            /\ \A a \in Nat : a < dy => Along(p[2], q[2], a) # q[2]
  BY DEF Size, Steps, Higher, Along

LEMMA StepAlong ==
  ASSUME NEW p, NEW q, p[1] \in Int, p[2] \in Int, q[1] \in Int, q[2] \in Int,
         NEW n \in Nat, n + 1 <= Steps(p, q), NEW s, OnLine(p, q, n, s)
  PROVE  LET t == LineStep(p, q, s) IN
         OnLine(p, q, n + 1, t) /\ Steps(<<s.x, s.y>>, <<t.x, t.y>>) = 1
  <1> DEFINE dx == Size(q[1] - p[1])
             dy == Size(q[2] - p[2])
             t == LineStep(p, q, s)
             e == s.err
  <1>1. PICK a \in Nat, b \in Nat : AfterSteps(p, q, n, s, a, b)
    BY DEF OnLine
  <1>2. /\ s.x = Along(p[1], q[1], a) /\ s.y = Along(p[2], q[2], b)
        /\ e = dx - dy - a * dy + b * dx
        /\ a <= dx /\ b <= dy
        /\ dx >= dy => a = n /\ (dx # 0 => Near(dx, n * dy, b * dx))
        /\ dx < dy => b = n /\ Near(dy, n * dx, a * dy)
    BY <1>1 DEF AfterSteps
  <1>3. dx \in Nat /\ dy \in Nat /\ Steps(p, q) = IF dx >= dy THEN dx ELSE dy
    BY Sides
  <1> DEFINE a1 == IF 2 * e > -dy THEN a + 1 ELSE a
             b1 == IF 2 * e < dx THEN b + 1 ELSE b
  <1>4. /\ t.x = IF ~(2 * e > -dy) THEN s.x ELSE IF p[1] < q[1] THEN s.x + 1 ELSE s.x - 1
        /\ t.y = IF ~(2 * e < dx) THEN s.y ELSE IF p[2] < q[2] THEN s.y + 1 ELSE s.y - 1
        /\ t.err = e - (IF 2 * e > -dy THEN dy ELSE 0) + (IF 2 * e < dx THEN dx ELSE 0)
    BY DEF LineStep
  <1> HIDE DEF dx, dy, t, e
  <1>5. e \in Int
    BY <1>2, <1>3
  <1>6. t.x = Along(p[1], q[1], a1) /\ t.y = Along(p[2], q[2], b1)
    BY <1>2, <1>4 DEF Along
  <1>7. /\ (a + 1) * dy = a * dy + dy /\ (b + 1) * dx = b * dx + dx
        /\ a * dy \in Nat /\ b * dx \in Nat
    BY <1>3
  <1>8. t.err = dx - dy - a1 * dy + b1 * dx
    <2> DEFINE u == a * dy
               v == b * dx
    <2>1. u \in Nat /\ v \in Nat /\ e = dx - dy - u + v
      BY <1>2, <1>7
    <2>2. a1 * dy = (IF 2 * e > -dy THEN u + dy ELSE u) /\ b1 * dx = (IF 2 * e < dx THEN v + dx ELSE v)
      BY <1>7
    <2> HIDE DEF u, v, a1, b1
    <2> QED
      BY <1>3, <1>4, <1>5, <2>1, <2>2
  <1>9. Steps(<<s.x, s.y>>, <<t.x, t.y>>) = Higher(Size(t.x - s.x), Size(t.y - s.y))
    BY DEF Steps
  <1>10. /\ t.x - s.x \in {-1, 0, 1} /\ (2 * e > -dy => t.x - s.x \in {-1, 1})
         /\ t.y - s.y \in {-1, 0, 1} /\ (2 * e < dx => t.y - s.y \in {-1, 1})
    <2>1. s.x \in Int /\ s.y \in Int
      BY <1>2 DEF Along
    <2> QED
      BY <1>4, <2>1
  <1>11. 2 * e > -dy \/ 2 * e < dx => Steps(<<s.x, s.y>>, <<t.x, t.y>>) = 1
    <2>1. \A d \in Int : d \in {-1, 0, 1} => Size(d) = IF d = 0 THEN 0 ELSE 1
      BY DEF Size
    <2>2. Higher(1, 0) = 1 /\ Higher(0, 1) = 1 /\ Higher(1, 1) = 1
      BY DEF Higher
    <2> QED
      BY <1>9, <1>10, <2>1, <2>2
  <1>12. CASE dx >= dy
    <2>1. a = n /\ Near(dx, n * dy, b * dx) /\ n + 1 <= dx /\ e = dx - dy - n * dy + b * dx
      BY <1>2, <1>3, <1>12
    <2>2. 2 * e > -dy /\ b1 \in Nat /\ b1 <= dy /\ Near(dx, (n + 1) * dy, b1 * dx)
      BY <1>3, <1>5, <1>12, <2>1, MinorStep
    <2>3. a1 = n + 1 /\ a1 \in Nat /\ a1 <= dx
      BY <2>1, <2>2
    <2> HIDE DEF a1, b1
    <2>4. AfterSteps(p, q, n + 1, t, a1, b1)
      BY <1>3, <1>6, <1>8, <1>12, <2>2, <2>3 DEF AfterSteps, dx, dy
    <2> QED
      BY <1>11, <2>2, <2>3, <2>4 DEF OnLine, t
  <1>13. CASE dx < dy
    <2>1. b = n /\ Near(dy, n * dx, a * dy) /\ n + 1 <= dy /\ -e = dy - dx - n * dx + a * dy
      BY <1>2, <1>3, <1>5, <1>7, <1>13
    <2>2. -e \in Int /\ dx <= dy /\ (2 * (-e) > -dx <=> 2 * e < dx) /\ (2 * (-e) < dy <=> 2 * e > -dy)
      BY <1>3, <1>5, <1>13
    <2>3. 2 * e < dx /\ a1 \in Nat /\ a1 <= dx /\ Near(dy, (n + 1) * dx, a1 * dy)
      BY <1>3, <2>1, <2>2, MinorStep
    <2>4. b1 = n + 1 /\ b1 \in Nat /\ b1 <= dy
      BY <2>1, <2>3
    <2> HIDE DEF a1, b1
    <2>5. AfterSteps(p, q, n + 1, t, a1, b1)
      BY <1>3, <1>6, <1>8, <1>13, <2>3, <2>4 DEF AfterSteps, dx, dy
    <2> QED
      BY <1>11, <2>3, <2>4, <2>5 DEF OnLine, t
  <1> QED
    BY <1>3, <1>12, <1>13

\* The loop is at q after that many steps, and not before.
LEMMA AtTheEnd ==
  ASSUME NEW p, NEW q, p[1] \in Int, p[2] \in Int, q[1] \in Int, q[2] \in Int,
         NEW n \in Nat, n <= Steps(p, q), NEW s, OnLine(p, q, n, s)
  PROVE  (s.x = q[1] /\ s.y = q[2]) <=> n = Steps(p, q)
  <1> DEFINE dx == Size(q[1] - p[1])
             dy == Size(q[2] - p[2])
  <1>1. PICK a \in Nat, b \in Nat : AfterSteps(p, q, n, s, a, b)
    BY DEF OnLine
  <1>2. /\ s.x = Along(p[1], q[1], a) /\ s.y = Along(p[2], q[2], b)
        /\ a <= dx /\ b <= dy
        /\ dx >= dy => a = n /\ (dx # 0 => Near(dx, n * dy, b * dx))
        /\ dx < dy => b = n /\ Near(dy, n * dx, a * dy)
    BY <1>1 DEF AfterSteps
  <1>3. /\ dx \in Nat /\ dy \in Nat /\ Steps(p, q) = IF dx >= dy THEN dx ELSE dy
        /\ Along(p[1], q[1], dx) = q[1] /\ Along(p[2], q[2], dy) = q[2]
        /\ a < dx => Along(p[1], q[1], a) # q[1]
        /\ b < dy => Along(p[2], q[2], b) # q[2]
    BY Sides
  <1> HIDE DEF dx, dy
  <1>4. s.x = q[1] <=> a = dx
    BY <1>2, <1>3
  <1>5. s.y = q[2] <=> b = dy
    BY <1>2, <1>3
  <1>6. dx >= dy /\ n = dx => b = dy
    <2>1. CASE dx = 0
      BY <1>2, <1>3, <2>1
    <2>2. CASE dx # 0
      BY <1>2, <1>3, <2>2, NearEnd
    <2> QED
      BY <2>1, <2>2
  <1>7. dx < dy /\ n = dy => a = dx
    BY <1>2, <1>3, NearEnd
  <1> QED
    BY <1>2, <1>3, <1>4, <1>5, <1>6, <1>7

\* renderer.rs:348: from any pixel to any other the loop takes that many steps, to
\* neighbours only.
THEOREM LineReachesEnd ==
  ASSUME NEW v \in [1 .. 2 -> Int], NEW w \in [1 .. 2 -> Int]
  PROVE  ReachesEnd(PixelOf(v), PixelOf(w))
  <1> DEFINE p == PixelOf(v)
             q == PixelOf(w)
             at == LineStates(p, q)
             N == Steps(p, q)
             line == LinePixel(p, q)
  <1>1. /\ p[1] \in Int /\ p[2] \in Int /\ q[1] \in Int /\ q[2] \in Int
        /\ q = <<q[1], q[2]>>
    <2>1. \A n \in Int : Cut(n) \in Int
      BY RasterAssumption DEF Cut
    <2> QED
      BY <2>1 DEF PixelOf
  <1> HIDE DEF p, q
  <1>2. N \in Nat
    BY <1>1, Sides
  <1>3. /\ at[0] = [x |-> p[1], y |-> p[2], err |-> Size(q[1] - p[1]) - Size(q[2] - p[2])]
        /\ \A n \in 1 .. N : at[n] = LineStep(p, q, at[n - 1])
    BY <1>2, LineStatesAre
  <1> HIDE DEF at
  <1>4. line = [n \in 0 .. N |-> <<at[n].x, at[n].y>>]
    BY DEF LinePixel, at
  <1> DEFINE Reached == {n \in Nat : n <= N => OnLine(p, q, n, at[n])}
  <1>5. 0 \in Reached
    <2> DEFINE dx == Size(q[1] - p[1])
               dy == Size(q[2] - p[2])
    <2>1. dx \in Nat /\ dy \in Nat
      BY <1>1, Sides
    <2>2. at[0].x = p[1] /\ at[0].y = p[2] /\ at[0].err = dx - dy
      BY <1>3
    <2> HIDE DEF dx, dy
    <2>3. Along(p[1], q[1], 0) = p[1] /\ Along(p[2], q[2], 0) = p[2]
      BY <1>1 DEF Along
    <2>4. 0 * dx = 0 /\ 0 * dy = 0
      BY <2>1
    <2>5. (dx >= dy /\ dx # 0 => Near(dx, 0, 0)) /\ (dx < dy => Near(dy, 0, 0))
      BY <2>1 DEF Near
    <2>6. AfterSteps(p, q, 0, at[0], 0, 0)
      <3>1. dx - dy - 0 * dy + 0 * dx = dx - dy /\ 0 <= dx /\ 0 <= dy
        BY <2>1
      <3> QED
        BY <2>2, <2>3, <2>4, <2>5, <3>1 DEF AfterSteps, dx, dy
    <2> QED
      BY <2>6 DEF OnLine
  <1>6. ASSUME NEW n \in Nat \cap Reached PROVE n + 1 \in Reached
    <2>1. ASSUME n + 1 <= N PROVE OnLine(p, q, n + 1, at[n + 1])
      <3>1. OnLine(p, q, n, at[n])
        BY <1>2, <1>6, <2>1
      <3>2. n + 1 \in 1 .. N /\ (n + 1) - 1 = n
        BY <1>2, <2>1
      <3>3. at[n + 1] = LineStep(p, q, at[n])
        BY <1>3, <3>2
      <3> QED
        BY <1>1, <2>1, <3>1, <3>3, StepAlong
    <2> QED
      BY <2>1
  <1>7. \A n \in 0 .. N : OnLine(p, q, n, at[n])
    <2> HIDE DEF Reached
    <2>1. \A n \in Nat : n \in Reached
      BY <1>5, <1>6, Induction, Zenon
    <2> QED
      BY <1>2, <2>1 DEF Reached
  <1>8. DOMAIN line = 0 .. N /\ \A n \in 0 .. N : line[n] = <<at[n].x, at[n].y>>
    BY <1>4
  <1> HIDE DEF line, N
  <1>9. ASSUME NEW n \in DOMAIN line PROVE line[n] = q <=> n = N
    <2>1. n \in Nat /\ n <= N /\ OnLine(p, q, n, at[n]) /\ line[n] = <<at[n].x, at[n].y>>
      BY <1>2, <1>7, <1>8
    <2>2. (at[n].x = q[1] /\ at[n].y = q[2]) <=> n = N
      BY <1>1, <2>1, AtTheEnd DEF N
    <2>3. line[n] = q <=> (at[n].x = q[1] /\ at[n].y = q[2])
      BY <1>1, <2>1
    <2> QED
      BY <2>2, <2>3
  <1>10. ASSUME NEW n \in DOMAIN line \ {0} PROVE Steps(line[n - 1], line[n]) = 1
    <2>1. /\ n - 1 \in Nat /\ (n - 1) + 1 <= N /\ n - 1 \in 0 .. N /\ n \in 1 .. N
      BY <1>2, <1>8
    <2>2. OnLine(p, q, n - 1, at[n - 1]) /\ at[n] = LineStep(p, q, at[n - 1])
      BY <1>3, <1>7, <2>1 DEF N
    <2>3. Steps(<<at[n - 1].x, at[n - 1].y>>, <<at[n].x, at[n].y>>) = 1
      BY <1>1, <2>1, <2>2, StepAlong DEF N
    <2> QED
      BY <1>8, <2>1, <2>3
  <1> QED
    BY <1>9, <1>10, Zenon DEF ReachesEnd, p, q, N, line

-----------------------------------------------------------------------------
(* Triangles.                                                              *)

LEMMA SumOfCrosses ==
  ASSUME NEW a \in Int, NEW b \in Int, NEW c \in Int, NEW d \in Int, NEW e \in Int, NEW f \in Int
  PROVE  (b * f - c * e) * d + (c * d - a * f) * e + (a * e - b * d) * f = 0
  <1>1. /\ (b * f - c * e) * d = b * f * d - c * e * d
        /\ (c * d - a * f) * e = c * d * e - a * f * e
        /\ (a * e - b * d) * f = a * e * f - b * d * f
    OBVIOUS
  <1>2. b * f * d = b * d * f /\ c * e * d = c * d * e /\ a * f * e = a * e * f
    OBVIOUS
  <1> QED
    BY <1>1, <1>2

\* A division by SUB is a row, and that of what is turned around is the next one.
LEMMA RowOf ==
  ASSUME NEW a \in Int, NEW r \in Int
  PROVE  /\ SUB \in Nat \ {0} /\ SUB \div 2 \in Nat /\ 2 * (SUB \div 2) = SUB
         /\ a \div SUB \in Int /\ (-a) \div SUB \in Int /\ r * SUB \in Int
         /\ a \div SUB <= r <=> a < r * SUB + SUB
         /\ r <= -((-a) \div SUB) - 1 <=> r * SUB < a
  <1>1. SUB \in Nat \ {0} /\ SUB \div 2 \in Nat /\ 2 * (SUB \div 2) = SUB
    BY RasterAssumption
  <1>2. ASSUME NEW b \in Int, NEW k \in Nat \ {0}
        PROVE  b \div k \in Int /\ (b \div k) * k <= b /\ b < (b \div k) * k + k
    OBVIOUS
  <1>3. ASSUME NEW b \in Int, NEW s \in Int PROVE b \div SUB <= s <=> b < s * SUB + SUB
    <2> DEFINE d == b \div SUB
    <2>1. d \in Int /\ d * SUB <= b /\ b < d * SUB + SUB /\ d * SUB \in Int
      BY <1>1, <1>2
    <2> HIDE DEF d
    <2>2. /\ s * SUB \in Int /\ (d <= s => d * SUB <= s * SUB)
          /\ (s + 1 <= d => (s + 1) * SUB <= d * SUB) /\ (s + 1) * SUB = s * SUB + SUB
      BY <1>1, <2>1, Times
    <2> QED
      BY <1>1, <2>1, <2>2 DEF d
  <1>4. (-a) \div SUB <= -(r + 1) <=> -a < (-(r + 1)) * SUB + SUB
    BY <1>3
  <1>5. (-(r + 1)) * SUB + SUB = -(r * SUB)
    BY <1>1
  <1>6. (-a) \div SUB \in Int /\ a \div SUB \in Int /\ r * SUB \in Int
    BY <1>1, <1>2
  <1> QED
    BY <1>1, <1>3, <1>4, <1>5, <1>6

\* Rows are those with a center that is less than half a row from the heights of the
\* triangle.
LEMMA RowsAre ==
  ASSUME NEW t \in Triangle, NEW r \in Int
  PROVE  r \in Rows(t) <=> /\ \E i \in 1 .. 3 : t[i][2] < r * SUB + SUB
                           /\ \E i \in 1 .. 3 : r * SUB < t[i][2]
  <1> DEFINE ys == {t[i][2] : i \in 1 .. 3}
             first == CHOOSE y \in ys : \A z \in ys : y <= z
             last == CHOOSE y \in ys : \A z \in ys : y >= z
  <1>1. t[1][2] \in Int /\ t[2][2] \in Int /\ t[3][2] \in Int
    BY DEF Triangle, Vertex
  <1>2. ys = {t[1][2], t[2][2], t[3][2]}
    <2>1. 1 .. 3 = {1, 2, 3}
      OBVIOUS
    <2> QED
      BY <2>1, Zenon
  <1>3. (\E y \in ys : \A z \in ys : y <= z) /\ (\E y \in ys : \A z \in ys : y >= z)
    <2>1. ASSUME NEW a \in Int, NEW b \in Int, NEW c \in Int, NEW S, S = {a, b, c}
          PROVE  (\E y \in S : \A z \in S : y <= z) /\ (\E y \in S : \A z \in S : y >= z)
      BY <2>1
    <2> HIDE DEF ys
    <2> QED
      BY <1>1, <1>2, <2>1
  <1>4. /\ first \in ys /\ (\A z \in ys : first <= z)
        /\ last \in ys /\ (\A z \in ys : last >= z)
    <2> HIDE DEF ys
    <2> QED
      BY <1>3, Zenon
  <1>5. Rows(t) = first \div SUB .. -((-last) \div SUB) - 1
    BY DEF Rows
  <1>6. ys \subseteq Int
    BY <1>1, <1>2
  <1>7. \A i \in 1 .. 3 : t[i][2] \in ys
    OBVIOUS
  <1>8. \A y \in ys : \E i \in 1 .. 3 : y = t[i][2]
    OBVIOUS
  <1> HIDE DEF first, last, ys
  <1>9. first \in Int /\ last \in Int
    BY <1>4, <1>6
  <1>10. r \in Rows(t) <=> first < r * SUB + SUB /\ r * SUB < last
    <2>1. /\ first \div SUB \in Int /\ (-last) \div SUB \in Int
          /\ first \div SUB <= r <=> first < r * SUB + SUB
          /\ r <= -((-last) \div SUB) - 1 <=> r * SUB < last
      BY <1>9, RowOf
    <2> QED
      BY <1>5, <2>1
  <1> DEFINE k == r * SUB
  <1>11. k \in Int /\ SUB \in Nat
    BY RowOf
  <1> HIDE DEF k
  <1>12. first < k + SUB <=> \E y \in ys : y < k + SUB
    BY <1>4, <1>6, <1>9, <1>11
  <1>13. k < last <=> \E y \in ys : k < y
    BY <1>4, <1>6, <1>9, <1>11
  <1> QED
    BY <1>10, <1>12, <1>13, <1>7, <1>8, Zenon DEF k

\* Seen from q, a is the way to the first corner, b to the second and c to the third.
LEMMA Corners ==
  ASSUME NEW t \in Triangle, NEW q, q[1] \in Int, q[2] \in Int
  PROVE  LET c(i) == Cross(Edge(t, i), q) IN
         /\ \A i \in 1 .. 3 : c(i) \in Int
         /\ c(1) + c(2) + c(3) = Area(t) /\ Area(t) \in Int
         /\ c(1) * (t[1][2] - q[2]) + c(2) * (t[2][2] - q[2]) + c(3) * (t[3][2] - q[2]) = 0
         /\ \A i \in 1 .. 3 : Area(t) = Cross(Edge(t, i), t[i])
  <1> DEFINE c(i) == Cross(Edge(t, i), q)
  <1>1. /\ Edge(t, 1) = <<t[2], t[3]>> /\ Edge(t, 2) = <<t[3], t[1]>> /\ Edge(t, 3) = <<t[1], t[2]>>
    <2>1. 1 % 3 = 1 /\ 2 % 3 = 2 /\ 3 % 3 = 0 /\ (1 + 1) % 3 = 2 /\ (2 + 1) % 3 = 0 /\ (3 + 1) % 3 = 1
      OBVIOUS
    <2> QED
      BY <2>1 DEF Edge
  <1>2. /\ t[1][1] \in Int /\ t[2][1] \in Int /\ t[3][1] \in Int
        /\ t[1][2] \in Int /\ t[2][2] \in Int /\ t[3][2] \in Int
    BY DEF Triangle, Vertex
  <1>3. \A u, v, w : Cross(<<u, v>>, w) = (v[1] - u[1]) * (w[2] - u[2]) - (w[1] - u[1]) * (v[2] - u[2])
    BY DEF Cross
  <1> DEFINE a1 == t[1][1] - q[1]  a2 == t[1][2] - q[2]
             b1 == t[2][1] - q[1]  b2 == t[2][2] - q[2]
             d1 == t[3][1] - q[1]  d2 == t[3][2] - q[2]
  <1>4. /\ a1 \in Int /\ a2 \in Int /\ b1 \in Int /\ b2 \in Int /\ d1 \in Int /\ d2 \in Int
    BY <1>2
  \* The cross product, with one way for each of its points.
  <1>5. ASSUME NEW u1 \in Int, NEW u2 \in Int, NEW v1 \in Int, NEW v2 \in Int
        PROVE  (v1 - u1) * (-u2) - (-u1) * (v2 - u2) = u1 * v2 - v1 * u2
    <2>1. (v1 - u1) * (-u2) = u1 * u2 - v1 * u2 /\ (-u1) * (v2 - u2) = u1 * u2 - u1 * v2
      OBVIOUS
    <2> QED
      BY <2>1
  <1>6. ASSUME NEW u, NEW v, u[1] \in Int, u[2] \in Int, v[1] \in Int, v[2] \in Int
        PROVE  Cross(<<u, v>>, q) = (u[1] - q[1]) * (v[2] - q[2]) - (v[1] - q[1]) * (u[2] - q[2])
    <2> DEFINE u1 == u[1] - q[1]  u2 == u[2] - q[2]  v1 == v[1] - q[1]  v2 == v[2] - q[2]
    <2>1. v[1] - u[1] = v1 - u1 /\ q[2] - u[2] = -u2 /\ q[1] - u[1] = -u1 /\ v[2] - u[2] = v2 - u2
          /\ u1 \in Int /\ u2 \in Int /\ v1 \in Int /\ v2 \in Int
      BY <1>6
    <2>2. Cross(<<u, v>>, q) = (v1 - u1) * (-u2) - (-u1) * (v2 - u2)
      BY <1>3, <2>1
    <2> QED
      BY <1>5, <2>1, <2>2
  <1>7. c(1) = b1 * d2 - d1 * b2 /\ c(2) = d1 * a2 - a1 * d2 /\ c(3) = a1 * b2 - b1 * a2
    BY <1>1, <1>2, <1>6
  <1>8. \A i \in 1 .. 3 : c(i) \in Int
    <2>1. c(1) \in Int /\ c(2) \in Int /\ c(3) \in Int
      BY <1>4, <1>7
    <2> QED
      BY <2>1
  <1>9. c(1) * a2 + c(2) * b2 + c(3) * d2 = 0
    BY <1>4, <1>7, SumOfCrosses
  <1>10. ASSUME NEW u, NEW v, NEW w, u[1] \in Int, u[2] \in Int, v[1] \in Int, v[2] \in Int,
                w[1] \in Int, w[2] \in Int
         PROVE  /\ Cross(<<u, v>>, w) \in Int
                /\ Cross(<<u, v>>, w) = Cross(<<v, w>>, u)
    <2> DEFINE p1 == v[1] - u[1]  p2 == v[2] - u[2]  r1 == w[1] - u[1]  r2 == w[2] - u[2]
    <2>1. p1 \in Int /\ p2 \in Int /\ r1 \in Int /\ r2 \in Int
          /\ w[1] - v[1] = r1 - p1 /\ w[2] - v[2] = r2 - p2
          /\ u[2] - v[2] = -p2 /\ u[1] - v[1] = -p1
      BY <1>10
    <2>2. Cross(<<u, v>>, w) = p1 * r2 - r1 * p2
      BY <1>3
    <2>3. Cross(<<v, w>>, u) = (r1 - p1) * (-p2) - (-p1) * (r2 - p2)
      BY <1>3, <2>1
    <2> QED
      BY <1>5, <2>1, <2>2, <2>3
  <1>11. \A i \in 1 .. 3 : Area(t) = Cross(Edge(t, i), t[i])
    <2>1. Area(t) = Cross(<<t[1], t[2]>>, t[3])
      BY DEF Area
    <2>2. Area(t) = Cross(<<t[2], t[3]>>, t[1]) /\ Area(t) = Cross(<<t[3], t[1]>>, t[2])
      BY <1>2, <1>10, <2>1
    <2>3. \A i \in 1 .. 3 : i = 1 \/ i = 2 \/ i = 3
      OBVIOUS
    <2> QED
      BY <1>1, <2>1, <2>2, <2>3
  <1>12. Area(t) \in Int /\ c(1) + c(2) + c(3) = Area(t)
    <2>1. Area(t) = (t[2][1] - t[1][1]) * (t[3][2] - t[1][2]) - (t[3][1] - t[1][1]) * (t[2][2] - t[1][2])
      BY <1>3 DEF Area
    <2>2. /\ t[2][1] - t[1][1] = b1 - a1 /\ t[3][2] - t[1][2] = d2 - a2
          /\ t[3][1] - t[1][1] = d1 - a1 /\ t[2][2] - t[1][2] = b2 - a2
      BY <1>2
    <2>3. Area(t) = (b1 - a1) * (d2 - a2) - (d1 - a1) * (b2 - a2)
      BY <2>1, <2>2
    <2> HIDE DEF a1, a2, b1, b2, d1, d2, c
    <2>4. (b1 - a1) * (d2 - a2) = b1 * d2 - b1 * a2 - a1 * d2 + a1 * a2
          /\ (d1 - a1) * (b2 - a2) = d1 * b2 - d1 * a2 - a1 * b2 + a1 * a2
      BY <1>4
    <2> QED
      BY <1>4, <1>7, <2>3, <2>4
  <1> QED
    BY <1>8, <1>9, <1>11, <1>12

\* What is to the left of the rounded crossing is to the left of the crossing.
LEMMA Rounded ==
  ASSUME NEW n \in Int, NEW d \in Nat \ {0}, NEW x \in Int, NEW c, c = x * SUB + SUB \div 2
  PROVE  LET z == InPixels(<<n, d>>)
         IN /\ Floor(z) \in Int /\ (x <= Floor(z) <=> c * d <= n)
            /\ Ceiling(z) \in Int /\ (x >= Ceiling(z) <=> c * d >= n)
  <1> DEFINE h == SUB \div 2
             m == 2 * SUB * d
             a == 2 * n - SUB * d
  <1>1. SUB \in Nat \ {0} /\ h \in Nat /\ 2 * h = SUB /\ x * SUB \in Int
    BY RowOf
  <1>2. SUB * d \in Nat \ {0} /\ m \in Nat \ {0} /\ a \in Int /\ m = 2 * (SUB * d)
    <2>1. \A i \in Nat \ {0} : i * d \in Nat \ {0}
      OBVIOUS
    <2>2. SUB * d \in Nat \ {0} /\ 2 * SUB * d = 2 * (SUB * d)
      BY <1>1, <2>1
    <2> QED
      BY <2>2
  <1>3. c \in Int /\ c * d \in Int /\ x * m \in Int
    BY <1>1, <1>2
  <1>4. 2 * (c * d) = x * m + SUB * d
    <2>1. (2 * c) * d = 2 * (c * d)
      BY <1>3
    <2>2. 2 * c = (2 * x) * SUB + SUB
      BY <1>1
    <2>3. ((2 * x) * SUB + SUB) * d = ((2 * x) * SUB) * d + SUB * d
      BY <1>1
    <2>4. ((2 * x) * SUB) * d = x * m
      BY <1>1
    <2> QED
      BY <2>1, <2>2, <2>3, <2>4
  <1>5. ASSUME NEW b \in Int, NEW k \in Nat \ {0}
        PROVE  b \div k \in Int /\ (b \div k) * k <= b /\ b < (b \div k) * k + k
    OBVIOUS
  <1>6. ASSUME NEW b \in Int, NEW i \in Int, NEW k \in Nat \ {0}
        PROVE  b \div k \in Int /\ (i <= b \div k <=> i * k <= b)
    <2> DEFINE q == b \div k
    <2>1. q \in Int /\ q * k <= b /\ b < q * k + k /\ q * k \in Int
      BY <1>5
    <2> HIDE DEF q
    <2>2. /\ i * k \in Int /\ (i <= q => i * k <= q * k)
          /\ (q + 1 <= i => (q + 1) * k <= i * k) /\ (q + 1) * k = q * k + k
      BY <2>1, Times
    <2>3. i <= q <=> i * k <= b
      BY <2>1, <2>2
    <2> QED
      BY <2>1, <2>3 DEF q
  <1>7. InPixels(<<n, d>>) = <<a, m>>
    BY DEF InPixels
  <1> HIDE DEF m, a, h
  <1>8. a \div m \in Int /\ (x <= a \div m <=> x * m <= a)
    BY <1>2, <1>6
  <1>9. (-a) \div m \in Int /\ (-x <= (-a) \div m <=> (-x) * m <= -a)
    <2> DEFINE u == -a
               v == -x
    <2>1. u \in Int /\ v \in Int
      BY <1>2
    <2> HIDE DEF u, v
    <2>2. u \div m \in Int /\ (v <= u \div m <=> v * m <= u)
      BY <1>2, <1>6, <2>1
    <2> QED
      BY <2>2 DEF u, v
  <1>10. (-x) * m = -(x * m)
    BY <1>2
  <1>11. x * m <= a <=> c * d <= n
    BY <1>2, <1>3, <1>4 DEF a
  <1>12. (-x) * m <= -a <=> c * d >= n
    BY <1>2, <1>3, <1>4, <1>10 DEF a
  <1>13. Floor(<<a, m>>) = a \div m /\ Ceiling(<<a, m>>) = -((-a) \div m)
    BY DEF Floor, Ceiling
  <1>14. x >= -((-a) \div m) <=> -x <= (-a) \div m
    BY <1>9
  <1> QED
    BY <1>7, <1>8, <1>9, <1>11, <1>12, <1>13, <1>14

\* A bound of a row is that of the edge and the bound before it.
LEMMA BoundIsEdge ==
  ASSUME NEW e, e[1][1] \in Int, e[1][2] \in Int, e[2][1] \in Int, e[2][2] \in Int,
         NEW p, p[1] \in Int, p[2] \in Int, NEW x \in Int
  PROVE  /\ LeftBound(e, p[2], x) \in Int /\ RightBound(e, p[2], x) \in Int
         /\ LeftBound(e, p[2], x) <= p[1] <=>
              x <= p[1] /\ (e[2][2] < e[1][2] => Cross(e, Center(p)) >= 0)
         /\ p[1] <= RightBound(e, p[2], x) <=>
              p[1] <= x /\ (e[2][2] > e[1][2] => Cross(e, Center(p)) >= 0)
  <1> DEFINE h == SUB \div 2
             c == p[1] * SUB + h
             v == (p[2] * SUB + h) - e[1][2]
             w == e[2][1] - e[1][1]
             d == e[2][2] - e[1][2]
             n == e[1][1] * d + w * v
             z == InPixels(MeetsRow(e, p[2]))
  <1>1. SUB \in Nat \ {0} /\ h \in Nat /\ p[1] * SUB \in Int /\ p[2] * SUB \in Int
    BY RowOf
  <1>2. /\ c \in Int /\ v \in Int /\ w \in Int /\ d \in Int
        /\ c = p[1] * SUB + SUB \div 2
    BY <1>1
  <1>3. w * v \in Int /\ e[1][1] * d \in Int /\ c * d \in Int /\ n \in Int
    BY <1>2
  <1>4. Cross(e, Center(p)) = n - c * d
    <2>1. Center(p)[1] = c /\ Center(p)[2] - e[1][2] = v
      <3> DEFINE b == p[2] * SUB + h
      <3>1. Center(p) = <<c, b>>
        BY Zenon DEF Center
      <3>2. v = b - e[1][2]
        BY Zenon
      <3> HIDE DEF c, b, v
      <3> QED
        BY <3>1, <3>2
    <2>2. Cross(e, Center(p)) = w * v - (c - e[1][1]) * d
      BY <2>1 DEF Cross
    <2>3. (c - e[1][1]) * d = c * d - e[1][1] * d
      BY <1>2
    <2> QED
      BY <1>3, <2>2, <2>3
  <1>5. MeetsRow(e, p[2]) = IF d > 0 THEN <<n, d>> ELSE <<-n, -d>>
    BY DEF MeetsRow
  <1>6. d > 0 => Floor(z) \in Int /\ (p[1] <= Floor(z) <=> c * d <= n)
    <2> SUFFICES ASSUME d > 0 PROVE Floor(z) \in Int /\ (p[1] <= Floor(z) <=> c * d <= n)
      OBVIOUS
    <2>1. d \in Nat \ {0} /\ MeetsRow(e, p[2]) = <<n, d>>
      BY <1>2, <1>5
    <2> HIDE DEF n, d, c
    <2>2. LET f == Floor(InPixels(<<n, d>>)) IN f \in Int /\ (p[1] <= f <=> c * d <= n)
      BY <1>2, <1>3, <2>1, Rounded
    <2> QED
      BY <2>1, <2>2, Zenon
  <1>7. d < 0 => Ceiling(z) \in Int /\ (p[1] >= Ceiling(z) <=> c * (-d) >= -n)
    <2> SUFFICES ASSUME d < 0
                 PROVE  Ceiling(z) \in Int /\ (p[1] >= Ceiling(z) <=> c * (-d) >= -n)
      OBVIOUS
    <2>1. -d \in Nat \ {0} /\ -n \in Int /\ MeetsRow(e, p[2]) = <<-n, -d>>
      BY <1>2, <1>3, <1>5
    <2> DEFINE m == -n
               k == -d
    <2>2. m \in Int /\ k \in Nat \ {0}
      BY <2>1
    <2> HIDE DEF n, d, m, k, c
    <2>3. LET f == Ceiling(InPixels(<<m, k>>)) IN f \in Int /\ (p[1] >= f <=> c * k >= m)
      BY <1>2, <2>2, Rounded
    <2>4. MeetsRow(e, p[2]) = <<m, k>>
      BY <2>1 DEF m, k
    <2>5. Ceiling(z) \in Int /\ (p[1] >= Ceiling(z) <=> c * k >= m)
      BY <2>3, <2>4, Zenon
    <2> QED
      BY <2>5 DEF m, k
  <1>8. c * (-d) = -(c * d)
    BY <1>2
  <1>9. (e[2][2] < e[1][2] <=> d < 0) /\ (e[2][2] > e[1][2] <=> d > 0)
    OBVIOUS
  <1>10. /\ LeftBound(e, p[2], x) = IF d < 0 THEN Higher(x, Ceiling(z)) ELSE x
         /\ RightBound(e, p[2], x) = IF d > 0 THEN Lower(x, Floor(z)) ELSE x
    BY <1>9 DEF LeftBound, RightBound
  <1> HIDE DEF z, n, c, d
  <1>11. \A a, b \in Int : /\ Higher(a, b) \in Int /\ Lower(a, b) \in Int
                           /\ Higher(a, b) <= p[1] <=> a <= p[1] /\ b <= p[1]
                           /\ p[1] <= Lower(a, b) <=> p[1] <= a /\ p[1] <= b
    BY DEF Higher, Lower
  <1>12. CASE d < 0
    <2>1. /\ Higher(x, Ceiling(z)) \in Int
          /\ Higher(x, Ceiling(z)) <= p[1] <=> x <= p[1] /\ Ceiling(z) <= p[1]
      BY <1>7, <1>11, <1>12
    <2>2. Ceiling(z) <= p[1] <=> c * d <= n
      BY <1>3, <1>7, <1>8, <1>12
    <2>3. ~(d > 0)
      BY <1>2, <1>12
    <2>4. c * d <= n <=> Cross(e, Center(p)) >= 0
      BY <1>3, <1>4
    <2> QED
      BY <1>9, <1>10, <1>12, <2>1, <2>2, <2>3, <2>4
  <1>13. CASE d > 0
    <2>1. /\ Lower(x, Floor(z)) \in Int
          /\ p[1] <= Lower(x, Floor(z)) <=> p[1] <= x /\ p[1] <= Floor(z)
      BY <1>6, <1>11, <1>13
    <2>2. ~(d < 0)
      BY <1>2, <1>13
    <2>3. c * d <= n <=> Cross(e, Center(p)) >= 0
      BY <1>3, <1>4
    <2> QED
      BY <1>6, <1>9, <1>10, <1>13, <2>1, <2>2, <2>3
  <1>14. CASE d = 0
    BY <1>9, <1>10, <1>14
  <1> QED
    BY <1>2, <1>12, <1>13, <1>14

\* A row is drawn between the edges that bound it: the scanline and the half-plane
\* test agree.
LEMMA RowIsBetweenEdges ==
  ASSUME NEW t \in Triangle, NEW p, p[1] \in Int, p[2] \in Int
  PROVE  p[1] \in xi_left(t, p[2]) .. xi_right(t, p[2]) <=>
           /\ 0 <= p[1] /\ p[1] <= WIDTH - 1
           /\ \A i \in 1 .. 3 : Edge(t, i)[1][2] # Edge(t, i)[2][2]
                                  => Cross(Edge(t, i), Center(p)) >= 0
  <1> DEFINE e(i) == Edge(t, i)
             y == p[2]
             In(i) == Cross(e(i), Center(p)) >= 0
             up(i) == e(i)[2][2] < e(i)[1][2]
             down(i) == e(i)[2][2] > e(i)[1][2]
  <1>1. \A i \in 1 .. 3 : /\ e(i)[1][1] \in Int /\ e(i)[1][2] \in Int
                          /\ e(i)[2][1] \in Int /\ e(i)[2][2] \in Int
    <2>1. e(1) = <<t[2], t[3]>> /\ e(2) = <<t[3], t[1]>> /\ e(3) = <<t[1], t[2]>>
      <3>1. 1 % 3 = 1 /\ 2 % 3 = 2 /\ 3 % 3 = 0 /\ (1 + 1) % 3 = 2 /\ (2 + 1) % 3 = 0
            /\ (3 + 1) % 3 = 1
        OBVIOUS
      <3> QED
        BY <3>1 DEF Edge
    <2>2. \A j, k \in 1 .. 3 : t[j][k] \in Int
      BY DEF Triangle, Vertex
    <2>3. \A i \in 1 .. 3 : i = 1 \/ i = 2 \/ i = 3
      OBVIOUS
    <2> QED
      BY <2>1, <2>2, <2>3
  <1>2. \A i \in 1 .. 3, x \in Int :
          /\ LeftBound(e(i), y, x) \in Int /\ RightBound(e(i), y, x) \in Int
          /\ LeftBound(e(i), y, x) <= p[1] <=> x <= p[1] /\ (up(i) => In(i))
          /\ p[1] <= RightBound(e(i), y, x) <=> p[1] <= x /\ (down(i) => In(i))
    BY <1>1, BoundIsEdge
  <1>3. \A i \in 1 .. 3 : e(i)[1][2] # e(i)[2][2] <=> up(i) \/ down(i)
    BY <1>1
  <1> DEFINE l1 == LeftBound(e(1), y, 0)
             l2 == LeftBound(e(2), y, l1)
             r1 == RightBound(e(1), y, WIDTH - 1)
             r2 == RightBound(e(2), y, r1)
  <1>4. xi_left(t, y) = LeftBound(e(3), y, l2) /\ xi_right(t, y) = RightBound(e(3), y, r2)
    BY DEF xi_left, xi_right
  <1>5. WIDTH - 1 \in Int /\ 0 \in Int /\ 1 \in 1 .. 3 /\ 2 \in 1 .. 3 /\ 3 \in 1 .. 3
    BY RasterAssumption
  <1> HIDE DEF e, In, up, down
  <1>6. /\ l1 \in Int /\ (l1 <= p[1] <=> 0 <= p[1] /\ (up(1) => In(1)))
        /\ r1 \in Int /\ (p[1] <= r1 <=> p[1] <= WIDTH - 1 /\ (down(1) => In(1)))
    BY <1>2, <1>5
  <1> HIDE DEF l1, r1
  <1>7. /\ l2 \in Int /\ (l2 <= p[1] <=> l1 <= p[1] /\ (up(2) => In(2)))
        /\ r2 \in Int /\ (p[1] <= r2 <=> p[1] <= r1 /\ (down(2) => In(2)))
    BY <1>2, <1>5, <1>6
  <1> HIDE DEF l2, r2
  <1>8. /\ xi_left(t, y) \in Int /\ (xi_left(t, y) <= p[1] <=> l2 <= p[1] /\ (up(3) => In(3)))
        /\ xi_right(t, y) \in Int /\ (p[1] <= xi_right(t, y) <=> p[1] <= r2 /\ (down(3) => In(3)))
    BY <1>2, <1>4, <1>5, <1>7
  <1>9. p[1] \in xi_left(t, y) .. xi_right(t, y) <=>
          xi_left(t, y) <= p[1] /\ p[1] <= xi_right(t, y)
    BY <1>8
  <1>10. (\A i \in 1 .. 3 : e(i)[1][2] # e(i)[2][2] => In(i)) <=>
           /\ (up(1) => In(1)) /\ (up(2) => In(2)) /\ (up(3) => In(3))
           /\ (down(1) => In(1)) /\ (down(2) => In(2)) /\ (down(3) => In(3))
    <2>1. \A i \in 1 .. 3 : i = 1 \/ i = 2 \/ i = 3
      OBVIOUS
    <2> QED
      BY <1>3, <1>5, <2>1, Zenon
  <1>11. p[1] \in xi_left(t, y) .. xi_right(t, y) <=>
           /\ 0 <= p[1] /\ p[1] <= WIDTH - 1
           /\ \A i \in 1 .. 3 : e(i)[1][2] # e(i)[2][2] => In(i)
    BY <1>6, <1>7, <1>8, <1>9, <1>10
  <1> QED
    BY <1>11 DEF e, In

\* fill_triangle leaves no gap and stays in the triangle, but for half a row beside an
\* edge that is level.
THEOREM TriangleCovered ==
  ASSUME NEW t \in Triangle, NEW clip \in Rectangle
  PROVE  CoversTriangle(t, clip)
  <1>1. ASSUME NEW p \in Pixels(FramebufferRect)
        PROVE  /\ IsIn(t, p) /\ Area(t) > 0 /\ p \in Pixels(clip) => p \in TrianglePixels(t, clip)
               /\ p \in TrianglePixels(t, clip) =>
                    p \in Pixels(clip) /\ (IsIn(t, p) \/ BesideLevelEdge(t, p))
    <2> DEFINE q == Center(p)
               r == p[2]
               h == SUB \div 2
               c(i) == Cross(Edge(t, i), q)
               y(i) == t[i][2]
    <2>1. p[1] \in Int /\ r \in Int
      BY <1>1, RasterAssumption DEF Pixels, FramebufferRect, Rect
    <2>2. SUB \in Nat \ {0} /\ h \in Nat /\ 2 * h = SUB /\ r * SUB \in Int
      BY <2>1, RowOf
    <2>3. q[1] \in Int /\ q[2] = r * SUB + h /\ q[2] \in Int
      BY <2>1, <2>2 DEF Center
    <2>4. y(1) \in Int /\ y(2) \in Int /\ y(3) \in Int
      BY DEF Triangle, Vertex
    <2>5. r \in Rows(t) <=> /\ \E i \in 1 .. 3 : y(i) < r * SUB + SUB
                            /\ \E i \in 1 .. 3 : r * SUB < y(i)
      BY <2>1, RowsAre
    <2>6. /\ c(1) \in Int /\ c(2) \in Int /\ c(3) \in Int
          /\ c(1) + c(2) + c(3) = Area(t) /\ Area(t) \in Int
          /\ c(1) * (y(1) - q[2]) + c(2) * (y(2) - q[2]) + c(3) * (y(3) - q[2]) = 0
          /\ \A i \in 1 .. 3 : Area(t) = Cross(Edge(t, i), t[i])
      BY <2>3, Corners
    <2>7. p \in Pixels(Intersection(clip, FramebufferRect)) <=> p \in Pixels(clip)
      <3>1. FramebufferRect \in Rectangle
        BY RasterAssumption DEF FramebufferRect, Rect, Rectangle
      <3>2. Pixels(Intersection(clip, FramebufferRect)) = Pixels(clip) \cap Pixels(FramebufferRect)
        BY <3>1, InBoth
      <3> QED
        BY <1>1, <3>2, Zenon
    <2>8. p \in TrianglePixels(t, clip) <=>
            /\ p \in Pixels(clip) /\ Area(t) > 0 /\ r \in Rows(t)
            /\ \A i \in 1 .. 3 : Edge(t, i)[1][2] # Edge(t, i)[2][2] => c(i) >= 0
      <3>1. 0 <= p[1] /\ p[1] <= WIDTH - 1
        BY <1>1, <2>1, RasterAssumption DEF Pixels, FramebufferRect, Rect
      <3>2. p[1] \in xi_left(t, r) .. xi_right(t, r) <=>
              \A i \in 1 .. 3 : Edge(t, i)[1][2] # Edge(t, i)[2][2] => c(i) >= 0
        BY <2>1, <3>1, RowIsBetweenEdges
      <3>3. p \in TrianglePixels(t, clip) <=>
              /\ p \in Pixels(Intersection(clip, FramebufferRect))
              /\ Area(t) > 0 /\ r \in Rows(t) /\ p[1] \in xi_left(t, r) .. xi_right(t, r)
        BY DEF TrianglePixels
      <3> HIDE DEF c, q
      <3> QED
        BY <2>7, <3>2, <3>3
    <2>9. IsIn(t, p) <=> \A i \in 1 .. 3 : c(i) >= 0
      BY DEF IsIn
    <2>10. ASSUME IsIn(t, p), Area(t) > 0 PROVE r \in Rows(t)
      <3>1. c(1) >= 0 /\ c(2) >= 0 /\ c(3) >= 0
        BY <2>9, <2>10
      <3> HIDE DEF q, c, y, h, r
      <3>2. ASSUME NEW a \in Nat, NEW b \in Nat, NEW d \in Nat, a + b + d > 0,
                   NEW u \in Int, NEW v \in Int, NEW w \in Int, a * u + b * v + d * w = 0
            PROVE  ~(u > 0 /\ v > 0 /\ w > 0) /\ ~(u < 0 /\ v < 0 /\ w < 0)
        <4>1. \A m \in Nat, n \in Int : /\ m * n \in Int
                                        /\ n > 0 => m * n >= m
                                        /\ n < 0 => m * n <= -m
          <5> SUFFICES ASSUME NEW m \in Nat, NEW n \in Int
                       PROVE  m * n \in Int /\ (n > 0 => m * n >= m) /\ (n < 0 => m * n <= -m)
            OBVIOUS
          <5>1. n > 0 => m * (n - 1) >= 0 /\ m * (n - 1) = m * n - m
            OBVIOUS
          <5>2. n < 0 => m * (-n - 1) >= 0 /\ m * (-n - 1) = -(m * n) - m
            OBVIOUS
          <5> QED
            BY <5>1, <5>2
        <4>2. /\ a * u \in Int /\ b * v \in Int /\ d * w \in Int
              /\ u > 0 => a * u >= a
              /\ v > 0 => b * v >= b
              /\ w > 0 => d * w >= d
              /\ u < 0 => a * u <= -a
              /\ v < 0 => b * v <= -b
              /\ w < 0 => d * w <= -d
          BY <4>1
        <4> DEFINE A == a * u  B == b * v  D == d * w
        <4> HIDE DEF A, B, D
        <4> QED
          BY <3>2, <4>2 DEF A, B, D
      <3>3. /\ c(1) \in Nat /\ c(2) \in Nat /\ c(3) \in Nat /\ c(1) + c(2) + c(3) > 0
            /\ y(1) - q[2] \in Int /\ y(2) - q[2] \in Int /\ y(3) - q[2] \in Int
        BY <2>3, <2>4, <2>6, <2>10, <3>1
      <3>4. /\ y(1) <= q[2] \/ y(2) <= q[2] \/ y(3) <= q[2]
            /\ y(1) >= q[2] \/ y(2) >= q[2] \/ y(3) >= q[2]
        <4>1. /\ ~(y(1) - q[2] > 0 /\ y(2) - q[2] > 0 /\ y(3) - q[2] > 0)
              /\ ~(y(1) - q[2] < 0 /\ y(2) - q[2] < 0 /\ y(3) - q[2] < 0)
          BY <2>6, <3>2, <3>3
        <4> QED
          BY <2>3, <2>4, <4>1
      <3>5. h > 0 /\ h < SUB
        BY <2>2
      <3>6. 1 \in 1 .. 3 /\ 2 \in 1 .. 3 /\ 3 \in 1 .. 3
        OBVIOUS
      <3>7. \A i \in 1 .. 3 : /\ y(i) <= q[2] => y(i) < r * SUB + SUB
                              /\ y(i) >= q[2] => r * SUB < y(i)
        <4>1. \A i \in 1 .. 3 : y(i) \in Int
          BY <2>4
        <4> QED
          BY <2>2, <2>3, <3>5, <4>1
      <3> QED
        BY <2>5, <3>4, <3>6, <3>7
    <2>11. ASSUME p \in TrianglePixels(t, clip), ~IsIn(t, p) PROVE BesideLevelEdge(t, p)
      <3>1. PICK i \in 1 .. 3 : ~(c(i) >= 0)
        BY <2>9, <2>11
      <3> DEFINE e == Edge(t, i)
                 w == e[2][1] - e[1][1]
      <3>2. e[1][2] = e[2][2] /\ Area(t) > 0 /\ r \in Rows(t)
        BY <2>8, <2>11, <3>1
      <3>3. /\ e[1][1] \in Int /\ e[1][2] \in Int /\ e[2][1] \in Int /\ e[2][2] \in Int
            /\ t[i][1] \in Int /\ y(i) \in Int
            /\ \A j \in 1 .. 3 : y(j) = y(i) \/ y(j) = e[1][2]
        <4>1. /\ Edge(t, 1) = <<t[2], t[3]>> /\ Edge(t, 2) = <<t[3], t[1]>> /\ Edge(t, 3) = <<t[1], t[2]>>
          <5>1. 1 % 3 = 1 /\ 2 % 3 = 2 /\ 3 % 3 = 0 /\ (1 + 1) % 3 = 2 /\ (2 + 1) % 3 = 0
                /\ (3 + 1) % 3 = 1
            OBVIOUS
          <5> QED
            BY <5>1 DEF Edge
        <4>2. \A j, k \in 1 .. 3 : t[j][k] \in Int
          BY DEF Triangle, Vertex
        <4>3. i = 1 \/ i = 2 \/ i = 3
          OBVIOUS
        <4>4. e[1][2] = e[2][2]
          BY <3>2
        <4> QED
          BY <4>1, <4>2, <4>3, <4>4
      <3>4. c(i) = w * (q[2] - e[1][2]) /\ Area(t) = w * (y(i) - e[1][2])
        <4>1. ASSUME NEW s, s[1] \in Int, s[2] \in Int PROVE Cross(e, s) = w * (s[2] - e[1][2])
          <5>1. e[2][2] - e[1][2] = 0
            BY <3>2, <3>3
          <5>2. (s[1] - e[1][1]) * 0 = 0 /\ w * (s[2] - e[1][2]) \in Int
            BY <3>3, <4>1
          <5> QED
            BY <5>1, <5>2 DEF Cross
        <4> QED
          BY <2>3, <2>6, <3>3, <4>1
      <3> DEFINE f == e[1][2]
      <3>5. w \in Int /\ f \in Int
        BY <3>3
      <3>6. w * (q[2] - f) < 0 /\ w * (y(i) - f) > 0
        <4>1. c(i) \in Int
          BY <2>6
        <4> QED
          BY <3>1, <3>2, <3>4, <4>1
      <3> HIDE DEF q, c, y, h, r, w, f, e
      <3>7. (q[2] < f /\ f < y(i)) \/ (q[2] > f /\ f > y(i))
        <4>1. \A a, b, d \in Int : a * b < 0 /\ a * d > 0 => (b < 0 /\ d > 0) \/ (b > 0 /\ d < 0)
          <5>1. \A a, b \in Int : /\ a >= 0 /\ b >= 0 => a * b >= 0
                                  /\ a <= 0 /\ b <= 0 => a * b >= 0
                                  /\ a >= 0 /\ b <= 0 => a * b <= 0
                                  /\ a <= 0 /\ b >= 0 => a * b <= 0
                                  /\ a * b \in Int
            OBVIOUS
          <5> QED
            BY <5>1
        <4>2. q[2] - f \in Int /\ y(i) - f \in Int
          BY <2>3, <3>3, <3>5
        <4>3. (q[2] - f < 0 /\ y(i) - f > 0) \/ (q[2] - f > 0 /\ y(i) - f < 0)
          BY <3>5, <3>6, <4>1, <4>2
        <4> QED
          BY <2>3, <3>3, <3>5, <4>3
      <3>8. 2 * Size(f - q[2]) < SUB
        <4>1. CASE q[2] < f /\ f < y(i)
          <5>1. f < r * SUB + SUB
            BY <2>2, <2>5, <3>2, <3>3, <3>5, <4>1 DEF f
          <5> QED
            BY <2>2, <2>3, <3>5, <4>1, <5>1 DEF Size
        <4>2. CASE q[2] > f /\ f > y(i)
          <5>1. r * SUB < f
            BY <2>2, <2>5, <3>2, <3>3, <3>5, <4>2 DEF f
          <5> QED
            BY <2>2, <2>3, <3>5, <4>2, <5>1 DEF Size
        <4> QED
          BY <3>7, <4>1, <4>2
      <3> QED
        BY <3>2, <3>8 DEF BesideLevelEdge, f, q, e
    <2> QED
      BY <2>8, <2>9, <2>10, <2>11
  <1> QED
    BY <1>1 DEF CoversTriangle

-----------------------------------------------------------------------------
(* The depth test.                                                         *)

\* Rationals with a positive denominator.
Fraction == {z \in Int \X Int : z[2] > 0}

\* What is not nearer than something is farther than what that is farther than.
LEMMA FartherThanBoth ==
  ASSUME NEW x \in Fraction, NEW y \in Fraction, NEW z \in Fraction,
         ~Farther(y, x), Farther(y, z)
  PROVE  Farther(x, z) /\ ~Farther(z, x)
  <1>1. ASSUME NEW a \in Int, NEW b \in Nat \ {0}, NEW c \in Int, NEW d \in Nat \ {0},
               NEW e \in Int, NEW f \in Nat \ {0}, a * d <= c * b, c * f < e * d
        PROVE  a * f < e * b
    <2>1. /\ a * d \in Int /\ c * b \in Int /\ c * f \in Int /\ e * d \in Int
          /\ a * f \in Int /\ e * b \in Int
      OBVIOUS
    <2>2. (a * d) * f <= (c * b) * f
      BY <1>1, <2>1, Times
    <2>3. (c * f) * b < (e * d) * b
      BY <1>1, <2>1, Times
    <2>4. (a * d) * f = (a * f) * d /\ (c * b) * f = (c * f) * b /\ (e * d) * b = (e * b) * d
      OBVIOUS
    <2>5. (a * f) * d < (e * b) * d
      <3> DEFINE A == (a * d) * f
                 B == (c * b) * f
                 C == (e * d) * b
      <3>1. A \in Int /\ B \in Int /\ C \in Int
        OBVIOUS
      <3>2. A <= B /\ B < C
        BY <2>2, <2>3, <2>4
      <3> HIDE DEF A, B, C
      <3>3. A < C
        BY <3>1, <3>2
      <3> QED
        BY <2>4, <3>3 DEF A, C
    <2> QED
      BY <2>1, <2>5, Times
  <1>2. \A w \in Fraction : w[1] \in Int /\ w[2] \in Nat \ {0}
    BY DEF Fraction
  <1>3. x[1] * y[2] <= y[1] * x[2] /\ y[1] * z[2] < z[1] * y[2]
    BY <1>2 DEF Farther
  <1>4. x[1] * z[2] < z[1] * x[2]
    BY <1>1, <1>2, <1>3
  <1>5. x[1] * z[2] \in Int /\ z[1] * x[2] \in Int
    BY <1>2
  <1> QED
    BY <1>4, <1>5 DEF Farther

\* The frames are what their recursive definition says.
LEMMA FramesAre ==
  ASSUME NEW ts, Len(ts) \in Nat, NEW clip
  PROVE  /\ Frames(ts, clip)[0] = Cleared(<<>>)
         /\ \A n \in 1 .. Len(ts) :
              Frames(ts, clip)[n] = FillTriangle(Frames(ts, clip)[n - 1], ts[n], ts[n], clip)
  <1> DEFINE Drawn1(f, i) ==
               IF i = 0 THEN Cleared(<<>>) ELSE FillTriangle(f[i - 1], ts[i], ts[i], clip)
             Upto(f, n) == f = [i \in 0 .. n |-> Drawn1(f, i)]
             Drawable == {n \in Nat : \E f : Upto(f, n)}
  <1>1. 0 \in Drawable
    <2> DEFINE f == [i \in 0 .. 0 |-> Cleared(<<>>)]
    <2>1. Upto(f, 0)
      OBVIOUS
    <2> QED
      BY <2>1
  <1>2. ASSUME NEW n \in Nat \cap Drawable PROVE n + 1 \in Drawable
    <2>1. PICK f : Upto(f, n)
      OBVIOUS
    <2> DEFINE g == [i \in 0 .. n + 1 |->
                       IF i <= n THEN f[i] ELSE FillTriangle(f[n], ts[i], ts[i], clip)]
    <2>2. \A i \in 0 .. n : f[i] = Drawn1(f, i)
      BY <2>1
    <2>3. \A i \in 0 .. n : g[i] = Drawn1(g, i)
      BY <2>2
    <2>4. g[n + 1] = Drawn1(g, n + 1)
      OBVIOUS
    <2>5. \A i \in 0 .. n + 1 : g[i] = Drawn1(g, i)
      <3>1. \A i \in 0 .. n + 1 : i \in 0 .. n \/ i = n + 1
        OBVIOUS
      <3> QED
        BY <2>3, <2>4, <3>1, Zenon
    <2>6. g = [i \in 0 .. n + 1 |-> g[i]]
      BY Zenon
    <2> HIDE DEF g
    <2>7. Upto(g, n + 1)
      BY <2>5, <2>6
    <2>8. n + 1 \in Nat
      OBVIOUS
    <2> QED
      BY <2>7, <2>8, Zenon
  <1>3. \E f : Upto(f, Len(ts))
    <2> HIDE DEF Drawable
    <2>1. Len(ts) \in Drawable
      BY <1>1, <1>2, Induction, Zenon
    <2> QED
      BY <2>1 DEF Drawable
  <1>4. Frames(ts, clip) = CHOOSE f : Upto(f, Len(ts))
    BY DEF Frames
  <1>5. Upto(Frames(ts, clip), Len(ts))
    BY <1>3, <1>4
  <1> QED
    BY <1>5

\* A depth is a number where the triangle is drawn.
LEMMA DepthIsNumber ==
  ASSUME NEW t \in Triangle, NEW clip, NEW p \in Pixels(FramebufferRect), p \in TrianglePixels(t, clip)
  PROVE  DepthAt(t, p) \in Fraction
  <1>1. \A i \in 1 .. 3, j \in 1 .. 3 : t[i][j] \in Int
    BY DEF Triangle, Vertex
  <1>2. p[1] \in Int /\ p[2] \in Int
    BY RasterAssumption DEF Pixels, FramebufferRect, Rect
  <1>3. Center(p)[1] \in Int /\ Center(p)[2] \in Int
    BY <1>2, RasterAssumption DEF Center
  <1>4. \A a, b, q : a[1] \in Int /\ a[2] \in Int /\ b[1] \in Int /\ b[2] \in Int
                     /\ q[1] \in Int /\ q[2] \in Int => Cross(<<a, b>>, q) \in Int
    BY DEF Cross
  <1>5. Area(t) \in Int /\ Area(t) > 0
    BY <1>1, <1>4 DEF Area, TrianglePixels
  <1>6. /\ Edge(t, 1) = <<t[2], t[3]>> /\ Edge(t, 2) = <<t[3], t[1]>> /\ Edge(t, 3) = <<t[1], t[2]>>
    <2>1. 1 % 3 = 1 /\ 2 % 3 = 2 /\ 3 % 3 = 0 /\ (1 + 1) % 3 = 2 /\ (2 + 1) % 3 = 0 /\ (3 + 1) % 3 = 1
      OBVIOUS
    <2> QED
      BY <2>1 DEF Edge
  <1>7. \A i \in 1 .. 3 : Cross(Edge(t, i), Center(p)) \in Int
    BY <1>1, <1>3, <1>4, <1>6
  <1> QED
    BY <1>1, <1>5, <1>7 DEF DepthAt, Fraction

\* Some of the triangles ts[1] .. ts[n] are seen at p, in front of nothing.
Over(ts, n, p, clip) ==
  {t \in {ts[i] : i \in 1 .. n} : p \in TrianglePixels(t, clip) /\ Farther(<<0, 1>>, DepthAt(t, p))}

\* What pixel p of frame f shows after n triangles.
Shows(f, ts, n, p, clip) ==
  /\ f[p].z \in Fraction /\ ~Farther(f[p].z, <<0, 1>>)
  /\ \A t \in Over(ts, n, p, clip) : ~Farther(f[p].z, DepthAt(t, p))
  /\ IF Over(ts, n, p, clip) = {} THEN f[p].color = <<>> /\ f[p].z = <<0, 1>>
     ELSE f[p].color \in Over(ts, n, p, clip) /\ f[p].z = DepthAt(f[p].color, p)

LEMMA OneMore ==
  ASSUME NEW ts \in Seq(Triangle), NEW n \in Nat, n + 1 \in 1 .. Len(ts), NEW clip, NEW f,
         NEW p \in Pixels(FramebufferRect), p \in DOMAIN f, Shows(f, ts, n, p, clip)
  PROVE  Shows(FillTriangle(f, ts[n + 1], ts[n + 1], clip), ts, n + 1, p, clip)
  <1> DEFINE t == ts[n + 1]
             g == FillTriangle(f, t, t, clip)
             A == Over(ts, n, p, clip)
             B == Over(ts, n + 1, p, clip)
             Is(u) == p \in TrianglePixels(u, clip) /\ Farther(<<0, 1>>, DepthAt(u, p))
             draws == p \in TrianglePixels(t, clip) /\ Farther(f[p].z, DepthAt(t, p))
  <1>1. t \in Triangle /\ \A i \in 1 .. n : ts[i] \in Triangle
    OBVIOUS
  <1>2. \A u : u \in B <=> u \in A \/ (u = t /\ Is(t))
    <2>1. \A i : i \in 1 .. n + 1 <=> i \in 1 .. n \/ i = n + 1
      OBVIOUS
    <2>2. \A u : u \in {ts[i] : i \in 1 .. n + 1} <=> u \in {ts[i] : i \in 1 .. n} \/ u = t
      BY <2>1
    <2> HIDE DEF t
    <2> QED
      BY <2>2, Zenon DEF Over
  <1>3. \A u \in B : u \in Triangle /\ p \in TrianglePixels(u, clip) /\ DepthAt(u, p) \in Fraction
    <2>1. \A u \in B : u \in {ts[i] : i \in 1 .. n + 1} /\ p \in TrianglePixels(u, clip)
      BY Zenon DEF Over
    <2>2. \A i \in 1 .. n + 1 : ts[i] \in Triangle
      OBVIOUS
    <2>3. \A u \in B : u \in Triangle
      BY <2>1, <2>2
    <2> QED
      BY <2>1, <2>3, DepthIsNumber
  <1>4. /\ f[p].z \in Fraction /\ ~Farther(f[p].z, <<0, 1>>)
        /\ \A u \in A : ~Farther(f[p].z, DepthAt(u, p))
        /\ A = {} => f[p].color = <<>> /\ f[p].z = <<0, 1>>
        /\ A # {} => f[p].color \in A /\ f[p].z = DepthAt(f[p].color, p)
    BY Zenon DEF Shows
  <1>5. <<0, 1>> \in Fraction
    BY DEF Fraction
  <1>6. g[p] = IF draws THEN [z |-> DepthAt(t, p), color |-> t] ELSE f[p]
    BY DEF FillTriangle
  <1>7. CASE draws
    <2>1. g[p].z = DepthAt(t, p) /\ g[p].color = t
      BY <1>6, <1>7
    <2>2. DepthAt(t, p) \in Fraction
      BY <1>1, <1>7, DepthIsNumber
    <2>3. ~Farther(f[p].z, <<0, 1>>) /\ Farther(f[p].z, DepthAt(t, p))
      BY <1>4, <1>7
    <2> HIDE DEF t, g, A, B
    <2>4. Farther(<<0, 1>>, DepthAt(t, p)) /\ ~Farther(DepthAt(t, p), <<0, 1>>)
      BY <1>4, <1>5, <2>2, <2>3, FartherThanBoth
    <2>5. t \in B
      BY <1>2, <1>7, <2>4
    <2>6. ASSUME NEW u \in A PROVE ~Farther(DepthAt(t, p), DepthAt(u, p))
      <3>1. DepthAt(u, p) \in Fraction /\ ~Farther(f[p].z, DepthAt(u, p))
        BY <1>2, <1>3, <1>4
      <3> QED
        BY <1>4, <2>2, <2>3, <3>1, FartherThanBoth
    <2>7. ~Farther(DepthAt(t, p), DepthAt(t, p))
      <3>1. \A z \in Fraction : ~Farther(z, z)
        BY DEF Farther, Fraction
      <3> QED
        BY <2>2, <3>1
    <2>8. \A u \in B : ~Farther(DepthAt(t, p), DepthAt(u, p))
      BY <1>2, <2>6, <2>7, Zenon
    <2> QED
      BY <2>1, <2>2, <2>4, <2>5, <2>8, Zenon DEF Shows, g, t, B
  <1>8. CASE ~draws
    <2>1. g[p] = f[p]
      BY <1>6, <1>8
    <2>2. Is(t) => ~Farther(f[p].z, DepthAt(t, p)) /\ A # {}
      BY <1>4, <1>8
    <2> HIDE DEF t, g, A, B, Is, draws
    <2>3. \A u \in B : ~Farther(f[p].z, DepthAt(u, p))
      BY <1>2, <1>4, <2>2, Zenon
    <2>4. B = {} <=> A = {}
      BY <1>2, <2>2, Zenon
    <2>5. A # {} => f[p].color \in B /\ f[p].z = DepthAt(f[p].color, p)
      BY <1>2, <1>4, Zenon
    <2>6. IF B = {} THEN f[p].color = <<>> /\ f[p].z = <<0, 1>>
          ELSE f[p].color \in B /\ f[p].z = DepthAt(f[p].color, p)
      BY <1>4, <2>4, <2>5, Zenon
    <2>7. Shows(g, ts, n + 1, p, clip)
      BY <1>4, <2>1, <2>3, <2>6, Zenon DEF Shows, B
    <2> QED
      BY <2>7 DEF g, t
  <1> QED
    BY <1>7, <1>8

\* renderer.rs:464: whatever the order in which triangles are drawn, each pixel shows
\* one that is nearest there.
THEOREM DepthTestDecides ==
  ASSUME NEW ts \in Seq(Triangle), NEW clip
  PROVE  NearestIsSeen(ts, clip)
  <1> DEFINE fs == Frames(ts, clip)
             N == Len(ts)
             P == Pixels(FramebufferRect)
             Good(n) == DOMAIN fs[n] = P /\ \A p \in P : Shows(fs[n], ts, n, p, clip)
             Reached == {n \in Nat : n <= N => Good(n)}
  <1>1. /\ N \in Nat /\ fs[0] = Cleared(<<>>)
        /\ \A n \in 1 .. N : fs[n] = FillTriangle(fs[n - 1], ts[n], ts[n], clip)
    BY FramesAre
  <1> HIDE DEF fs
  <1>2. 0 \in Reached
    <2>1. DOMAIN fs[0] = P /\ \A p \in P : fs[0][p].z = <<0, 1>> /\ fs[0][p].color = <<>>
      BY <1>1 DEF Cleared
    <2>2. <<0, 1>> \in Fraction /\ ~Farther(<<0, 1>>, <<0, 1>>)
      BY DEF Fraction, Farther
    <2>3. \A p : Over(ts, 0, p, clip) = {}
      BY DEF Over
    <2>4. \A p \in P : Shows(fs[0], ts, 0, p, clip)
      BY <2>1, <2>2, <2>3 DEF Shows
    <2> QED
      BY <2>1, <2>4
  <1>3. ASSUME NEW n \in Nat \cap Reached PROVE n + 1 \in Reached
    <2>1. ASSUME n + 1 <= N PROVE Good(n + 1)
      <3>1. Good(n) /\ n + 1 \in 1 .. N /\ (n + 1) - 1 = n
        BY <1>1, <1>3, <2>1
      <3>2. fs[n + 1] = FillTriangle(fs[n], ts[n + 1], ts[n + 1], clip)
        BY <1>1, <3>1
      <3>3. DOMAIN fs[n + 1] = P
        BY <3>1, <3>2 DEF FillTriangle
      <3>4. ASSUME NEW p \in P PROVE Shows(fs[n + 1], ts, n + 1, p, clip)
        <4>1. p \in DOMAIN fs[n] /\ Shows(fs[n], ts, n, p, clip)
          BY <3>1
        <4> QED
          BY <3>1, <3>2, <4>1, OneMore
      <3> QED
        BY <3>3, <3>4
    <2> QED
      BY <2>1
  <1>4. Good(N)
    <2> HIDE DEF Reached
    <2>1. N \in Reached
      BY <1>1, <1>2, <1>3, Induction, Zenon
    <2> QED
      BY <1>1, <2>1 DEF Reached
  <1> DEFINE over(p) == {t \in ToSet(ts) : p \in TrianglePixels(t, clip)
                                             /\ Farther(<<0, 1>>, DepthAt(t, p))}
  <1>5. \A p : over(p) = Over(ts, N, p, clip)
    <2>1. ToSet(ts) = {ts[i] : i \in 1 .. N}
      BY DEF ToSet
    <2> QED
      BY <2>1 DEF Over
  <1>6. ASSUME NEW p \in DOMAIN fs[N]
        PROVE  /\ \A t \in over(p) : ~Farther(fs[N][p].z, DepthAt(t, p))
               /\ IF over(p) = {} THEN fs[N][p].color = <<>>
                  ELSE fs[N][p].color \in over(p) /\ fs[N][p].z = DepthAt(fs[N][p].color, p)
    <2>1. Shows(fs[N], ts, N, p, clip)
      BY <1>4
    <2> QED
      BY <1>5, <2>1, Zenon DEF Shows
  <1> QED
    BY <1>6, Zenon DEF NearestIsSeen, fs, N

-----------------------------------------------------------------------------
(* Frames.                                                                 *)

\* Pixels are where the shape is, of any shapes: this is a fact about the renderer,
\* which holds in each state.
THEOREM ShapesCovered == Spec => []CoverageExact
  <1>1. TrianglesCovered
    <2>1. \A t \in Drawn : t \in Triangle
      <3>1. ASSUME NEW ts \in Meshes, NEW t \in ToSet(ts) PROVE t \in Triangle
        <4>1. ts \in Seq(Triangle)
          BY DrawingAssumption
        <4> QED
          BY <4>1 DEF ToSet
      <3> QED
        BY <3>1 DEF Drawn
    <2>2. Clips \subseteq Rectangle
      BY DrawingAssumption
    <2> QED
      BY <2>1, <2>2, TriangleCovered DEF TrianglesCovered
  <1>2. LinesEnd
    <2>1. \A line \in Outlines : line[1] \in [1 .. 2 -> Int] /\ line[2] \in [1 .. 2 -> Int]
      BY DrawingAssumption DEF Segment
    <2> QED
      BY <2>1, LineReachesEnd DEF LinesEnd
  <1>3. AreasFilled
    BY DrawingAssumption, FilledExactly DEF AreasFilled
  <1>4. CoverageExact
    BY <1>1, <1>2, <1>3 DEF CoverageExact
  <1> QED
    BY <1>4, PTL

\* And a pixel shows a triangle that is nearest there, whatever the mesh.
THEOREM NearestShown == Spec => []DepthDecides
  <1>1. NearestSeen
    BY DrawingAssumption, DepthTestDecides DEF NearestSeen
  <1>2. DepthDecides
    BY <1>1 DEF DepthDecides
  <1> QED
    BY <1>2, PTL

-----------------------------------------------------------------------------
(* Points of a ray in order.                                               *)

\* Rationals, and the two infinities.
Extended == {z \in Int \X Nat : z[2] = 0 => z[1] \in {-1, 1}}
AtMost(x, y) == ~Less(y, x)
Start == <<0, 1>>

LEMMA Ends ==
  /\ Infinity \in Extended /\ MinusInfinity \in Extended /\ Start \in Extended
  /\ \A x \in Extended : /\ AtMost(x, Infinity) /\ AtMost(MinusInfinity, x)
                         /\ ~Less(Infinity, x)
                         /\ AtMost(Infinity, x) => x[2] = 0
  <1>1. Infinity \in Extended /\ MinusInfinity \in Extended /\ Start \in Extended
    BY DEF Extended, Infinity, MinusInfinity, Start
  <1>2. ASSUME NEW x \in Extended
        PROVE  /\ AtMost(x, Infinity) /\ AtMost(MinusInfinity, x) /\ ~Less(Infinity, x)
               /\ AtMost(Infinity, x) => x[2] = 0
    <2>1. x[1] \in Int /\ x[2] \in Nat /\ (x[2] = 0 => x[1] = -1 \/ x[1] = 1)
      BY <1>2 DEF Extended
    <2> QED
      BY <2>1 DEF AtMost, Less, Infinity, MinusInfinity
  <1> QED
    BY <1>1, <1>2

\* The order of fractions, by their products.
LEMMA AtMostFractions ==
  ASSUME NEW a \in Int, NEW b \in Nat \ {0}, NEW c \in Int, NEW d \in Nat \ {0},
         NEW e \in Int, NEW f \in Nat \ {0}, a * d <= c * b, c * f <= e * d
  PROVE  a * f <= e * b
  <1>1. /\ a * d \in Int /\ c * b \in Int /\ c * f \in Int /\ e * d \in Int
        /\ a * f \in Int /\ e * b \in Int
    OBVIOUS
  <1>2. (a * d) * f <= (c * b) * f
    BY <1>1, Times
  <1>3. (c * f) * b <= (e * d) * b
    BY <1>1, Times
  <1>4. (a * d) * f = (a * f) * d /\ (c * b) * f = (c * f) * b /\ (e * d) * b = (e * b) * d
    OBVIOUS
  <1>5. (a * f) * d <= (e * b) * d
    <2> DEFINE A == (a * d) * f
               B == (c * b) * f
               C == (e * d) * b
    <2>1. A \in Int /\ B \in Int /\ C \in Int
      OBVIOUS
    <2>2. A <= B /\ B <= C
      BY <1>2, <1>3, <1>4
    <2> HIDE DEF A, B, C
    <2>3. A <= C
      BY <2>1, <2>2
    <2> QED
      BY <1>4, <2>3 DEF A, C
  <1> QED
    BY <1>1, <1>5, Times

LEMMA Ordered ==
  /\ \A x, y \in Extended : /\ AtMost(x, y) \/ AtMost(y, x)
                            /\ AtMost(x, x)
                            /\ Less(x, y) => AtMost(x, y)
  /\ \A x, y, z \in Extended : AtMost(x, y) /\ AtMost(y, z) => AtMost(x, z)
  <1>1. \A x \in Extended : x[1] \in Int /\ x[2] \in Nat /\ (x[2] = 0 => x[1] = -1 \/ x[1] = 1)
    BY DEF Extended
  <1>2. ASSUME NEW x \in Extended, NEW y \in Extended
        PROVE  AtMost(x, y) \/ AtMost(y, x)
    <2>1. x[1] * y[2] \in Int /\ y[1] * x[2] \in Int
      BY <1>1
    <2> QED
      BY <1>1, <2>1 DEF AtMost, Less
  <1>3. ASSUME NEW x \in Extended, NEW y \in Extended, NEW z \in Extended,
               AtMost(x, y), AtMost(y, z)
        PROVE  AtMost(x, z)
    <2>1. /\ x[1] \in Int /\ x[2] \in Nat /\ (x[2] = 0 => x[1] = -1 \/ x[1] = 1)
          /\ y[1] \in Int /\ y[2] \in Nat /\ (y[2] = 0 => y[1] = -1 \/ y[1] = 1)
          /\ z[1] \in Int /\ z[2] \in Nat /\ (z[2] = 0 => z[1] = -1 \/ z[1] = 1)
      BY <1>1
    <2>2. /\ x[1] * y[2] <= y[1] * x[2] /\ ~(x[2] = 0 /\ y[2] = 0 /\ y[1] < x[1])
          /\ y[1] * z[2] <= z[1] * y[2] /\ ~(y[2] = 0 /\ z[2] = 0 /\ z[1] < y[1])
      <3>1. /\ x[1] * y[2] \in Int /\ y[1] * x[2] \in Int
            /\ y[1] * z[2] \in Int /\ z[1] * y[2] \in Int
        BY <2>1
      <3> QED
        BY <1>3, <3>1 DEF AtMost, Less
    <2>3. CASE x[2] # 0 /\ y[2] # 0 /\ z[2] # 0
      <3>1. x[1] * z[2] <= z[1] * x[2]
        BY <2>1, <2>2, <2>3, AtMostFractions
      <3>2. x[1] * z[2] \in Int /\ z[1] * x[2] \in Int
        BY <2>1
      <3> QED
        BY <2>3, <3>1, <3>2 DEF AtMost, Less
    <2>4. CASE x[2] = 0
      BY <2>1, <2>2, <2>4 DEF AtMost, Less
    <2>5. CASE y[2] = 0
      BY <2>1, <2>2, <2>5 DEF AtMost, Less
    <2>6. CASE z[2] = 0
      BY <2>1, <2>2, <2>6 DEF AtMost, Less
    <2> QED
      BY <2>3, <2>4, <2>5, <2>6
  <1>4. \A x, y \in Extended : Less(x, y) => AtMost(x, y)
    BY <1>2, Zenon DEF AtMost
  <1> QED
    BY <1>2, <1>3, <1>4, Zenon

LEMMA GreaterOf ==
  ASSUME NEW x \in Extended, NEW y \in Extended
  PROVE  /\ Greatest(x, y) \in {x, y} /\ Greatest(x, y) \in Extended
         /\ AtMost(x, Greatest(x, y)) /\ AtMost(y, Greatest(x, y))
  BY Ordered, Zenon DEF Greatest, AtMost

LEMMA LesserOf ==
  ASSUME NEW x \in Extended, NEW y \in Extended
  PROVE  /\ Least(x, y) \in {x, y} /\ Least(x, y) \in Extended
         /\ AtMost(Least(x, y), x) /\ AtMost(Least(x, y), y)
  BY Ordered, Zenon DEF Least, AtMost

LEMMA SquareIs ==
  ASSUME NEW p \in Pose
  PROVE  Square(p.forward) \in Nat
  <1>1. p.forward[1] \in Int /\ p.forward[2] \in Int /\ p.forward[3] \in Int
    BY DEF Pose
  <1>2. \A x \in Int : x * x \in Nat
    OBVIOUS
  <1> QED
    BY <1>1, <1>2 DEF Square

\* The same of squares.
LEMMA SquaresOfFractions ==
  ASSUME NEW a \in Nat, NEW b \in Nat \ {0}, NEW c \in Int, NEW d \in Nat \ {0},
         NEW g \in Nat, NEW k \in Nat, a * d <= c * b, k * (b * b) < (a * a) * g
  PROVE  k * (d * d) < (c * c) * g
  <1>1. a * d \in Nat /\ c * b \in Int /\ c * b \in Nat
    OBVIOUS
  <1>2. (a * d) * (a * d) <= (c * b) * (c * b)
    <2>1. \A x, y \in Nat : x <= y => x * x <= y * y
      OBVIOUS
    <2> QED
      BY <1>1, <2>1
  <1>3. b * b \in Nat \ {0} /\ d * d \in Nat \ {0} /\ a * a \in Nat /\ c * c \in Nat
    OBVIOUS
  <1>4. (k * (b * b)) * (d * d) < ((a * a) * g) * (d * d)
    <2>1. (a * a) * g \in Int /\ k * (b * b) \in Int
      BY <1>3
    <2> QED
      BY <1>3, <2>1, Times
  <1>5. ((a * d) * (a * d)) * g <= ((c * b) * (c * b)) * g
    <2>1. \A x, y \in Int, z \in Nat : x <= y => x * z <= y * z
      <3>1. \A z \in Nat : z = 0 \/ z \in Nat \ {0}
        OBVIOUS
      <3> QED
        BY <3>1, Times
    <2>2. (a * d) * (a * d) \in Int /\ (c * b) * (c * b) \in Int
      BY <1>1
    <2> QED
      BY <1>2, <2>1, <2>2
  <1>6. /\ ((a * d) * (a * d)) * g = ((a * a) * g) * (d * d)
        /\ ((c * b) * (c * b)) * g = ((c * c) * g) * (b * b)
        /\ (k * (b * b)) * (d * d) = (k * (d * d)) * (b * b)
    OBVIOUS
  <1>7. (k * (d * d)) * (b * b) < ((c * c) * g) * (b * b)
    <2> DEFINE A == (k * (b * b)) * (d * d)
               B == ((a * a) * g) * (d * d)
               C == ((c * b) * (c * b)) * g
    <2>1. A \in Int /\ B \in Int /\ C \in Int
      OBVIOUS
    <2>2. A < B /\ B <= C
      BY <1>4, <1>5, <1>6
    <2> HIDE DEF A, B, C
    <2>3. A < C
      BY <2>1, <2>2
    <2> QED
      BY <1>6, <2>3 DEF A, C
  <1> QED
    <2>1. k * (d * d) \in Int /\ (c * c) * g \in Int
      BY <1>3
    <2> QED
      BY <1>3, <1>7, <2>1, Times

\* What is beyond a point out of reach is out of reach.
LEMMA TooFarther ==
  ASSUME NEW s \in Extended, NEW u \in Extended, NEW f, Square(f) \in Nat,
         AtMost(Start, s), AtMost(s, u), TooFar(s, f)
  PROVE  TooFar(u, f)
  <1>1. /\ s[1] \in Int /\ s[2] \in Nat /\ (s[2] = 0 => s[1] = -1 \/ s[1] = 1)
        /\ u[1] \in Int /\ u[2] \in Nat
    BY DEF Extended
  <1>2. CASE u[2] = 0
    BY <1>2 DEF TooFar
  <1>3. CASE u[2] # 0 /\ s[2] = 0
    BY <1>1, <1>3 DEF AtMost, Less, Start
  <1>4. CASE u[2] # 0 /\ s[2] # 0
    <2> DEFINE q == Square(f)
               m == MAX_DISTANCE * MAX_DISTANCE
    <2>1. q \in Nat /\ m \in Nat
      BY WorldAssumption
    <2>2. s[1] \in Nat /\ s[2] \in Nat \ {0} /\ u[1] \in Int /\ u[2] \in Nat \ {0}
      BY <1>1, <1>4 DEF AtMost, Less, Start
    <2>3. s[1] * u[2] <= u[1] * s[2]
      <3>1. s[1] * u[2] \in Int /\ u[1] * s[2] \in Int
        BY <1>1
      <3> QED
        BY <3>1 DEF AtMost, Less
    <2>4. s[1] * s[1] * q > MAX_DISTANCE * MAX_DISTANCE * s[2] * s[2]
      BY <1>4 DEF TooFar
    <2>6. m * (s[2] * s[2]) < (s[1] * s[1]) * q
      BY <1>1, <2>1, <2>4, WorldAssumption
    <2>7. m * (u[2] * u[2]) < (u[1] * u[1]) * q
      <3> HIDE DEF q, m
      <3>1. PICK a \in Nat, b \in Nat \ {0}, c \in Int, d \in Nat \ {0}, g \in Nat, k \in Nat :
              a = s[1] /\ b = s[2] /\ c = u[1] /\ d = u[2] /\ g = q /\ k = m
        BY <2>1, <2>2, Zenon
      <3>2. a * d <= c * b /\ k * (b * b) < (a * a) * g
        BY <2>3, <2>6, <3>1, Zenon
      <3>3. k * (d * d) < (c * c) * g
        BY <3>2, SquaresOfFractions
      <3> QED
        BY <3>1, <3>3, Zenon
    <2>8. u[1] * u[1] * q > MAX_DISTANCE * MAX_DISTANCE * u[2] * u[2]
      BY <1>1, <2>1, <2>7, WorldAssumption
    <2> QED
      BY <2>8 DEF TooFar
  <1> QED
    BY <1>2, <1>3, <1>4

-----------------------------------------------------------------------------
(* The planes a ray crosses.                                               *)

LEMMA CrossingIs ==
  ASSUME NEW p \in Pose, NEW i \in 1 .. 3, NEW a \in Int, p.forward[i] # 0
  PROVE  /\ p.forward[i] \in Int /\ p.position[i] \in Int
         /\ p.forward[i] > 0 =>
              /\ Crossing(p, i, a) = <<UNIT * a - p.position[i], UNIT * p.forward[i]>>
              /\ UNIT * p.forward[i] \in Nat \ {0}
         /\ p.forward[i] < 0 =>
              /\ Crossing(p, i, a) = <<p.position[i] - UNIT * a, -(UNIT * p.forward[i])>>
              /\ -(UNIT * p.forward[i]) \in Nat \ {0}
         /\ UNIT * a - p.position[i] \in Int /\ p.position[i] - UNIT * a \in Int
         /\ Crossing(p, i, a) \in Extended /\ Crossing(p, i, a)[2] # 0
  <1>1. p.forward[i] \in Int /\ p.position[i] \in Int /\ UNIT \in Nat \ {0}
    BY WorldAssumption DEF Pose
  <1>2. UNIT * a - p.position[i] \in Int /\ p.position[i] - UNIT * a \in Int
    BY <1>1
  <1>3. CASE p.forward[i] > 0
    <2>1. UNIT * p.forward[i] \in Nat \ {0}
      BY <1>1, <1>3
    <2>2. ~(UNIT * p.forward[i] < 0)
      BY <2>1
    <2>3. Crossing(p, i, a) = <<UNIT * a - p.position[i], UNIT * p.forward[i]>>
      BY <2>2, Zenon DEF Crossing, Quotient
    <2>4. <<UNIT * a - p.position[i], UNIT * p.forward[i]>> \in Extended
      BY <1>2, <2>1 DEF Extended
    <2> QED
      BY <1>1, <1>2, <1>3, <2>1, <2>3, <2>4
  <1>4. CASE p.forward[i] < 0
    <2>1. -(UNIT * p.forward[i]) \in Nat \ {0} /\ UNIT * p.forward[i] < 0
      BY <1>1, <1>4
    <2>2. Crossing(p, i, a) = <<-(UNIT * a - p.position[i]), -(UNIT * p.forward[i])>>
      BY <2>1, Zenon DEF Crossing, Quotient
    <2>3. -(UNIT * a - p.position[i]) = p.position[i] - UNIT * a
      BY <1>1
    <2>4. <<p.position[i] - UNIT * a, -(UNIT * p.forward[i])>> \in Extended
      BY <1>2, <2>1 DEF Extended
    <2> QED
      BY <1>1, <1>2, <1>4, <2>1, <2>2, <2>3, <2>4
  <1> QED
    BY <1>1, <1>3, <1>4

\* A ray crosses the planes of an axis one after the other.
LEMMA CrossedInOrder ==
  ASSUME NEW p \in Pose, NEW i \in 1 .. 3, p.forward[i] # 0,
         NEW a \in Int, NEW b \in Int
  PROVE  AtMost(Crossing(p, i, a), Crossing(p, i, b)) <=>
           IF p.forward[i] < 0 THEN b <= a ELSE a <= b
  <1>1. UNIT \in Nat \ {0} /\ p.forward[i] \in Int /\ p.position[i] \in Int
    BY WorldAssumption DEF Pose
  <1>2. CASE p.forward[i] > 0
    <2> DEFINE d == UNIT * p.forward[i]
               m == UNIT * a - p.position[i]
               n == UNIT * b - p.position[i]
    <2>1. /\ Crossing(p, i, a) = <<m, d>> /\ Crossing(p, i, b) = <<n, d>>
          /\ d \in Nat \ {0} /\ m \in Int /\ n \in Int
      BY <1>2, CrossingIs
    <2>2. UNIT * a <= UNIT * b <=> a <= b
      BY <1>1
    <2>3. m <= n <=> a <= b
      <3>1. UNIT * a \in Int /\ UNIT * b \in Int
        BY <1>1
      <3> QED
        BY <1>1, <2>2, <3>1
    <2> HIDE DEF d, m, n
    <2>4. (m <= n <=> m * d <= n * d) /\ m * d \in Int /\ n * d \in Int
      BY <2>1, Times
    <2> QED
      BY <1>1, <1>2, <2>1, <2>3, <2>4 DEF AtMost, Less
  <1>3. CASE p.forward[i] < 0
    <2> DEFINE d == -(UNIT * p.forward[i])
               m == p.position[i] - UNIT * a
               n == p.position[i] - UNIT * b
    <2>1. /\ Crossing(p, i, a) = <<m, d>> /\ Crossing(p, i, b) = <<n, d>>
          /\ d \in Nat \ {0} /\ m \in Int /\ n \in Int
      BY <1>3, CrossingIs
    <2>2. UNIT * b <= UNIT * a <=> b <= a
      BY <1>1
    <2>3. m <= n <=> b <= a
      <3>1. UNIT * a \in Int /\ UNIT * b \in Int
        BY <1>1
      <3> QED
        BY <1>1, <2>2, <3>1
    <2> HIDE DEF d, m, n
    <2>4. (m <= n <=> m * d <= n * d) /\ m * d \in Int /\ n * d \in Int
      BY <2>1, Times
    <2> QED
      BY <1>1, <1>3, <2>1, <2>3, <2>4 DEF AtMost, Less
  <1> QED
    BY <1>1, <1>2, <1>3

\* Which planes it has crossed at a point: its coordinate there is on their other side.
LEMMA CrossedBefore ==
  ASSUME NEW p \in Pose, NEW i \in 1 .. 3, p.forward[i] # 0, NEW a \in Int,
         NEW s \in Extended, s[2] # 0
  PROVE  LET x == p.position[i] * s[2] + UNIT * p.forward[i] * s[1]
             plane == a * (UNIT * s[2])
         IN /\ AtMost(Crossing(p, i, a), s) <=>
                 IF p.forward[i] < 0 THEN x <= plane ELSE plane <= x
            /\ AtMost(s, Crossing(p, i, a)) <=>
                 IF p.forward[i] < 0 THEN plane <= x ELSE x <= plane
  <1> DEFINE x == p.position[i] * s[2] + UNIT * p.forward[i] * s[1]
             plane == a * (UNIT * s[2])
  <1>1. /\ p.forward[i] \in Int /\ p.position[i] \in Int /\ UNIT \in Nat \ {0}
        /\ s[1] \in Int /\ s[2] \in Nat \ {0}
    BY CrossingIs, WorldAssumption DEF Extended
  <1>2. PICK f \in Int, y \in Int, U \in Nat \ {0}, n \in Int, d \in Nat \ {0} :
          f = p.forward[i] /\ y = p.position[i] /\ U = UNIT /\ n = s[1] /\ d = s[2]
    BY <1>1, Zenon
  <1>3. /\ (U * a - y) * d = a * (U * d) - y * d
        /\ (y - U * a) * d = y * d - a * (U * d)
        /\ n * (U * f) = U * f * n /\ n * (-(U * f)) = -(U * f * n)
        /\ a * (U * d) \in Int /\ y * d \in Int /\ U * f * n \in Int
    OBVIOUS
  <1>4. x = y * d + U * f * n /\ plane = a * (U * d)
    BY <1>2, Zenon
  <1> HIDE DEF x, plane
  <1>5. CASE f > 0
    <2>1. Crossing(p, i, a) = <<U * a - y, U * f>> /\ U * f \in Nat \ {0}
      BY <1>2, <1>5, CrossingIs
    <2>2. AtMost(Crossing(p, i, a), s) <=> ~(n * (U * f) < (U * a - y) * d)
      BY <1>2, <2>1 DEF AtMost, Less
    <2>3. AtMost(s, Crossing(p, i, a)) <=> ~((U * a - y) * d < n * (U * f))
      BY <1>2, <2>1 DEF AtMost, Less
    <2>4. AtMost(Crossing(p, i, a), s) <=> plane <= x
      BY <1>3, <1>4, <2>2
    <2>5. AtMost(s, Crossing(p, i, a)) <=> x <= plane
      BY <1>3, <1>4, <2>3
    <2> QED
      BY <1>2, <1>5, <2>4, <2>5 DEF x, plane
  <1>6. CASE f < 0
    <2>1. Crossing(p, i, a) = <<y - U * a, -(U * f)>> /\ -(U * f) \in Nat \ {0}
      BY <1>2, <1>6, CrossingIs
    <2>2. AtMost(Crossing(p, i, a), s) <=> ~(n * (-(U * f)) < (y - U * a) * d)
      BY <1>2, <2>1 DEF AtMost, Less
    <2>3. AtMost(s, Crossing(p, i, a)) <=> ~((y - U * a) * d < n * (-(U * f)))
      BY <1>2, <2>1 DEF AtMost, Less
    <2>4. AtMost(Crossing(p, i, a), s) <=> x <= plane
      BY <1>3, <1>4, <2>2
    <2>5. AtMost(s, Crossing(p, i, a)) <=> plane <= x
      BY <1>3, <1>4, <2>3
    <2> QED
      BY <1>2, <1>6, <2>4, <2>5 DEF x, plane
  <1> QED
    BY <1>2, <1>5, <1>6

-----------------------------------------------------------------------------
(* Cells along one axis.                                                   *)

LEMMA EnterIs ==
  ASSUME NEW p \in Pose, NEW i \in 1 .. 3, p.forward[i] # 0,
         NEW lo \in Int, NEW hi \in Int, lo < hi
  PROVE  /\ Enter(p, i, lo, hi) = Crossing(p, i, IF p.forward[i] < 0 THEN hi ELSE lo)
         /\ Exit(p, i, lo, hi) = Crossing(p, i, IF p.forward[i] < 0 THEN lo ELSE hi)
  <1> DEFINE x == Crossing(p, i, lo)
             y == Crossing(p, i, hi)
  <1>1. Less(y, x) <=> p.forward[i] < 0
    <2>1. AtMost(x, y) <=> IF p.forward[i] < 0 THEN hi <= lo ELSE lo <= hi
      BY CrossedInOrder
    <2> QED
      BY <2>1 DEF AtMost
  <1>2. Less(x, y) <=> ~(p.forward[i] < 0)
    <2>1. AtMost(y, x) <=> IF p.forward[i] < 0 THEN lo <= hi ELSE hi <= lo
      BY CrossedInOrder
    <2> QED
      BY <2>1 DEF AtMost
  <1> HIDE DEF x, y
  <1>3. /\ Enter(p, i, lo, hi) = IF Less(y, x) THEN y ELSE x
        /\ Exit(p, i, lo, hi) = IF Less(x, y) THEN y ELSE x
    BY Zenon DEF Enter, Exit, Least, Greatest, x, y
  <1> QED
    BY <1>1, <1>2, <1>3 DEF x, y

EnterAt(p, i, c) == Enter(p, i, c, c + 1)
ExitAt(p, i, c) == Exit(p, i, c, c + 1)

\* Cell c comes after cell b along the axis.
Beyond(p, i, c, b) == IF p.forward[i] < 0 THEN c < b ELSE b < c

LEMMA PointsAre ==
  ASSUME NEW p \in Pose, NEW i \in 1 .. 3, NEW lo \in Int, NEW hi \in Int, lo < hi
  PROVE  Enter(p, i, lo, hi) \in Extended /\ Exit(p, i, lo, hi) \in Extended
  <1>1. CASE p.forward[i] # 0
    <2>1. \A a \in Int : Crossing(p, i, a) \in Extended
      BY <1>1, CrossingIs, Zenon
    <2>2. /\ Enter(p, i, lo, hi) = Crossing(p, i, IF p.forward[i] < 0 THEN hi ELSE lo)
          /\ Exit(p, i, lo, hi) = Crossing(p, i, IF p.forward[i] < 0 THEN lo ELSE hi)
      BY <1>1, EnterIs
    <2> QED
      BY <2>1, <2>2, Zenon
  <1>2. CASE p.forward[i] = 0
    <2>1. /\ Enter(p, i, lo, hi) = MinusInfinity \/ Enter(p, i, lo, hi) = Infinity
          /\ Exit(p, i, lo, hi) = Infinity
      BY <1>2 DEF Enter, Exit
    <2> QED
      BY <2>1, Ends, Zenon
  <1> QED
    BY <1>1, <1>2, Zenon

LEMMA CellPoints ==
  ASSUME NEW p \in Pose, NEW i \in 1 .. 3, NEW c \in Int
  PROVE  EnterAt(p, i, c) \in Extended /\ ExitAt(p, i, c) \in Extended
  <1>1. c + 1 \in Int /\ c < c + 1
    OBVIOUS
  <1> QED
    BY <1>1, PointsAre DEF EnterAt, ExitAt

\* A cell is entered before it is left, and after the cells before it are left.
LEMMA CellsInOrder ==
  ASSUME NEW p \in Pose, NEW i \in 1 .. 3, p.forward[i] # 0, NEW b \in Int, NEW c \in Int
  PROVE  /\ AtMost(EnterAt(p, i, c), ExitAt(p, i, c))
         /\ Beyond(p, i, c, b) => AtMost(ExitAt(p, i, b), EnterAt(p, i, c))
         /\ ~Beyond(p, i, c, b) => AtMost(ExitAt(p, i, c), ExitAt(p, i, b))
         /\ c = b + Sign(p.forward[i]) => EnterAt(p, i, c) = ExitAt(p, i, b)
         /\ c # b => Beyond(p, i, c, b) \/ Beyond(p, i, b, c)
         /\ ExitAt(p, i, c)[2] # 0
  <1>1. p.forward[i] \in Int
    BY DEF Pose
  <1>2. /\ b + 1 \in Int /\ b < b + 1 /\ c + 1 \in Int /\ c < c + 1
    OBVIOUS
  <1>3. CASE p.forward[i] < 0
    <2>1. /\ EnterAt(p, i, b) = Crossing(p, i, b + 1) /\ ExitAt(p, i, b) = Crossing(p, i, b)
          /\ EnterAt(p, i, c) = Crossing(p, i, c + 1) /\ ExitAt(p, i, c) = Crossing(p, i, c)
      BY <1>2, <1>3, EnterIs DEF EnterAt, ExitAt
    <2>2. \A x, y \in Int : AtMost(Crossing(p, i, x), Crossing(p, i, y)) <=> y <= x
      BY <1>3, CrossedInOrder
    <2>3. Sign(p.forward[i]) = -1 /\ ~(p.forward[i] > 0)
      BY <1>1, <1>3 DEF Sign
    <2>4. ExitAt(p, i, c)[2] # 0
      BY <2>1, CrossingIs
    <2>5. /\ c <= c + 1
          /\ c < b => c + 1 <= b
          /\ ~(c < b) => b <= c
          /\ c = b + -1 => c + 1 = b
          /\ c # b => c < b \/ b < c
      OBVIOUS
    <2> QED
      BY <1>2, <1>3, <2>1, <2>2, <2>3, <2>4, <2>5 DEF Beyond
  <1>4. CASE ~(p.forward[i] < 0)
    <2>1. /\ EnterAt(p, i, b) = Crossing(p, i, b) /\ ExitAt(p, i, b) = Crossing(p, i, b + 1)
          /\ EnterAt(p, i, c) = Crossing(p, i, c) /\ ExitAt(p, i, c) = Crossing(p, i, c + 1)
      BY <1>2, <1>4, EnterIs DEF EnterAt, ExitAt
    <2>2. \A x, y \in Int : AtMost(Crossing(p, i, x), Crossing(p, i, y)) <=> x <= y
      BY <1>4, CrossedInOrder
    <2>3. Sign(p.forward[i]) = 1
      BY <1>4 DEF Sign
    <2>4. ExitAt(p, i, c)[2] # 0
      BY <1>2, <2>1, CrossingIs
    <2>5. /\ c <= c + 1
          /\ b < c => b + 1 <= c
          /\ ~(b < c) => c + 1 <= b + 1
          /\ c # b => c < b \/ b < c
      OBVIOUS
    <2> QED
      BY <1>2, <1>4, <2>1, <2>2, <2>3, <2>4, <2>5 DEF Beyond
  <1> QED
    BY <1>3, <1>4, Zenon

\* Along an axis the ray does not move along it is in a cell all the time or never.
LEMMA StandingStill ==
  ASSUME NEW p \in Pose, NEW i \in 1 .. 3, p.forward[i] = 0, NEW lo \in Int, NEW hi \in Int
  PROVE  /\ Exit(p, i, lo, hi) = Infinity
         /\ Enter(p, i, lo, hi) = IF UNIT * lo <= p.position[i] /\ p.position[i] <= UNIT * hi
                                  THEN MinusInfinity ELSE Infinity
  <1>1. p.position[i] \in Int /\ UNIT * lo \in Int /\ UNIT * hi \in Int
    BY WorldAssumption DEF Pose
  <1> QED
    BY <1>1 DEF Enter, Exit

\* The world is entered before each of its cells and left after it.
LEMMA WorldAround ==
  ASSUME NEW p \in Pose, NEW i \in 1 .. 3, NEW c \in Cells(Dim[i])
  PROVE  /\ AtMost(Enter(p, i, 0, Dim[i]), EnterAt(p, i, c))
         /\ AtMost(ExitAt(p, i, c), Exit(p, i, 0, Dim[i]))
  <1>1. Dim[i] \in Nat \ {0} /\ UNIT \in Nat \ {0}
    BY WorldAssumption DEF Dim
  <1>2. /\ c \in Int /\ 0 <= c /\ c + 1 <= Dim[i] /\ c + 1 \in Int /\ c < c + 1
        /\ Dim[i] \in Int /\ 0 \in Int /\ 0 < Dim[i] /\ c <= Dim[i]
    BY <1>1 DEF Cells
  <1>3. CASE p.forward[i] # 0
    <2>1. /\ EnterAt(p, i, c) = Crossing(p, i, IF p.forward[i] < 0 THEN c + 1 ELSE c)
          /\ ExitAt(p, i, c) = Crossing(p, i, IF p.forward[i] < 0 THEN c ELSE c + 1)
      BY <1>2, <1>3, EnterIs DEF EnterAt, ExitAt
    <2>2. /\ Enter(p, i, 0, Dim[i]) = Crossing(p, i, IF p.forward[i] < 0 THEN Dim[i] ELSE 0)
          /\ Exit(p, i, 0, Dim[i]) = Crossing(p, i, IF p.forward[i] < 0 THEN 0 ELSE Dim[i])
      BY <1>2, <1>3, EnterIs
    <2>3. \A x, y \in Int : AtMost(Crossing(p, i, x), Crossing(p, i, y)) <=>
                              IF p.forward[i] < 0 THEN y <= x ELSE x <= y
      BY <1>3, CrossedInOrder
    <2> QED
      BY <1>2, <2>1, <2>2, <2>3
  <1>4. CASE p.forward[i] = 0
    <2> DEFINE x == p.position[i]
               here == UNIT * c <= x /\ x <= UNIT * (c + 1)
               inside == UNIT * 0 <= x /\ x <= UNIT * Dim[i]
    <2>1. /\ ExitAt(p, i, c) = Infinity /\ Exit(p, i, 0, Dim[i]) = Infinity
          /\ EnterAt(p, i, c) = IF here THEN MinusInfinity ELSE Infinity
          /\ Enter(p, i, 0, Dim[i]) = IF inside THEN MinusInfinity ELSE Infinity
      BY <1>2, <1>4, StandingStill DEF EnterAt, ExitAt
    <2>2. here => inside
      <3>1. /\ UNIT * 0 <= UNIT * c /\ UNIT * (c + 1) <= UNIT * Dim[i]
            /\ UNIT * 0 \in Int /\ UNIT * c \in Int /\ UNIT * (c + 1) \in Int /\ UNIT * Dim[i] \in Int
        BY <1>1, <1>2
      <3>2. x \in Int
        BY DEF Pose
      <3> HIDE DEF x
      <3> QED
        BY <3>1, <3>2
    <2> HIDE DEF here, inside
    <2> QED
      BY <2>1, <2>2, Ends, Ordered, Zenon
  <1> QED
    BY <1>3, <1>4, Zenon

-----------------------------------------------------------------------------
(* Blocks.                                                                 *)

LEMMA Coordinates ==
  ASSUME NEW b \in Blocks, NEW i \in 1 .. 3
  PROVE  b[i] \in Cells(Dim[i]) /\ b[i] \in Int /\ 0 <= b[i] /\ b[i] < Dim[i]
  <1>1. b[1] \in Cells(WORLD_X) /\ b[2] \in Cells(WORLD_Y) /\ b[3] \in Cells(WORLD_Z)
    BY DEF Blocks
  <1>2. b[i] \in Cells(Dim[i])
    BY <1>1 DEF Dim
  <1>3. Dim[i] \in Int
    BY WorldAssumption DEF Dim
  <1> QED
    BY <1>2, <1>3 DEF Cells

\* A block is where the cells of the three axes are.
LEMMA BlockPoints ==
  ASSUME NEW p \in Pose, NEW b \in Blocks
  PROVE  /\ BlockEnter(p, b) \in Extended /\ BlockExit(p, b) \in Extended
         /\ AtMost(Start, BlockEnter(p, b))
         /\ \A i \in 1 .. 3 : /\ AtMost(EnterAt(p, i, b[i]), BlockEnter(p, b))
                              /\ AtMost(BlockExit(p, b), ExitAt(p, i, b[i]))
         /\ \A z \in Extended :
              /\ AtMost(Start, z) /\ (\A i \in 1 .. 3 : AtMost(EnterAt(p, i, b[i]), z))
                   => AtMost(BlockEnter(p, b), z)
              /\ (\A i \in 1 .. 3 : AtMost(z, ExitAt(p, i, b[i]))) => AtMost(z, BlockExit(p, b))
  <1>1. PICK x \in Extended, y \in Extended, z \in Extended :
          x = EnterAt(p, 1, b[1]) /\ y = EnterAt(p, 2, b[2]) /\ z = EnterAt(p, 3, b[3])
    BY Coordinates, CellPoints
  <1>2. PICK u \in Extended, v \in Extended, w \in Extended :
          u = ExitAt(p, 1, b[1]) /\ v = ExitAt(p, 2, b[2]) /\ w = ExitAt(p, 3, b[3])
    BY Coordinates, CellPoints
  <1>3. Start \in Extended
    BY Ends
  <1> DEFINE m == Greatest(y, z)
             n == Greatest(x, m)
             e == Greatest(Start, n)
             r == Least(v, w)
             o == Least(u, r)
  <1>4. BlockEnter(p, b) = e
    BY <1>1 DEF BlockEnter, EnterAt, Start
  <1>5. BlockExit(p, b) = o
    BY <1>2 DEF BlockExit, ExitAt
  <1>6. m \in {y, z} /\ m \in Extended /\ AtMost(y, m) /\ AtMost(z, m)
    BY GreaterOf
  <1>7. r \in {v, w} /\ r \in Extended /\ AtMost(r, v) /\ AtMost(r, w)
    BY LesserOf
  <1> HIDE DEF m, r
  <1>8. n \in {x, m} /\ n \in Extended /\ AtMost(x, n) /\ AtMost(m, n)
    BY <1>6, GreaterOf
  <1>9. o \in {u, r} /\ o \in Extended /\ AtMost(o, u) /\ AtMost(o, r)
    BY <1>7, LesserOf
  <1> HIDE DEF n
  <1>10. e \in {Start, n} /\ e \in Extended /\ AtMost(Start, e) /\ AtMost(n, e)
    BY <1>3, <1>8, GreaterOf
  <1> HIDE DEF e, o
  <1>11. AtMost(m, e) /\ AtMost(x, e)
    BY <1>6, <1>8, <1>10, Ordered, Zenon
  <1>12. AtMost(y, e) /\ AtMost(z, e)
    BY <1>6, <1>10, <1>11, Ordered, Zenon
  <1>13. AtMost(o, u) /\ AtMost(o, v) /\ AtMost(o, w)
    BY <1>7, <1>9, Ordered, Zenon
  <1>14. \A i \in 1 .. 3 : i = 1 \/ i = 2 \/ i = 3
    OBVIOUS
  <1>15. 1 \in 1 .. 3 /\ 2 \in 1 .. 3 /\ 3 \in 1 .. 3
    OBVIOUS
  <1>16. \A i \in 1 .. 3 : /\ AtMost(EnterAt(p, i, b[i]), e)
                           /\ AtMost(o, ExitAt(p, i, b[i]))
    BY <1>1, <1>2, <1>11, <1>12, <1>13, <1>14, Zenon
  <1>17. ASSUME NEW q \in Extended
         PROVE  /\ AtMost(Start, q) /\ (\A i \in 1 .. 3 : AtMost(EnterAt(p, i, b[i]), q))
                     => AtMost(e, q)
                /\ (\A i \in 1 .. 3 : AtMost(q, ExitAt(p, i, b[i]))) => AtMost(q, o)
    <2>1. ASSUME AtMost(Start, q), \A i \in 1 .. 3 : AtMost(EnterAt(p, i, b[i]), q)
          PROVE  AtMost(e, q)
      <3>1. AtMost(x, q) /\ AtMost(y, q) /\ AtMost(z, q)
        BY <1>1, <1>15, <2>1, Zenon
      <3>2. AtMost(m, q)
        BY <1>6, <3>1, Zenon
      <3>3. AtMost(n, q)
        BY <1>8, <3>1, <3>2, Zenon
      <3> QED
        BY <1>10, <2>1, <3>3, Zenon
    <2>2. ASSUME \A i \in 1 .. 3 : AtMost(q, ExitAt(p, i, b[i]))
          PROVE  AtMost(q, o)
      <3>1. AtMost(q, u) /\ AtMost(q, v) /\ AtMost(q, w)
        BY <1>2, <1>15, <2>2, Zenon
      <3>2. AtMost(q, r)
        BY <1>7, <3>1, Zenon
      <3> QED
        BY <1>9, <3>1, <3>2, Zenon
    <2> QED
      BY <2>1, <2>2, Zenon
  <1> QED
    BY <1>4, <1>5, <1>9, <1>10, <1>16, <1>17, Zenon

\* A block the ray passes and a block in reach are in the same slice of the world
\* across an axis the ray does not move along.
LEMMA SameSlice ==
  ASSUME NEW p \in Pose, NEW i \in 1 .. 3, p.forward[i] = 0,
         NEW b \in Blocks, InReach(p, b), NEW c \in Blocks, Passes(p, c)
  PROVE  c[i] = b[i]
  <1>1. /\ b[i] \in Int /\ c[i] \in Int /\ UNIT \in Nat \ {0} /\ p.position[i] \in Int
    BY Coordinates, WorldAssumption DEF Pose
  <1>2. EnterAt(p, i, b[i]) # Infinity
    <2>1. BlockEnter(p, b)[2] # 0
      BY Zenon DEF InReach, TooFar
    <2>2. AtMost(EnterAt(p, i, b[i]), BlockEnter(p, b)) /\ BlockEnter(p, b) \in Extended
      BY BlockPoints
    <2> QED
      BY <2>1, <2>2, Ends, Zenon
  <1>3. EnterAt(p, i, c[i]) # Infinity
    <2>1. Less(BlockEnter(p, c), BlockExit(p, c))
      BY Zenon DEF Passes
    <2>2. /\ AtMost(EnterAt(p, i, c[i]), BlockEnter(p, c))
          /\ BlockEnter(p, c) \in Extended /\ BlockExit(p, c) \in Extended
      BY BlockPoints
    <2>3. ASSUME EnterAt(p, i, c[i]) = Infinity
          PROVE  FALSE
      <3>1. AtMost(BlockExit(p, c), Infinity) /\ Infinity \in Extended
        BY <2>2, Ends, Zenon
      <3>2. AtMost(BlockExit(p, c), BlockEnter(p, c))
        BY <2>2, <2>3, <3>1, Ordered, Zenon
      <3> QED
        BY <2>1, <3>2, Zenon DEF AtMost
    <2> QED
      BY <2>3, Zenon
  <1>4. /\ UNIT * b[i] <= p.position[i] /\ p.position[i] <= UNIT * (b[i] + 1)
        /\ UNIT * c[i] <= p.position[i] /\ p.position[i] <= UNIT * (c[i] + 1)
    <2>1. b[i] + 1 \in Int /\ c[i] + 1 \in Int
      BY <1>1
    <2> QED
      BY <1>1, <1>2, <1>3, <2>1, StandingStill DEF EnterAt
  <1>5. p.position[i] # UNIT * c[i] /\ p.position[i] # UNIT * (c[i] + 1)
    BY Zenon DEF Passes
  <1>6. PICK U \in Nat \ {0}, m \in Int, n \in Int, x \in Int :
          U = UNIT /\ m = b[i] /\ n = c[i] /\ x = p.position[i]
    BY <1>1, Zenon
  <1>7. /\ U * m <= x /\ x <= U * (m + 1) /\ U * n <= x /\ x <= U * (n + 1)
        /\ x # U * n /\ x # U * (n + 1)
    BY <1>4, <1>5, <1>6, Zenon
  <1>8. m < n + 1 /\ n < m + 1
    <2>1. U * m \in Int /\ U * n \in Int /\ U * (m + 1) \in Int /\ U * (n + 1) \in Int
      OBVIOUS
    <2>2. U * m < U * (n + 1) /\ U * n < U * (m + 1)
      BY <1>7, <2>1
    <2>3. \A k, l \in Int : U * k < U * l => k < l
      OBVIOUS
    <2> QED
      BY <2>2, <2>3
  <1> QED
    BY <1>6, <1>8

\* What is not beyond a block along any axis is that block, or is left before it is
\* entered.
LEMMA PassedBefore ==
  ASSUME NEW p \in Pose, NEW b \in Blocks, InReach(p, b), NEW c \in Blocks, Passes(p, c),
         \A i \in 1 .. 3 : p.forward[i] # 0 => ~Beyond(p, i, c[i], b[i]), c # b
  PROVE  \E i \in 1 .. 3 :
           p.forward[i] # 0 /\ c[i] # b[i] /\ AtMost(ExitAt(p, i, c[i]), EnterAt(p, i, b[i]))
  <1>1. PICK i \in 1 .. 3 : c[i] # b[i]
    BY BlocksAre
  <1>2. p.forward[i] # 0
    BY <1>1, SameSlice, Zenon
  <1>3. b[i] \in Int /\ c[i] \in Int
    BY Coordinates
  <1>4. Beyond(p, i, b[i], c[i])
    BY <1>1, <1>2, <1>3, CellsInOrder, Zenon
  <1>5. AtMost(ExitAt(p, i, c[i]), EnterAt(p, i, b[i]))
    BY <1>2, <1>3, <1>4, CellsInOrder, Zenon
  <1> QED
    BY <1>1, <1>2, <1>5, Zenon

-----------------------------------------------------------------------------
(* The first cell.                                                         *)

\* The ray is in the world from Close to Far.
LEMMA WorldPoints ==
  ASSUME NEW p \in Pose
  PROVE  /\ EntryAxis(p) \in 1 .. 3
         /\ Close(p) \in Extended /\ Far(p) \in Extended
         /\ AtMost(Start, Close(p))
         /\ Close(p) = Start \/ Close(p) = Enter(p, EntryAxis(p), 0, Dim[EntryAxis(p)])
         /\ \A i \in 1 .. 3 : /\ AtMost(Enter(p, i, 0, Dim[i]), Close(p))
                              /\ AtMost(Far(p), Exit(p, i, 0, Dim[i]))
         /\ \E i \in 1 .. 3 : Far(p) = Exit(p, i, 0, Dim[i])
  <1>1. \A i \in 1 .. 3 : Enter(p, i, 0, Dim[i]) \in Extended /\ Exit(p, i, 0, Dim[i]) \in Extended
    <2>1. \A i \in 1 .. 3 : Dim[i] \in Int /\ 0 < Dim[i] /\ 0 \in Int
      BY WorldAssumption DEF Dim
    <2> QED
      BY <2>1, PointsAre, Zenon
  <1>2. 1 \in 1 .. 3 /\ 2 \in 1 .. 3 /\ 3 \in 1 .. 3
    OBVIOUS
  <1>3. \A i \in 1 .. 3 : i = 1 \/ i = 2 \/ i = 3
    OBVIOUS
  <1>4. PICK x \in Extended, y \in Extended, z \in Extended :
          x = Enter(p, 1, 0, Dim[1]) /\ y = Enter(p, 2, 0, Dim[2]) /\ z = Enter(p, 3, 0, Dim[3])
    BY <1>1, <1>2, Zenon
  <1>5. PICK u \in Extended, v \in Extended, w \in Extended :
          u = Exit(p, 1, 0, Dim[1]) /\ v = Exit(p, 2, 0, Dim[2]) /\ w = Exit(p, 3, 0, Dim[3])
    BY <1>1, <1>2, Zenon
  <1> DEFINE in == [i \in 1 .. 3 |-> Enter(p, i, 0, Dim[i])]
             axis == IF Less(x, y) THEN 2 ELSE 1
  <1>6. in[1] = x /\ in[2] = y /\ in[3] = z
    BY <1>4
  <1>7. EntryAxis(p) = IF Less(in[axis], z) THEN 3 ELSE axis
    BY <1>6 DEF EntryAxis
  <1> DEFINE e == Enter(p, EntryAxis(p), 0, Dim[EntryAxis(p)])
  <1>8. /\ EntryAxis(p) \in 1 .. 3 /\ e \in Extended
        /\ AtMost(x, e) /\ AtMost(y, e) /\ AtMost(z, e)
    <2>1. CASE axis = 2 /\ Less(x, y)
      <3>1. in[axis] = y /\ AtMost(x, y)
        <4>1. in[axis] = y
          BY <1>6, <2>1
        <4> QED
          BY <2>1, <4>1, Ordered, Zenon
      <3>2. CASE Less(y, z)
        <4>1. EntryAxis(p) = 3
          BY <1>7, <3>1, <3>2
        <4>2. e = z
          BY <1>4, <4>1
        <4>3. AtMost(y, z) /\ AtMost(z, z)
          BY <3>2, Ordered, Zenon
        <4> QED
          BY <1>2, <3>1, <4>1, <4>2, <4>3, Ordered
      <3>3. CASE ~Less(y, z)
        <4>1. EntryAxis(p) = 2
          BY <1>7, <2>1, <3>1, <3>3
        <4>2. e = y
          BY <1>4, <4>1
        <4>3. AtMost(z, y) /\ AtMost(y, y)
          BY <3>3, Ordered, Zenon DEF AtMost
        <4> QED
          BY <1>2, <3>1, <4>1, <4>2, <4>3, Zenon
      <3> QED
        BY <3>2, <3>3, Zenon
    <2>2. CASE axis = 1 /\ ~Less(x, y)
      <3>1. in[axis] = x /\ AtMost(y, x)
        BY <1>6, <2>2, Zenon DEF AtMost
      <3>2. CASE Less(x, z)
        <4>1. EntryAxis(p) = 3
          BY <1>7, <3>1, <3>2
        <4>2. e = z
          BY <1>4, <4>1
        <4>3. AtMost(x, z) /\ AtMost(z, z)
          BY <3>2, Ordered, Zenon
        <4> QED
          BY <1>2, <3>1, <4>1, <4>2, <4>3, Ordered
      <3>3. CASE ~Less(x, z)
        <4>1. EntryAxis(p) = 1
          BY <1>7, <2>2, <3>1, <3>3
        <4>2. e = x
          BY <1>4, <4>1
        <4>3. AtMost(z, x) /\ AtMost(x, x)
          BY <3>3, Ordered, Zenon DEF AtMost
        <4> QED
          BY <1>2, <3>1, <4>1, <4>2, <4>3, Zenon
      <3> QED
        BY <3>2, <3>3, Zenon
    <2> QED
      BY <2>1, <2>2
  <1>9. Close(p) = Greatest(Start, e)
    BY Zenon DEF Close, Start
  <1> HIDE DEF e
  <1>10. Close(p) \in {Start, e} /\ Close(p) \in Extended /\ AtMost(Start, Close(p)) /\ AtMost(e, Close(p))
    BY <1>8, <1>9, Ends, GreaterOf
  <1>11. AtMost(x, Close(p)) /\ AtMost(y, Close(p)) /\ AtMost(z, Close(p))
    BY <1>8, <1>10, Ordered, Zenon
  <1> DEFINE r == Least(v, w)
  <1>12. Far(p) = Least(u, r)
    BY <1>5 DEF Far
  <1>13. r \in {v, w} /\ r \in Extended /\ AtMost(r, v) /\ AtMost(r, w)
    BY LesserOf
  <1> HIDE DEF r
  <1>14. Far(p) \in {u, r} /\ Far(p) \in Extended /\ AtMost(Far(p), u) /\ AtMost(Far(p), r)
    BY <1>12, <1>13, LesserOf
  <1>15. AtMost(Far(p), v) /\ AtMost(Far(p), w)
    BY <1>13, <1>14, Ordered, Zenon
  <1>16. \A i \in 1 .. 3 : /\ AtMost(Enter(p, i, 0, Dim[i]), Close(p))
                           /\ AtMost(Far(p), Exit(p, i, 0, Dim[i]))
    BY <1>3, <1>4, <1>5, <1>11, <1>14, <1>15, Zenon
  <1>17. \E i \in 1 .. 3 : Far(p) = Exit(p, i, 0, Dim[i])
    <2>1. Far(p) = u \/ Far(p) = v \/ Far(p) = w
      BY <1>13, <1>14, Zenon
    <2> QED
      BY <1>2, <1>5, <2>1, Zenon
  <1> QED
    <2>1. Close(p) = Start \/ Close(p) = Enter(p, EntryAxis(p), 0, Dim[EntryAxis(p)])
      BY <1>10 DEF e
    <2> QED
      BY <1>8, <1>10, <1>14, <1>16, <1>17, <2>1, Zenon

\* A block is entered after the world and left before it.
LEMMA BlockInWorld ==
  ASSUME NEW p \in Pose, NEW c \in Blocks
  PROVE  AtMost(Close(p), BlockEnter(p, c)) /\ AtMost(BlockExit(p, c), Far(p))
  <1>1. \A i \in 1 .. 3 : c[i] \in Int /\ c[i] \in Cells(Dim[i])
    BY Coordinates, Zenon
  <1>2. \A i \in 1 .. 3 : EnterAt(p, i, c[i]) \in Extended /\ ExitAt(p, i, c[i]) \in Extended
    BY <1>1, CellPoints, Zenon
  <1>3. \A i \in 1 .. 3 : Enter(p, i, 0, Dim[i]) \in Extended /\ Exit(p, i, 0, Dim[i]) \in Extended
    <2>1. \A i \in 1 .. 3 : Dim[i] \in Int /\ 0 < Dim[i] /\ 0 \in Int
      BY WorldAssumption DEF Dim
    <2> QED
      BY <2>1, PointsAre, Zenon
  <1>4. \A i \in 1 .. 3 : /\ AtMost(Enter(p, i, 0, Dim[i]), BlockEnter(p, c))
                          /\ AtMost(BlockExit(p, c), Exit(p, i, 0, Dim[i]))
    <2> TAKE i \in 1 .. 3
    <2>1. AtMost(Enter(p, i, 0, Dim[i]), EnterAt(p, i, c[i]))
          /\ AtMost(ExitAt(p, i, c[i]), Exit(p, i, 0, Dim[i]))
      BY <1>1, WorldAround, Zenon
    <2>2. AtMost(EnterAt(p, i, c[i]), BlockEnter(p, c)) /\ AtMost(BlockExit(p, c), ExitAt(p, i, c[i]))
      BY BlockPoints, Zenon
    <2>3. BlockEnter(p, c) \in Extended /\ BlockExit(p, c) \in Extended
      BY BlockPoints, Zenon
    <2>4. /\ EnterAt(p, i, c[i]) \in Extended /\ ExitAt(p, i, c[i]) \in Extended
          /\ Enter(p, i, 0, Dim[i]) \in Extended /\ Exit(p, i, 0, Dim[i]) \in Extended
      BY <1>2, <1>3, Zenon
    <2>5. AtMost(Enter(p, i, 0, Dim[i]), BlockEnter(p, c))
      BY <2>1, <2>2, <2>3, <2>4, Ordered
    <2>6. AtMost(BlockExit(p, c), Exit(p, i, 0, Dim[i]))
      BY <2>1, <2>2, <2>3, <2>4, Ordered
    <2> QED
      BY <2>5, <2>6
  <1>5. AtMost(Start, BlockEnter(p, c))
    BY BlockPoints, Zenon
  <1>6. Close(p) = Start \/ Close(p) = Enter(p, EntryAxis(p), 0, Dim[EntryAxis(p)])
    BY WorldPoints, Zenon
  <1>7. EntryAxis(p) \in 1 .. 3
    BY WorldPoints, Zenon
  <1>8. PICK i \in 1 .. 3 : Far(p) = Exit(p, i, 0, Dim[i])
    BY WorldPoints, Zenon
  <1> QED
    BY <1>4, <1>5, <1>6, <1>7, <1>8, Zenon

\* Rounding down, at the far border to the last cell.
LEMMA CellOf ==
  ASSUME NEW x \in Int, NEW W \in Nat \ {0}, NEW n \in Nat \ {0}, 0 <= x, x <= n * W
  PROVE  LET floor == x \div W
             c == IF floor < 0 THEN 0 ELSE IF floor >= n THEN n - 1 ELSE floor
         IN c \in Int /\ c * W <= x /\ x <= (c + 1) * W
  <1> DEFINE floor == x \div W
             c == IF floor < 0 THEN 0 ELSE IF floor >= n THEN n - 1 ELSE floor
  <1>1. floor \in Int /\ floor * W <= x /\ x < (floor + 1) * W
    <2>1. floor \in Int /\ W * floor <= x /\ x < W * floor + W
      OBVIOUS
    <2> HIDE DEF floor
    <2>2. W * floor = floor * W /\ (floor + 1) * W = W * floor + W
      BY <2>1
    <2> QED
      BY <2>1, <2>2
  <1> HIDE DEF floor
  <1>2. floor >= 0
    <2>1. ASSUME floor < 0 PROVE FALSE
      <3>1. floor + 1 <= 0 /\ floor + 1 \in Int
        BY <1>1, <2>1
      <3>2. (floor + 1) * W <= 0 * W /\ (floor + 1) * W \in Int /\ 0 * W = 0
        BY <3>1, Times
      <3> QED
        BY <1>1, <3>2
    <2> QED
      BY <1>1, <2>1
  <1>3. n - 1 \in Int /\ (n - 1) + 1 = n
    OBVIOUS
  <1>4. CASE floor >= n
    <2>1. c = n - 1
      BY <1>1, <1>2, <1>4
    <2>2. n - 1 <= floor
      BY <1>1, <1>4
    <2>3. (n - 1) * W <= floor * W /\ (n - 1) * W \in Int /\ floor * W \in Int
      BY <1>1, <1>3, <2>2, Times
    <2>4. (n - 1) * W <= x
      BY <1>1, <2>3
    <2> HIDE DEF c
    <2> QED
      BY <1>3, <2>1, <2>4 DEF c, floor
  <1>5. CASE ~(floor >= n)
    <2>1. c = floor
      BY <1>1, <1>2, <1>5
    <2>2. (floor + 1) * W \in Int
      BY <1>1
    <2> HIDE DEF c
    <2> QED
      BY <1>1, <2>1, <2>2 DEF c, floor
  <1> QED
    BY <1>4, <1>5

\* The ray is in the first cell when it enters the world.
LEMMA EntryCell ==
  ASSUME NEW p \in Pose, ~Less(Far(p), Close(p)), ~TooFar(Close(p), p.forward), NEW i \in 1 .. 3
  PROVE  LET b == CellAt(p, Close(p)) IN
         AtMost(EnterAt(p, i, b[i]), Close(p)) /\ AtMost(Close(p), ExitAt(p, i, b[i]))
  <1> DEFINE s == Close(p)
             x == p.position[i] * s[2] + UNIT * p.forward[i] * s[1]
             W == UNIT * s[2]
             floor == x \div W
             c == IF floor < 0 THEN 0 ELSE IF floor >= Dim[i] THEN Dim[i] - 1 ELSE floor
  <1>1. CellAt(p, s)[i] = c
    BY DEF CellAt
  <1>2. /\ s \in Extended /\ Far(p) \in Extended
        /\ AtMost(Enter(p, i, 0, Dim[i]), s) /\ AtMost(Far(p), Exit(p, i, 0, Dim[i]))
    BY WorldPoints, Zenon
  <1>3. s[1] \in Int /\ s[2] \in Nat \ {0}
    BY <1>2 DEF Extended, TooFar
  <1>4. /\ Dim[i] \in Nat \ {0} /\ UNIT \in Nat \ {0} /\ W \in Nat \ {0} /\ x \in Int
        /\ p.position[i] \in Int /\ p.forward[i] \in Int /\ UNIT * p.forward[i] \in Int
    <2>1. Dim[i] \in Nat \ {0} /\ UNIT \in Nat \ {0}
      BY WorldAssumption DEF Dim
    <2>2. p.position[i] \in Int /\ p.forward[i] \in Int
      BY DEF Pose
    <2>3. W \in Nat \ {0}
      BY <1>3, <2>1
    <2>4. UNIT * p.forward[i] \in Int
      BY <2>1, <2>2
    <2>5. p.position[i] * s[2] \in Int /\ UNIT * p.forward[i] * s[1] \in Int
      BY <1>3, <2>2, <2>4
    <2> QED
      BY <2>1, <2>2, <2>3, <2>4, <2>5
  <1>5. AtMost(s, Exit(p, i, 0, Dim[i]))
    <2>1. AtMost(s, Far(p))
      BY Zenon DEF AtMost
    <2>2. Exit(p, i, 0, Dim[i]) \in Extended
      <3>1. 0 \in Int /\ Dim[i] \in Int /\ 0 < Dim[i]
        BY <1>4
      <3> QED
        BY <3>1, PointsAre, Zenon
    <2> QED
      BY <1>2, <2>1, <2>2, Ordered, Zenon
  <1> HIDE DEF s, x, W
  <1>6. ASSUME 0 <= x, x <= Dim[i] * W
        PROVE  c \in Int /\ c * W <= x /\ x <= (c + 1) * W
    BY <1>4, <1>6, CellOf
  <1> HIDE DEF c
  <1>7. CASE p.forward[i] # 0
    <2>1. \A a \in Int : /\ AtMost(Crossing(p, i, a), s) <=>
                              IF p.forward[i] < 0 THEN x <= a * W ELSE a * W <= x
                         /\ AtMost(s, Crossing(p, i, a)) <=>
                              IF p.forward[i] < 0 THEN a * W <= x ELSE x <= a * W
      BY <1>2, <1>3, <1>7, CrossedBefore DEF x, W
    <2>2. 0 \in Int /\ Dim[i] \in Int /\ 0 < Dim[i] /\ 0 * W = 0
      BY <1>4
    <2>3. /\ Enter(p, i, 0, Dim[i]) = Crossing(p, i, IF p.forward[i] < 0 THEN Dim[i] ELSE 0)
          /\ Exit(p, i, 0, Dim[i]) = Crossing(p, i, IF p.forward[i] < 0 THEN 0 ELSE Dim[i])
      BY <1>7, <2>2, EnterIs
    <2>4. 0 * W <= x /\ x <= Dim[i] * W
      <3>1. CASE p.forward[i] < 0
        <4>1. AtMost(Crossing(p, i, Dim[i]), s) /\ AtMost(s, Crossing(p, i, 0))
          BY <1>2, <1>5, <2>3, <3>1
        <4> QED
          BY <2>1, <2>2, <3>1, <4>1, Zenon
      <3>2. CASE ~(p.forward[i] < 0)
        <4>1. AtMost(Crossing(p, i, 0), s) /\ AtMost(s, Crossing(p, i, Dim[i]))
          BY <1>2, <1>5, <2>3, <3>2
        <4> QED
          BY <2>1, <2>2, <3>2, <4>1, Zenon
      <3> QED
        BY <3>1, <3>2, Zenon
    <2>5. c \in Int /\ c * W <= x /\ x <= (c + 1) * W
      BY <1>6, <2>2, <2>4
    <2>6. c + 1 \in Int /\ c < c + 1
      BY <2>5
    <2>7. /\ EnterAt(p, i, c) = Crossing(p, i, IF p.forward[i] < 0 THEN c + 1 ELSE c)
          /\ ExitAt(p, i, c) = Crossing(p, i, IF p.forward[i] < 0 THEN c ELSE c + 1)
      BY <1>7, <2>5, <2>6, EnterIs DEF EnterAt, ExitAt
    <2>8. AtMost(EnterAt(p, i, c), s) /\ AtMost(s, ExitAt(p, i, c))
      <3>1. CASE p.forward[i] < 0
        <4>1. EnterAt(p, i, c) = Crossing(p, i, c + 1) /\ ExitAt(p, i, c) = Crossing(p, i, c)
          BY <2>7, <3>1
        <4> QED
          BY <2>1, <2>5, <2>6, <3>1, <4>1, Zenon
      <3>2. CASE ~(p.forward[i] < 0)
        <4>1. EnterAt(p, i, c) = Crossing(p, i, c) /\ ExitAt(p, i, c) = Crossing(p, i, c + 1)
          BY <2>7, <3>2
        <4> QED
          BY <2>1, <2>5, <2>6, <3>2, <4>1, Zenon
      <3> QED
        BY <3>1, <3>2, Zenon
    <2> QED
      BY <1>1, <2>8, Zenon DEF s
  <1>8. CASE p.forward[i] = 0
    <2>1. /\ Exit(p, i, 0, Dim[i]) = Infinity
          /\ Enter(p, i, 0, Dim[i]) = IF UNIT * 0 <= p.position[i] /\ p.position[i] <= UNIT * Dim[i]
                                      THEN MinusInfinity ELSE Infinity
      BY <1>4, <1>8, StandingStill
    <2>2. Enter(p, i, 0, Dim[i]) # Infinity
      BY <1>2, <1>3, Ends, Zenon
    <2>3. UNIT * 0 <= p.position[i] /\ p.position[i] <= UNIT * Dim[i]
      BY <2>1, <2>2, Zenon
    <2>4. PICK U \in Nat \ {0}, y \in Int, d \in Nat \ {0}, n \in Nat \ {0} :
            U = UNIT /\ y = p.position[i] /\ d = s[2] /\ n = Dim[i]
      BY <1>3, <1>4, Zenon
    <2>5. x = y * d /\ W = U * d
      <3>1. UNIT * p.forward[i] * s[1] = 0
        <4>1. UNIT * p.forward[i] = 0
          BY <1>4, <1>8
        <4> QED
          BY <1>3, <4>1
      <3>2. y * d \in Int /\ y * d + 0 = y * d
        OBVIOUS
      <3> QED
        BY <2>4, <3>1, <3>2, Zenon DEF x, W
    <2>6. U * 0 = 0 /\ y >= 0 /\ y <= U * n
      BY <2>3, <2>4
    <2>7. 0 <= x /\ x <= Dim[i] * W
      <3>1. y * d >= 0
        BY <2>6
      <3>2. y * d <= (U * n) * d
        <4>1. U * n \in Int
          OBVIOUS
        <4> QED
          BY <2>6, <4>1, Times
      <3>3. (U * n) * d = n * (U * d)
        OBVIOUS
      <3> QED
        BY <2>4, <2>5, <3>1, <3>2, <3>3
    <2>8. c \in Int /\ c * W <= x /\ x <= (c + 1) * W
      BY <1>6, <2>7
    <2>9. PICK k \in Int : k = c
      BY <2>8, Zenon
    <2>10. U * k <= y /\ y <= U * (k + 1)
      <3>1. U * k \in Int /\ U * (k + 1) \in Int
        OBVIOUS
      <3>2. k * (U * d) = (U * k) * d /\ (k + 1) * (U * d) = (U * (k + 1)) * d
        OBVIOUS
      <3>3. (U * k) * d <= y * d /\ y * d <= (U * (k + 1)) * d
        BY <2>5, <2>8, <2>9, <3>2, Zenon
      <3> QED
        BY <3>1, <3>3, Times
    <2>11. c + 1 \in Int
      BY <2>8
    <2>12. /\ ExitAt(p, i, c) = Infinity
           /\ EnterAt(p, i, c) = MinusInfinity
      BY <1>8, <2>4, <2>8, <2>9, <2>10, <2>11, StandingStill DEF EnterAt, ExitAt
    <2> QED
      BY <1>1, <1>2, <2>12, Ends, Zenon DEF s
  <1> QED
    BY <1>7, <1>8, Zenon

-----------------------------------------------------------------------------
(* From cell to cell.                                                      *)

\* A block that is passed is not left by the time it is entered.
LEMMA PassedHasInside ==
  ASSUME NEW p \in Pose, NEW c \in Blocks, Passes(p, c), NEW x \in Extended,
         AtMost(BlockExit(p, c), x), AtMost(x, BlockEnter(p, c))
  PROVE  FALSE
  <1>1. BlockEnter(p, c) \in Extended /\ BlockExit(p, c) \in Extended
    BY BlockPoints, Zenon
  <1>2. AtMost(BlockExit(p, c), BlockEnter(p, c))
    BY <1>1, Ordered, Zenon
  <1> QED
    BY <1>2, Zenon DEF Passes, AtMost

LEMMA NearestPlane ==
  ASSUME NEW t, \A i \in 1 .. 3 : t[i] \in Extended
  PROVE  NextAxis(t) \in 1 .. 3 /\ \A i \in 1 .. 3 : AtMost(t[NextAxis(t)], t[i])
  <1>1. PICK x \in Extended, y \in Extended, z \in Extended : x = t[1] /\ y = t[2] /\ z = t[3]
    OBVIOUS
  <1>2. \A i \in 1 .. 3 : i = 1 \/ i = 2 \/ i = 3
    OBVIOUS
  <1>3. 1 \in 1 .. 3 /\ 2 \in 1 .. 3 /\ 3 \in 1 .. 3
    OBVIOUS
  <1>4. AtMost(x, x) /\ AtMost(y, y) /\ AtMost(z, z)
    BY Ordered, Zenon
  <1>5. CASE Less(x, y) /\ Less(x, z)
    <2>1. NextAxis(t) = 1
      BY <1>1, <1>5, Zenon DEF NextAxis
    <2>2. AtMost(x, y) /\ AtMost(x, z)
      BY <1>5, Ordered, Zenon
    <2> QED
      BY <1>1, <1>2, <1>3, <1>4, <2>1, <2>2, Zenon
  <1>6. CASE Less(x, y) /\ ~Less(x, z)
    <2>1. NextAxis(t) = 3
      BY <1>1, <1>6, Zenon DEF NextAxis
    <2>2. AtMost(x, y) /\ AtMost(z, x)
      BY <1>6, Ordered, Zenon DEF AtMost
    <2>3. AtMost(z, y)
      BY <2>2, Ordered, Zenon
    <2> QED
      BY <1>1, <1>2, <1>3, <1>4, <2>1, <2>2, <2>3, Zenon
  <1>7. CASE ~Less(x, y) /\ Less(y, z)
    <2>1. NextAxis(t) = 2
      BY <1>1, <1>7, Zenon DEF NextAxis
    <2>2. AtMost(y, x) /\ AtMost(y, z)
      BY <1>7, Ordered, Zenon DEF AtMost
    <2> QED
      BY <1>1, <1>2, <1>3, <1>4, <2>1, <2>2, Zenon
  <1>8. CASE ~Less(x, y) /\ ~Less(y, z)
    <2>1. NextAxis(t) = 3
      BY <1>1, <1>8, Zenon DEF NextAxis
    <2>2. AtMost(y, x) /\ AtMost(z, y)
      BY <1>8, Zenon DEF AtMost
    <2>3. AtMost(z, x)
      BY <2>2, Ordered, Zenon
    <2> QED
      BY <1>1, <1>2, <1>3, <1>4, <2>1, <2>2, <2>3, Zenon
  <1> QED
    BY <1>5, <1>6, <1>7, <1>8, Zenon

LEMMA NextCrossingIs ==
  ASSUME NEW p \in Pose, NEW i \in 1 .. 3, NEW b, b[i] \in Int
  PROVE  NextCrossing(p, b, i) = ExitAt(p, i, b[i])
  <1>1. b[i] + 1 \in Int /\ b[i] < b[i] + 1
    OBVIOUS
  <1>2. CASE p.forward[i] = 0
    BY <1>1, <1>2, StandingStill, Zenon DEF NextCrossing, ExitAt
  <1>3. CASE p.forward[i] # 0
    <2>1. ExitAt(p, i, b[i]) = Crossing(p, i, IF p.forward[i] < 0 THEN b[i] ELSE b[i] + 1)
      BY <1>1, <1>3, EnterIs DEF ExitAt
    <2> QED
      BY <1>3, <2>1, Zenon DEF NextCrossing
  <1> QED
    BY <1>2, <1>3, Zenon

\* The next cell of the ray.
NextBlock(p, b, axis) == [b EXCEPT ![axis] = @ + Sign(p.forward[axis])]

LEMMA NextBlockIs ==
  ASSUME NEW p \in Pose, NEW b \in Blocks, NEW axis \in 1 .. 3
  PROVE  /\ NextBlock(p, b, axis)[axis] = b[axis] + Sign(p.forward[axis])
         /\ \A i \in 1 .. 3 : i # axis => NextBlock(p, b, axis)[i] = b[i]
         /\ Sign(p.forward[axis]) \in {-1, 1}
         /\ b[axis] + Sign(p.forward[axis]) \in Cells(Dim[axis])
              => NextBlock(p, b, axis) \in Blocks
  <1>1. b = <<b[1], b[2], b[3]>> /\ DOMAIN b = 1 .. 3
    <2>1. b = <<b[1], b[2], b[3]>>
      BY BlocksAre, Zenon
    <2>2. DOMAIN <<b[1], b[2], b[3]>> = 1 .. 3
      OBVIOUS
    <2> QED
      BY <2>1, <2>2, Zenon
  <1> DEFINE n == NextBlock(p, b, axis)
  <1>2. n[axis] = b[axis] + Sign(p.forward[axis]) /\ DOMAIN n = 1 .. 3
    BY <1>1 DEF NextBlock
  <1>3. \A i \in 1 .. 3 : i # axis => n[i] = b[i]
    BY <1>1 DEF NextBlock
  <1>4. Sign(p.forward[axis]) \in {-1, 1}
    BY DEF Sign
  <1>5. n = <<n[1], n[2], n[3]>>
    <2>1. n = [i \in 1 .. 3 |-> n[i]]
      <3>1. n = [i \in DOMAIN b |->
                   IF i = axis THEN b[axis] + Sign(p.forward[axis]) ELSE b[i]]
        BY Zenon DEF NextBlock
      <3>2. n = [i \in 1 .. 3 |->
                   IF i = axis THEN b[axis] + Sign(p.forward[axis]) ELSE b[i]]
        BY <1>1, <3>1
      <3> QED
        BY <3>2
    <2> HIDE DEF n
    <2> QED
      BY <2>1
  <1> HIDE DEF n
  <1>6. ASSUME b[axis] + Sign(p.forward[axis]) \in Cells(Dim[axis])
        PROVE  n \in Blocks
    <2>1. \A i \in 1 .. 3 : n[i] \in Cells(Dim[i])
      BY <1>2, <1>3, <1>6, Coordinates
    <2> QED
      BY <1>5, <2>1, BlocksAre, Zenon
  <1> QED
    BY <1>2, <1>3, <1>4, <1>6, Zenon DEF n

\* What is beyond a cell is entered after the ray has crossed the next plane.
LEMMA BeyondIsLater ==
  ASSUME NEW p \in Pose, NEW b \in Blocks, NEW c \in Blocks, NEW x \in Extended,
         \A i \in 1 .. 3 : AtMost(x, ExitAt(p, i, b[i])),
         \E i \in 1 .. 3 : p.forward[i] # 0 /\ Beyond(p, i, c[i], b[i])
  PROVE  AtMost(x, BlockEnter(p, c))
  <1>1. PICK i \in 1 .. 3 : p.forward[i] # 0 /\ Beyond(p, i, c[i], b[i])
    OBVIOUS
  <1>2. b[i] \in Int /\ c[i] \in Int
    BY Coordinates, Zenon
  <1>3. PICK y \in Extended, z \in Extended, e \in Extended :
          y = ExitAt(p, i, b[i]) /\ z = EnterAt(p, i, c[i]) /\ e = BlockEnter(p, c)
    BY <1>2, CellPoints, BlockPoints, Zenon
  <1>4. AtMost(x, y)
    BY <1>3, Zenon
  <1>5. AtMost(y, z)
    BY <1>1, <1>2, <1>3, CellsInOrder, Zenon
  <1>6. AtMost(z, e)
    BY <1>3, BlockPoints, Zenon
  <1>7. AtMost(x, z)
    BY <1>4, <1>5, Ordered, Zenon
  <1>8. AtMost(x, e)
    BY <1>6, <1>7, Ordered, Zenon
  <1> QED
    BY <1>3, <1>8, Zenon

\* One step from a cell the ray touches, over the plane it crosses at x.
LEMMA StepForward ==
  ASSUME NEW p \in Pose, NEW b \in Blocks, Touches(p, b),
         NEW axis \in 1 .. 3, p.forward[axis] # 0,
         \A i \in 1 .. 3 : AtMost(ExitAt(p, axis, b[axis]), ExitAt(p, i, b[i])),
         NextBlock(p, b, axis) \in Blocks
  PROVE  LET n == NextBlock(p, b, axis)
             x == ExitAt(p, axis, b[axis])
         IN /\ x \in Extended /\ x = EnterAt(p, axis, n[axis])
            /\ AtMost(Start, x)
            /\ AtMost(BlockEnter(p, b), x)
            /\ AtMost(BlockEnter(p, n), x) /\ AtMost(x, BlockEnter(p, n))
            /\ Touches(p, n)
            /\ \A i \in 1 .. 3 : AtMost(EnterAt(p, i, n[i]), x)
  <1> DEFINE n == NextBlock(p, b, axis)
             x == ExitAt(p, axis, b[axis])
  <1>1. \A i \in 1 .. 3 : b[i] \in Int /\ n[i] \in Int
    BY Coordinates, Zenon
  <1>2. \A i \in 1 .. 3 : /\ EnterAt(p, i, b[i]) \in Extended /\ ExitAt(p, i, b[i]) \in Extended
                          /\ EnterAt(p, i, n[i]) \in Extended /\ ExitAt(p, i, n[i]) \in Extended
    BY <1>1, CellPoints, Zenon
  <1>3. n[axis] = b[axis] + Sign(p.forward[axis]) /\ \A i \in 1 .. 3 : i # axis => n[i] = b[i]
    BY NextBlockIs, Zenon
  <1>4. x = EnterAt(p, axis, n[axis])
    BY <1>1, <1>3, CellsInOrder, Zenon
  <1>5. /\ BlockEnter(p, b) \in Extended /\ BlockExit(p, b) \in Extended
        /\ BlockEnter(p, n) \in Extended /\ BlockExit(p, n) \in Extended
        /\ x \in Extended /\ Start \in Extended
    BY <1>2, BlockPoints, Ends, Zenon
  <1>6. AtMost(BlockEnter(p, b), x)
    <2>1. AtMost(BlockEnter(p, b), BlockExit(p, b))
      BY Zenon DEF Touches, AtMost
    <2>2. AtMost(BlockExit(p, b), x)
      BY BlockPoints, Zenon
    <2> QED
      BY <1>5, <2>1, <2>2, Ordered, Zenon
  <1>7. AtMost(Start, x)
    <2>1. AtMost(Start, BlockEnter(p, b))
      BY BlockPoints, Zenon
    <2> QED
      BY <1>5, <1>6, <2>1, Ordered, Zenon
  <1>8. ASSUME NEW i \in 1 .. 3 PROVE AtMost(EnterAt(p, i, n[i]), x)
    <2>1. CASE i = axis
      BY <1>4, <1>5, <2>1, Ordered, Zenon
    <2>2. CASE i # axis
      <3>1. n[i] = b[i]
        BY <1>3, <2>2, Zenon
      <3>2. AtMost(EnterAt(p, i, b[i]), BlockEnter(p, b))
        BY BlockPoints, Zenon
      <3>3. EnterAt(p, i, b[i]) \in Extended
        BY <1>2, Zenon
      <3>4. AtMost(EnterAt(p, i, b[i]), x)
        BY <1>5, <1>6, <3>2, <3>3, Ordered
      <3> QED
        BY <3>1, <3>4, Zenon
    <2> QED
      BY <2>1, <2>2, Zenon
  <1>9. ASSUME NEW i \in 1 .. 3 PROVE AtMost(x, ExitAt(p, i, n[i]))
    <2>1. CASE i = axis
      <3>1. AtMost(EnterAt(p, axis, n[axis]), ExitAt(p, axis, n[axis]))
        BY <1>1, CellsInOrder, Zenon
      <3> QED
        BY <1>4, <2>1, <3>1, Zenon
    <2>2. CASE i # axis
      BY <1>3, <2>2, Zenon
    <2> QED
      BY <2>1, <2>2, Zenon
  <1>10. AtMost(BlockEnter(p, n), x)
    BY <1>5, <1>7, <1>8, BlockPoints, Zenon
  <1>11. AtMost(x, BlockEnter(p, n))
    BY <1>4, BlockPoints, Zenon
  <1>12. AtMost(x, BlockExit(p, n))
    BY <1>5, <1>9, BlockPoints, Zenon
  <1>13. AtMost(BlockEnter(p, n), BlockExit(p, n))
    BY <1>5, <1>10, <1>12, Ordered
  <1>14. Touches(p, n)
    BY <1>13, Zenon DEF Touches, AtMost
  <1> QED
    BY <1>4, <1>5, <1>6, <1>7, <1>8, <1>10, <1>11, <1>14, Zenon

\* A block the ray passes that was beyond a cell is the next cell or beyond that.
LEMMA StillBeyond ==
  ASSUME NEW p \in Pose, NEW b \in Blocks, Touches(p, b),
         NEW axis \in 1 .. 3, p.forward[axis] # 0,
         \A i \in 1 .. 3 : AtMost(ExitAt(p, axis, b[axis]), ExitAt(p, i, b[i])),
         NextBlock(p, b, axis) \in Blocks, InReach(p, NextBlock(p, b, axis)),
         NEW c \in Blocks, Passes(p, c), c # NextBlock(p, b, axis),
         \E i \in 1 .. 3 : p.forward[i] # 0 /\ Beyond(p, i, c[i], b[i])
  PROVE  \E i \in 1 .. 3 : p.forward[i] # 0 /\ Beyond(p, i, c[i], NextBlock(p, b, axis)[i])
  <1> DEFINE n == NextBlock(p, b, axis)
             x == ExitAt(p, axis, b[axis])
  <1> SUFFICES ASSUME \A i \in 1 .. 3 : p.forward[i] # 0 => ~Beyond(p, i, c[i], n[i])
               PROVE  FALSE
    BY Zenon
  <1>1. \A i \in 1 .. 3 : b[i] \in Int /\ c[i] \in Int /\ n[i] \in Int
    BY Coordinates, Zenon
  <1>2. n[axis] = b[axis] + Sign(p.forward[axis]) /\ \A i \in 1 .. 3 : i # axis => n[i] = b[i]
    BY NextBlockIs, Zenon
  <1>3. /\ x \in Extended /\ x = EnterAt(p, axis, n[axis])
        /\ \A i \in 1 .. 3 : AtMost(EnterAt(p, i, n[i]), x)
    BY StepForward, Zenon
  <1>4. PICK i \in 1 .. 3 : p.forward[i] # 0 /\ Beyond(p, i, c[i], b[i])
    OBVIOUS
  <1>5. i = axis
    BY <1>2, <1>4, Zenon
  <1>6. c[axis] = n[axis]
    <2>1. b[axis] \in Int /\ c[axis] \in Int
      BY <1>1, Zenon
    <2>2. Beyond(p, axis, c[axis], b[axis]) /\ ~Beyond(p, axis, c[axis], n[axis])
      BY <1>4, <1>5, Zenon
    <2>3. n[axis] = b[axis] + Sign(p.forward[axis])
      BY <1>2, Zenon
    <2> HIDE DEF n
    <2> QED
      BY <2>1, <2>2, <2>3 DEF Beyond, Sign
  <1>7. PICK j \in 1 .. 3 : /\ p.forward[j] # 0 /\ c[j] # n[j]
                            /\ AtMost(ExitAt(p, j, c[j]), EnterAt(p, j, n[j]))
    BY PassedBefore, Zenon
  <1>8. PICK u \in Extended, v \in Extended, w \in Extended, e \in Extended :
          /\ u = ExitAt(p, j, c[j]) /\ v = EnterAt(p, j, n[j])
          /\ w = BlockExit(p, c) /\ e = BlockEnter(p, c)
    BY <1>1, CellPoints, BlockPoints, Zenon
  <1>9. AtMost(w, u) /\ AtMost(u, v) /\ AtMost(v, x)
    BY <1>3, <1>7, <1>8, BlockPoints, Zenon
  <1>10. AtMost(x, e)
    BY <1>3, <1>6, <1>8, BlockPoints, Zenon
  <1> HIDE DEF x, n
  <1>11. AtMost(w, x)
    <2>1. AtMost(w, v)
      BY <1>9, Ordered, Zenon
    <2> QED
      BY <1>3, <1>9, <2>1, Ordered, Zenon
  <1> QED
    BY <1>3, <1>8, <1>10, <1>11, PassedHasInside, Zenon

-----------------------------------------------------------------------------
(* The walk yields every block the ray passes in reach, nearest first.     *)

Visited(cells, c) == \E k \in 1 .. Len(cells) : cells[k].block = c

\* A cell that is not entered at the camera is entered by its face.
FacesRay(p, cell) ==
  Less(Start, BlockEnter(p, cell.block)) =>
    \E i \in 1 .. 3 : /\ cell.face = FaceOf(p, i)
                      /\ AtMost(BlockEnter(p, cell.block), EnterAt(p, i, cell.block[i]))

InSight(p, cells) ==
  /\ \A k \in 1 .. Len(cells) : /\ cells[k].block \in Blocks
                                /\ Touches(p, cells[k].block) /\ InReach(p, cells[k].block)
                                /\ FacesRay(p, cells[k])
  /\ \A j, k \in 1 .. Len(cells) :
       j <= k => AtMost(BlockEnter(p, cells[j].block), BlockEnter(p, cells[k].block))

\* What the walk has not come to is beyond its cell, and out of reach when it is done.
WalkSees(p, state) ==
  /\ state.t = [i \in 1 .. 3 |-> ExitAt(p, i, state.block[i])]
  /\ InSight(p, state.cells)
  /\ \A c \in Blocks : Passes(p, c) /\ ~Visited(state.cells, c) =>
       /\ \E i \in 1 .. 3 : p.forward[i] # 0 /\ Beyond(p, i, c[i], state.block[i])
       /\ state.done => ~InReach(p, c)

LEMMA ActiveSees ==
  ASSUME NEW p \in Pose, ~Less(Far(p), Close(p)), ~TooFar(Close(p), p.forward)
  PROVE  WalkSees(p, Active(p)) /\ Active(p).done = FALSE
  <1> DEFINE b == CellAt(p, Close(p))
             cell == [block |-> b, face |-> FaceOf(p, EntryAxis(p))]
             state == Active(p)
  <1>1. b \in Blocks /\ EntryAxis(p) \in 1 .. 3
    BY EntryPoint, Zenon
  <1>2. /\ state.block = b /\ state.cells = <<cell>> /\ state.done = FALSE
        /\ state.t = [i \in 1 .. 3 |-> NextCrossing(p, b, i)]
    BY DEF Active
  <1>3. /\ Close(p) \in Extended /\ BlockEnter(p, b) \in Extended /\ BlockExit(p, b) \in Extended
        /\ Start \in Extended /\ AtMost(Start, Close(p))
    BY <1>1, BlockPoints, WorldPoints, Ends, Zenon
  <1>4. \A i \in 1 .. 3 : AtMost(EnterAt(p, i, b[i]), Close(p)) /\ AtMost(Close(p), ExitAt(p, i, b[i]))
    BY EntryCell, Zenon
  <1>5. cell.block = b /\ cell.face = FaceOf(p, EntryAxis(p))
    OBVIOUS
  <1> HIDE DEF b, cell, state
  <1>6. AtMost(BlockEnter(p, b), Close(p)) /\ AtMost(Close(p), BlockExit(p, b))
    BY <1>1, <1>3, <1>4, BlockPoints, Zenon
  <1>7. Touches(p, b)
    <2>1. AtMost(BlockEnter(p, b), BlockExit(p, b))
      BY <1>3, <1>6, Ordered, Zenon
    <2> QED
      BY <2>1, Zenon DEF Touches, AtMost
  <1>8. InReach(p, b)
    <2>1. AtMost(Start, BlockEnter(p, b)) /\ Square(p.forward) \in Nat
      BY <1>1, BlockPoints, SquareIs, Zenon
    <2> QED
      BY <1>3, <1>6, <2>1, TooFarther, Zenon DEF InReach
  <1>9. FacesRay(p, cell)
    <2> SUFFICES ASSUME Less(Start, BlockEnter(p, b))
                 PROVE  AtMost(BlockEnter(p, b), EnterAt(p, EntryAxis(p), b[EntryAxis(p)]))
      BY <1>1, <1>5, Zenon DEF FacesRay
    <2>1. Close(p) # Start
      BY <1>6, Zenon DEF AtMost
    <2>2. Close(p) = Enter(p, EntryAxis(p), 0, Dim[EntryAxis(p)])
      BY <2>1, WorldPoints, Zenon
    <2>3. b[EntryAxis(p)] \in Int /\ b[EntryAxis(p)] \in Cells(Dim[EntryAxis(p)])
      BY <1>1, Coordinates, Zenon
    <2>4. AtMost(Close(p), EnterAt(p, EntryAxis(p), b[EntryAxis(p)]))
      BY <1>1, <2>2, <2>3, WorldAround, Zenon
    <2>5. EnterAt(p, EntryAxis(p), b[EntryAxis(p)]) \in Extended
      BY <1>1, <2>3, CellPoints, Zenon
    <2> QED
      BY <1>3, <1>6, <2>4, <2>5, Ordered
  <1>10. InSight(p, state.cells)
    <2>1. Len(<<cell>>) = 1 /\ <<cell>>[1] = cell /\ \A k \in 1 .. 1 : k = 1
      OBVIOUS
    <2>2. AtMost(BlockEnter(p, b), BlockEnter(p, b))
      BY <1>3, Ordered, Zenon
    <2> QED
      BY <1>1, <1>2, <1>5, <1>7, <1>8, <1>9, <2>1, <2>2, Zenon DEF InSight
  <1>11. state.t = [i \in 1 .. 3 |-> ExitAt(p, i, state.block[i])]
    <2>1. \A i \in 1 .. 3 : NextCrossing(p, b, i) = ExitAt(p, i, b[i])
      BY <1>1, NextCrossingIs, Coordinates, Zenon
    <2> QED
      BY <1>2, <2>1
  <1>12. ASSUME NEW c \in Blocks, Passes(p, c), ~Visited(state.cells, c)
         PROVE  \E i \in 1 .. 3 : p.forward[i] # 0 /\ Beyond(p, i, c[i], b[i])
    <2> SUFFICES ASSUME \A i \in 1 .. 3 : p.forward[i] # 0 => ~Beyond(p, i, c[i], b[i])
                 PROVE  FALSE
      BY Zenon
    <2>1. c # b
      <3>1. Len(<<cell>>) = 1 /\ <<cell>>[1] = cell /\ 1 \in 1 .. 1
        OBVIOUS
      <3> QED
        BY <1>2, <1>5, <1>12, <3>1, Zenon DEF Visited
    <2>2. PICK i \in 1 .. 3 : AtMost(ExitAt(p, i, c[i]), EnterAt(p, i, b[i]))
      BY <1>1, <1>8, <1>12, <2>1, PassedBefore, Zenon
    <2>3. b[i] \in Int /\ c[i] \in Int
      BY <1>1, Coordinates, Zenon
    <2>4. PICK u \in Extended, v \in Extended, w \in Extended :
            u = ExitAt(p, i, c[i]) /\ v = EnterAt(p, i, b[i]) /\ w = BlockExit(p, c)
      BY <2>3, CellPoints, BlockPoints, Zenon
    <2>5. AtMost(w, u) /\ AtMost(u, v) /\ AtMost(v, Close(p))
      BY <1>4, <2>2, <2>4, BlockPoints, Zenon
    <2>6. AtMost(w, Close(p))
      <3>1. AtMost(w, v)
        BY <2>5, Ordered, Zenon
      <3> QED
        BY <1>3, <2>5, <3>1, Ordered, Zenon
    <2>7. AtMost(Close(p), BlockEnter(p, c))
      BY BlockInWorld, Zenon
    <2> QED
      BY <1>3, <1>12, <2>4, <2>6, <2>7, PassedHasInside, Zenon
  <1> QED
    BY <1>2, <1>10, <1>11, <1>12, Zenon DEF WalkSees, state

LEMMA AdvanceSees ==
  ASSUME NEW p \in Pose, NEW state, WalkOK(state), WalkSees(p, state), state.done \in BOOLEAN
  PROVE  WalkSees(p, Advance(p, state)) /\ Advance(p, state).done \in BOOLEAN
  <1> DEFINE b == state.block
             axis == NextAxis(state.t)
             n == NextBlock(p, b, axis)
             x == state.t[axis]
             cell == [block |-> n, face |-> FaceOf(p, axis)]
             stopped == [state EXCEPT !.done = TRUE]
             next == [block |-> n, done |-> FALSE,
                      t |-> [state.t EXCEPT ![axis] = NextCrossing(p, n, axis)],
                      cells |-> Append(state.cells, cell)]
             last == Len(state.cells)
             Unseen(c) == c \in Blocks /\ Passes(p, c) /\ ~Visited(state.cells, c)
  <1>1. Advance(p, state) = IF state.done THEN state
                            ELSE IF TooFar(x, p.forward) \/ n \notin Blocks THEN stopped ELSE next
    BY Zenon DEF Advance, NextBlock
  <1>2. /\ b \in Blocks /\ state.cells \in Seq(Cell) /\ last \in Nat /\ last > 0
        /\ state.cells[last].block = b /\ last \in 1 .. last
    BY DEF WalkOK
  <1>3. /\ state.t = [i \in 1 .. 3 |-> ExitAt(p, i, b[i])] /\ InSight(p, state.cells)
        /\ \A c : Unseen(c) =>
             /\ \E i \in 1 .. 3 : p.forward[i] # 0 /\ Beyond(p, i, c[i], b[i])
             /\ state.done => ~InReach(p, c)
    BY Zenon DEF WalkSees
  <1>4. \A i \in 1 .. 3 : state.t[i] = ExitAt(p, i, b[i])
    BY <1>3
  <1>5. \A i \in 1 .. 3 : b[i] \in Int /\ b[i] \in Cells(Dim[i]) /\ ExitAt(p, i, b[i]) \in Extended
    BY <1>2, Coordinates, CellPoints, Zenon
  <1>6. axis \in 1 .. 3 /\ \A i \in 1 .. 3 : AtMost(state.t[axis], state.t[i])
    BY <1>4, <1>5, NearestPlane, Zenon
  <1> HIDE DEF axis
  <1>7. x \in Extended /\ x = ExitAt(p, axis, b[axis]) /\ \A i \in 1 .. 3 : AtMost(x, ExitAt(p, i, b[i]))
    BY <1>4, <1>5, <1>6, Zenon
  <1>8. Touches(p, b) /\ InReach(p, b)
    BY <1>2, <1>3, Zenon DEF InSight
  <1>9. /\ BlockEnter(p, b) \in Extended /\ BlockExit(p, b) \in Extended /\ Start \in Extended
        /\ Square(p.forward) \in Nat
    BY <1>2, BlockPoints, Ends, SquareIs, Zenon
  <1>10. AtMost(BlockEnter(p, b), x) /\ AtMost(Start, x)
    <2>1. AtMost(BlockEnter(p, b), BlockExit(p, b))
      BY <1>8, Zenon DEF Touches, AtMost
    <2>2. AtMost(BlockExit(p, b), x) /\ AtMost(Start, BlockEnter(p, b))
      BY <1>2, <1>6, <1>7, BlockPoints, Zenon
    <2>3. AtMost(BlockEnter(p, b), x)
      BY <1>7, <1>9, <2>1, <2>2, Ordered
    <2> QED
      BY <1>7, <1>9, <2>2, <2>3, Ordered
  <1> HIDE DEF x, n, cell, Unseen
  <1>11. CASE state.done
    BY <1>1, <1>11
  <1>12. CASE ~state.done /\ (TooFar(x, p.forward) \/ n \notin Blocks)
    <2>1. Advance(p, state) = stopped
      BY <1>1, <1>12, Zenon
    <2>2. ASSUME NEW c, Unseen(c) PROVE ~InReach(p, c)
      <3>1. c \in Blocks /\ Passes(p, c)
        BY <2>2, Zenon DEF Unseen
      <3>2. \E i \in 1 .. 3 : p.forward[i] # 0 /\ Beyond(p, i, c[i], b[i])
        BY <1>3, <2>2, Zenon
      <3>3. AtMost(x, BlockEnter(p, c))
        BY <1>2, <1>7, <3>1, <3>2, BeyondIsLater, Zenon
      <3>4. BlockEnter(p, c) \in Extended /\ BlockExit(p, c) \in Extended
        BY <3>1, BlockPoints, Zenon
      <3>5. CASE TooFar(x, p.forward)
        BY <1>7, <1>9, <1>10, <3>3, <3>4, <3>5, TooFarther, Zenon DEF InReach
      <3>6. CASE ~TooFar(x, p.forward)
        <4>1. n \notin Blocks
          BY <1>12, <3>6, Zenon
        <4>2. p.forward[axis] # 0
          <5>1. x # Infinity
            BY <3>6 DEF TooFar, Infinity
          <5>2. p.forward[axis] = 0 => x = Infinity
            <6>1. p.forward[axis] = 0 => Exit(p, axis, b[axis], b[axis] + 1) = Infinity
              BY Zenon DEF Exit
            <6> QED
              BY <1>7, <6>1, Zenon DEF ExitAt
          <5> QED
            BY <5>1, <5>2, Zenon
        <4>3. b[axis] + Sign(p.forward[axis]) \notin Cells(Dim[axis])
          BY <1>2, <1>6, <4>1, NextBlockIs, Zenon DEF n
        <4>4. ~Beyond(p, axis, c[axis], b[axis])
          <5>1. /\ b[axis] \in Cells(Dim[axis]) /\ c[axis] \in Cells(Dim[axis])
                /\ b[axis] \in Int /\ c[axis] \in Int
            BY <1>2, <1>6, <3>1, Coordinates, Zenon
          <5>2. Dim[axis] \in Nat
            BY <1>6, WorldAssumption DEF Dim
          <5> QED
            BY <4>3, <5>1, <5>2 DEF Beyond, Sign, Cells
        <4>5. b[axis] \in Int /\ c[axis] \in Int
          BY <1>2, <1>6, <3>1, Coordinates, Zenon
        <4>6. AtMost(ExitAt(p, axis, c[axis]), x)
          BY <1>6, <1>7, <4>2, <4>4, <4>5, CellsInOrder, Zenon
        <4>7. AtMost(BlockExit(p, c), ExitAt(p, axis, c[axis])) /\ ExitAt(p, axis, c[axis]) \in Extended
          BY <1>6, <3>1, <4>5, BlockPoints, CellPoints, Zenon
        <4>8. AtMost(BlockExit(p, c), x)
          BY <1>7, <3>4, <4>6, <4>7, Ordered
        <4> QED
          BY <1>7, <3>1, <3>3, <4>8, PassedHasInside, Zenon
      <3> QED
        BY <3>5, <3>6, Zenon
    <2>3. /\ stopped.block = b /\ stopped.cells = state.cells /\ stopped.t = state.t
          /\ stopped.done \in BOOLEAN
      BY DEF WalkOK
    <2> HIDE DEF stopped
    <2>4. WalkSees(p, stopped)
      BY <1>3, <2>2, <2>3, Zenon DEF WalkSees, Unseen
    <2> QED
      BY <2>1, <2>3, <2>4, Zenon
  <1>13. CASE ~state.done /\ ~(TooFar(x, p.forward) \/ n \notin Blocks)
    <2>1. Advance(p, state) = next
      BY <1>1, <1>13, Zenon
    <2>2. n \in Blocks /\ ~TooFar(x, p.forward)
      BY <1>13, Zenon
    <2>3. p.forward[axis] # 0
      <3>1. x # Infinity
        BY <2>2 DEF TooFar, Infinity
      <3>2. p.forward[axis] = 0 => Exit(p, axis, b[axis], b[axis] + 1) = Infinity
        BY Zenon DEF Exit
      <3> QED
        BY <1>7, <3>1, <3>2, Zenon DEF ExitAt
    <2>4. /\ x = EnterAt(p, axis, n[axis])
          /\ AtMost(BlockEnter(p, n), x) /\ AtMost(x, BlockEnter(p, n))
          /\ Touches(p, n)
      BY <1>2, <1>6, <1>7, <1>8, <2>2, <2>3, StepForward, Zenon DEF n
    <2>5. BlockEnter(p, n) \in Extended /\ AtMost(Start, BlockEnter(p, n))
      BY <2>2, BlockPoints, Zenon
    <2>6. InReach(p, n)
      BY <1>7, <1>9, <2>2, <2>4, <2>5, TooFarther, Zenon DEF InReach
    <2>7. cell.block = n /\ cell.face = FaceOf(p, axis)
      BY DEF cell
    <2>8. FacesRay(p, cell)
      BY <1>6, <2>4, <2>7, Zenon DEF FacesRay
    <2>9. AtMost(BlockEnter(p, b), BlockEnter(p, n))
      BY <1>7, <1>9, <1>10, <2>4, <2>5, Ordered
    <2>10. cell \in Cell
      <3>1. FaceOf(p, axis) \in Face
        BY <1>2, <1>6, FaceLeadsBack, Zenon
      <3> QED
        BY <2>2, <3>1 DEF cell, Cell
    <2> DEFINE cells == Append(state.cells, cell)
    <2>11. /\ Len(cells) = last + 1 /\ cells[last + 1] = cell
           /\ \A k \in 1 .. last : cells[k] = state.cells[k]
      BY <1>2, <2>10, AppendProperties
    <2> HIDE DEF cells
    <2>12. \A k \in 1 .. last + 1 : k \in 1 .. last \/ k = last + 1
      BY <1>2
    <2>13. \A k \in 1 .. last : k \in 1 .. last + 1
      BY <1>2
    <2>14. last + 1 \in 1 .. last + 1
      BY <1>2
    <2>15. InSight(p, cells)
      <3>1. \A k \in 1 .. Len(cells) : /\ cells[k].block \in Blocks
                                       /\ Touches(p, cells[k].block) /\ InReach(p, cells[k].block)
                                       /\ FacesRay(p, cells[k])
        BY <1>3, <2>2, <2>4, <2>6, <2>7, <2>8, <2>11, <2>12, Zenon DEF InSight
      <3>2. ASSUME NEW j \in 1 .. Len(cells), NEW k \in 1 .. Len(cells), j <= k
            PROVE  AtMost(BlockEnter(p, cells[j].block), BlockEnter(p, cells[k].block))
        <4>1. CASE k \in 1 .. last
          <5>1. j \in 1 .. last
            BY <1>2, <2>11, <3>2, <4>1
          <5> QED
            BY <1>3, <2>11, <3>2, <4>1, <5>1, Zenon DEF InSight
        <4>2. CASE k = last + 1 /\ j \in 1 .. last
          <5>1. j <= last
            BY <1>2, <4>2
          <5>2. AtMost(BlockEnter(p, state.cells[j].block), BlockEnter(p, b))
            BY <1>2, <1>3, <4>2, <5>1, Zenon DEF InSight
          <5>3. BlockEnter(p, state.cells[j].block) \in Extended
            BY <1>3, <4>2, BlockPoints, Zenon DEF InSight
          <5>4. AtMost(BlockEnter(p, state.cells[j].block), BlockEnter(p, n))
            BY <1>9, <2>5, <2>9, <5>2, <5>3, Ordered
          <5> QED
            BY <2>7, <2>11, <4>2, <5>4, Zenon
        <4>3. CASE k = last + 1 /\ j = last + 1
          <5>1. AtMost(BlockEnter(p, n), BlockEnter(p, n))
            BY <2>5, Ordered, Zenon
          <5> QED
            BY <2>7, <2>11, <4>3, <5>1, Zenon
        <4> QED
          BY <2>11, <2>12, <4>1, <4>2, <4>3, Zenon
      <3> QED
        BY <3>1, <3>2, Zenon DEF InSight
    <2>16. ASSUME NEW c \in Blocks, Passes(p, c), ~Visited(cells, c)
           PROVE  \E i \in 1 .. 3 : p.forward[i] # 0 /\ Beyond(p, i, c[i], n[i])
      <3>1. ~Visited(state.cells, c) /\ c # n
        BY <2>7, <2>11, <2>13, <2>14, <2>16, Zenon DEF Visited
      <3>2. \E i \in 1 .. 3 : p.forward[i] # 0 /\ Beyond(p, i, c[i], b[i])
        BY <1>3, <2>16, <3>1, Zenon DEF Unseen
      <3> QED
        BY <1>2, <1>6, <1>7, <1>8, <2>2, <2>3, <2>6, <2>16, <3>1, <3>2, StillBeyond, Zenon DEF n
    <2>17. next.t = [i \in 1 .. 3 |-> ExitAt(p, i, n[i])]
      <3>1. n[axis] \in Int
        BY <1>6, <2>2, Coordinates, Zenon
      <3>2. NextCrossing(p, n, axis) = ExitAt(p, axis, n[axis])
        BY <1>6, <3>1, NextCrossingIs, Zenon
      <3>3. \A i \in 1 .. 3 : i # axis => n[i] = b[i]
        BY <1>2, <1>6, NextBlockIs, Zenon DEF n
      <3> QED
        BY <1>3, <3>2, <3>3
    <2>18. next.block = n /\ next.cells = cells /\ next.done = FALSE
      BY DEF cells
    <2> HIDE DEF next
    <2>19. WalkSees(p, next)
      BY <2>15, <2>16, <2>17, <2>18, Zenon DEF WalkSees
    <2> QED
      BY <2>1, <2>18, <2>19, Zenon
  <1> QED
    BY <1>11, <1>12, <1>13, Zenon

\* Cells still ahead along an axis.
Ahead(p, b, i) == IF p.forward[i] < 0 THEN b[i] ELSE Dim[i] - 1 - b[i]

\* A walk that is not done has been called less often than there are cells ahead.
WalkEnds(p, state, n) ==
  /\ "done" \in DOMAIN state /\ state.done \in BOOLEAN
  /\ ~state.done =>
       Ahead(p, state.block, 1) + Ahead(p, state.block, 2) + Ahead(p, state.block, 3)
         + n + 3 <= MaxCalls

LEMMA AheadIs ==
  ASSUME NEW p \in Pose, NEW b \in Blocks, NEW i \in 1 .. 3
  PROVE  Ahead(p, b, i) \in Nat /\ Ahead(p, b, i) <= Dim[i] - 1
  <1>1. b[i] \in Int /\ 0 <= b[i] /\ b[i] < Dim[i]
    BY Coordinates, Zenon
  <1>2. Dim[i] \in Nat
    BY WorldAssumption DEF Dim
  <1> QED
    BY <1>1, <1>2 DEF Ahead

LEMMA ActiveEnds ==
  ASSUME NEW p \in Pose, ~TooFar(Close(p), p.forward), Active(p).done = FALSE
  PROVE  WalkEnds(p, Active(p), 0)
  <1> DEFINE b == Active(p).block
  <1>1. b \in Blocks
    BY ActiveOK, Zenon DEF WalkOK
  <1> HIDE DEF b
  <1>2. \A i \in 1 .. 3 : Ahead(p, b, i) \in Nat /\ Ahead(p, b, i) <= Dim[i] - 1
    BY <1>1, AheadIs, Zenon
  <1>3. PICK x \in Nat, y \in Nat, z \in Nat :
          /\ x = Ahead(p, b, 1) /\ y = Ahead(p, b, 2) /\ z = Ahead(p, b, 3)
          /\ x <= Dim[1] - 1 /\ y <= Dim[2] - 1 /\ z <= Dim[3] - 1
    BY <1>2
  <1>4. x + y + z + 0 + 3 <= MaxCalls
    BY <1>3, WorldAssumption DEF Dim, MaxCalls
  <1>5. "done" \in DOMAIN Active(p)
    BY DEF Active
  <1> QED
    BY <1>3, <1>4, <1>5 DEF WalkEnds, b

LEMMA AdvanceEnds ==
  ASSUME NEW p \in Pose, NEW state, WalkOK(state), WalkSees(p, state),
         NEW m \in Nat, WalkEnds(p, state, m)
  PROVE  WalkEnds(p, Advance(p, state), m + 1)
  <1> DEFINE b == state.block
             axis == NextAxis(state.t)
             n == NextBlock(p, b, axis)
             stopped == [state EXCEPT !.done = TRUE]
             next == [block |-> n, done |-> FALSE,
                      t |-> [state.t EXCEPT ![axis] = NextCrossing(p, n, axis)],
                      cells |-> Append(state.cells, [block |-> n, face |-> FaceOf(p, axis)])]
  <1>1. \/ Advance(p, state) = stopped
        \/ state.done /\ Advance(p, state) = state
        \/ ~state.done /\ n \in Blocks /\ Advance(p, state) = next
    BY Zenon DEF Advance, NextBlock
  <1>2. state.done \in BOOLEAN /\ b \in Blocks
    BY Zenon DEF WalkEnds, WalkOK
  <1>3. axis \in 1 .. 3
    BY DEF NextAxis
  <1>4. (m + 1) \in Nat
    OBVIOUS
  <1> HIDE DEF axis
  <1>5. CASE Advance(p, state) = stopped
    <2>1. stopped.done = TRUE /\ "done" \in DOMAIN stopped
      BY DEF WalkEnds
    <2> HIDE DEF stopped
    <2> QED
      BY <1>5, <2>1, Zenon DEF WalkEnds
  <1>6. CASE state.done /\ Advance(p, state) = state
    BY <1>6, Zenon DEF WalkEnds
  <1>7. CASE ~state.done /\ n \in Blocks /\ Advance(p, state) = next
    <2>1. next.done = FALSE /\ next.block = n /\ "done" \in DOMAIN next
      OBVIOUS
    <2>2. \A i \in 1 .. 3 : Ahead(p, b, i) \in Nat /\ Ahead(p, n, i) \in Nat
      BY <1>2, <1>7, AheadIs, Zenon
    <2>3. /\ n[axis] = b[axis] + Sign(p.forward[axis])
          /\ \A i \in 1 .. 3 : i # axis => n[i] = b[i]
      BY <1>2, <1>3, NextBlockIs, Zenon
    <2> HIDE DEF n, next
    <2>4. Ahead(p, n, axis) = Ahead(p, b, axis) - 1
      <3>1. b[axis] \in Int /\ Dim[axis] \in Int
        BY <1>2, <1>3, Coordinates, WorldAssumption DEF Dim
      <3> QED
        BY <2>3, <3>1 DEF Ahead, Sign
    <2>5. \A i \in 1 .. 3 : i # axis => Ahead(p, n, i) = Ahead(p, b, i)
      BY <2>3 DEF Ahead
    <2>6. Ahead(p, n, 1) + Ahead(p, n, 2) + Ahead(p, n, 3)
            = Ahead(p, b, 1) + Ahead(p, b, 2) + Ahead(p, b, 3) - 1
      BY <1>3, <2>2, <2>4, <2>5
    <2>7. Ahead(p, b, 1) + Ahead(p, b, 2) + Ahead(p, b, 3) + m + 3 <= MaxCalls
      BY <1>7, Zenon DEF WalkEnds
    <2>8. MaxCalls \in Nat
      BY WalkStates
    <2>9. Ahead(p, n, 1) + Ahead(p, n, 2) + Ahead(p, n, 3) + (m + 1) + 3 <= MaxCalls
      BY <2>2, <2>6, <2>7, <2>8
    <2> QED
      BY <1>7, <2>1, <2>9, Zenon DEF WalkEnds
  <1> QED
    BY <1>1, <1>5, <1>6, <1>7, Zenon

\* The cells of a view ray: those in sight, in order, and no block that is passed in
\* reach is left out.
LEMMA RayMeetsAll ==
  ASSUME NEW p \in Pose
  PROVE  /\ InSight(p, Traverse(p))
         /\ \A c \in Blocks : Passes(p, c) /\ ~Visited(Traverse(p), c) =>
              /\ ~InReach(p, c)
              /\ \A k \in 1 .. Len(Traverse(p)) :
                   AtMost(BlockEnter(p, Traverse(p)[k].block), BlockEnter(p, c))
  <1>1. CASE Less(Far(p), Close(p)) \/ TooFar(Close(p), p.forward)
    <2>1. Traverse(p) = <<>>
      BY <1>1, Zenon DEF Traverse
    <2>2. \A k \in 1 .. Len(<<>>) : FALSE
      OBVIOUS
    <2>3. InSight(p, Traverse(p))
      BY <2>1, <2>2, Zenon DEF InSight
    <2>4. ASSUME NEW c \in Blocks, Passes(p, c) PROVE ~InReach(p, c)
      <3>1. AtMost(Close(p), BlockEnter(p, c)) /\ AtMost(BlockExit(p, c), Far(p))
        BY BlockInWorld, Zenon
      <3>2. /\ BlockEnter(p, c) \in Extended /\ BlockExit(p, c) \in Extended
            /\ Close(p) \in Extended /\ Far(p) \in Extended /\ AtMost(Start, Close(p))
        BY BlockPoints, WorldPoints, Zenon
      <3>3. CASE Less(Far(p), Close(p))
        <4>1. AtMost(Far(p), Close(p))
          BY <3>2, <3>3, Ordered, Zenon
        <4>2. AtMost(BlockExit(p, c), Close(p))
          BY <3>1, <3>2, <4>1, Ordered
        <4> QED
          BY <2>4, <3>1, <3>2, <4>2, PassedHasInside, Zenon
      <3>4. CASE TooFar(Close(p), p.forward)
        BY <3>1, <3>2, <3>4, SquareIs, TooFarther, Zenon DEF InReach
      <3> QED
        BY <1>1, <3>3, <3>4, Zenon
    <2> QED
      BY <2>1, <2>2, <2>3, <2>4, Zenon
  <1>2. CASE ~(Less(Far(p), Close(p)) \/ TooFar(Close(p), p.forward))
    <2> DEFINE Good(n) == LET state == Walk(p)[n] IN
                          WalkOK(state) /\ WalkSees(p, state) /\ WalkEnds(p, state, n)
               Walked == {n \in Nat : n <= MaxCalls => Good(n)}
    <2>1. 0 \in Walked
      <3>1. Good(0)
        BY <1>2, ActiveOK, ActiveSees, ActiveEnds, WalkStates, Zenon
      <3> QED
        BY <3>1
    <2>2. ASSUME NEW n \in Nat \cap Walked PROVE n + 1 \in Walked
      <3>1. CASE n + 1 <= MaxCalls
        <4>1. n + 1 \in 1 .. MaxCalls /\ (n + 1) - 1 = n /\ n <= MaxCalls /\ n + 1 \in Nat /\ n \in Nat
          BY <3>1, WalkStates
        <4>2. Walk(p)[n + 1] = Advance(p, Walk(p)[n])
          BY <4>1, WalkStates
        <4>3. Good(n)
          BY <2>2, <4>1, Zenon
        <4>4. Walk(p)[n].done \in BOOLEAN
          BY <4>3, Zenon DEF WalkEnds
        <4>5. Good(n + 1)
          BY <4>1, <4>2, <4>3, <4>4, AdvanceOK, AdvanceSees, AdvanceEnds, Zenon
        <4> HIDE DEF Good
        <4> QED
          BY <4>1, <4>5
      <3>2. CASE ~(n + 1 <= MaxCalls)
        BY <3>2
      <3> QED
        BY <3>1, <3>2
    <2>3. MaxCalls \in Walked
      <3> HIDE DEF Walked
      <3> QED
        BY <2>1, <2>2, Induction, WalkStates, Zenon
    <2> DEFINE state == Walk(p)[MaxCalls]
    <2>4. WalkOK(state) /\ WalkSees(p, state) /\ WalkEnds(p, state, MaxCalls)
      <3> HIDE DEF Good
      <3>1. Good(MaxCalls)
        BY <2>3, WalkStates
      <3> QED
        BY <3>1, Zenon DEF Good
    <2>5. Traverse(p) = state.cells
      BY <1>2, Zenon DEF Traverse
    <2> HIDE DEF state
    <2>6. state.done
      <3>1. state.block \in Blocks /\ MaxCalls \in Nat
        BY <2>4, WalkStates, Zenon DEF WalkOK
      <3>2. /\ Ahead(p, state.block, 1) \in Nat /\ Ahead(p, state.block, 2) \in Nat
            /\ Ahead(p, state.block, 3) \in Nat
        BY <3>1, AheadIs
      <3> QED
        BY <2>4, <3>1, <3>2 DEF WalkEnds
    <2> DEFINE b == state.block
               last == Len(state.cells)
    <2>7. /\ b \in Blocks /\ last \in 1 .. last /\ state.cells[last].block = b
          /\ \A k \in 1 .. last : k <= last
      BY <2>4 DEF WalkOK
    <2>8. InSight(p, state.cells)
      BY <2>4, Zenon DEF WalkSees
    <2>9. BlockEnter(p, b) \in Extended /\ BlockExit(p, b) \in Extended
      BY <2>7, BlockPoints, Zenon
    <2>10. \A i \in 1 .. 3 : AtMost(BlockEnter(p, b), ExitAt(p, i, b[i]))
      <3> TAKE i \in 1 .. 3
      <3>1. AtMost(BlockEnter(p, b), BlockExit(p, b))
        BY <2>7, <2>8, Zenon DEF InSight, Touches, AtMost
      <3>2. AtMost(BlockExit(p, b), ExitAt(p, i, b[i])) /\ ExitAt(p, i, b[i]) \in Extended
        BY <2>7, BlockPoints, Coordinates, CellPoints, Zenon
      <3> QED
        BY <2>9, <3>1, <3>2, Ordered
    <2>11. ASSUME NEW c \in Blocks, Passes(p, c), ~Visited(state.cells, c)
           PROVE  /\ ~InReach(p, c)
                  /\ \A k \in 1 .. last :
                       AtMost(BlockEnter(p, state.cells[k].block), BlockEnter(p, c))
      <3>1. /\ \E i \in 1 .. 3 : p.forward[i] # 0 /\ Beyond(p, i, c[i], b[i])
            /\ ~InReach(p, c)
        BY <2>4, <2>6, <2>11, Zenon DEF WalkSees
      <3>2. AtMost(BlockEnter(p, b), BlockEnter(p, c)) /\ BlockEnter(p, c) \in Extended
        BY <2>7, <2>9, <2>10, <3>1, BeyondIsLater, BlockPoints, Zenon
      <3>3. ASSUME NEW k \in 1 .. last
            PROVE  AtMost(BlockEnter(p, state.cells[k].block), BlockEnter(p, c))
        <4>1. AtMost(BlockEnter(p, state.cells[k].block), BlockEnter(p, b))
          BY <2>7, <2>8, Zenon DEF InSight
        <4>2. BlockEnter(p, state.cells[k].block) \in Extended
          BY <2>8, BlockPoints, Zenon DEF InSight
        <4> QED
          BY <2>9, <3>2, <4>1, <4>2, Ordered
      <3> QED
        BY <3>1, <3>3, Zenon
    <2> QED
      BY <2>5, <2>8, <2>11, Zenon
  <1> QED
    BY <1>1, <1>2, Zenon

\* Of a world of blocks the first one on the ray is the nearest.
LEMMA LookingAtNearest ==
  ASSUME NEW p \in Poses, NEW w \in SUBSET Blocks
  PROVE  IsNearest(p, w, LookingAt(p, w), None)
  <1> DEFINE ray == Ray[p]
             hits == {i \in DOMAIN ray : ray[i].block \in w}
  <1>1. p \in Pose /\ ray = Traverse(p)
    BY GameAssumption DEF Ray
  <1>2. ray \in Seq(Cell) /\ DOMAIN ray = 1 .. Len(ray) /\ Len(ray) \in Nat
    BY <1>1, RayIsConnected
  <1>3. /\ InSight(p, ray)
        /\ \A c \in Blocks : Passes(p, c) /\ ~Visited(ray, c) =>
             /\ ~InReach(p, c)
             /\ \A k \in 1 .. Len(ray) : AtMost(BlockEnter(p, ray[k].block), BlockEnter(p, c))
    BY <1>1, RayMeetsAll, Zenon
  <1>4. CASE hits = {}
    <2>1. LookingAt(p, w) = None
      BY <1>4, Zenon DEF LookingAt
    <2>2. \A b \in w : Passes(p, b) => ~InReach(p, b)
      <3> SUFFICES ASSUME NEW b \in w, Passes(p, b) PROVE ~InReach(p, b)
        BY Zenon
      <3>1. ~Visited(ray, b)
        BY <1>2, <1>4, Zenon DEF Visited
      <3> QED
        BY <1>3, <3>1, Zenon
    <2> QED
      BY <2>1, <2>2, Zenon DEF IsNearest
  <1>5. CASE hits # {}
    <2>1. hits \subseteq Nat
      BY <1>2
    <2>2. PICK n \in hits : \A m \in hits : ~(m < n)
      BY <1>5, <2>1, LeastNumber, Zenon
    <2>3. \A m \in hits : n <= m
      BY <2>1, <2>2
    <2> DEFINE least == CHOOSE i \in hits : \A j \in hits : i <= j
               hit == ray[least]
    <2>4. least \in hits /\ \A j \in hits : least <= j
      BY <2>2, <2>3, Zenon
    <2>5. LookingAt(p, w) = hit
      BY <1>5, Zenon DEF LookingAt
    <2> HIDE DEF least
    <2>6. least \in 1 .. Len(ray) /\ hit.block \in w
      BY <1>2, <2>4
    <2>7. hit \in Cell
      BY <1>2, <2>6
    <2>8. hit # None
      BY <2>7, NoneAssumption, Zenon DEF Cell
    <2>9. Touches(p, hit.block) /\ InReach(p, hit.block) /\ FacesRay(p, hit)
      BY <1>3, <2>6, Zenon DEF InSight
    <2>10. ASSUME NEW b \in w, Passes(p, b)
           PROVE  AtMost(BlockEnter(p, hit.block), BlockEnter(p, b))
      <3>1. CASE Visited(ray, b)
        <4>1. PICK k \in 1 .. Len(ray) : ray[k].block = b
          BY <3>1, Zenon DEF Visited
        <4>2. least <= k
          BY <1>2, <2>4, <4>1, Zenon
        <4> QED
          BY <1>3, <2>6, <4>1, <4>2, Zenon DEF InSight
      <3>2. CASE ~Visited(ray, b)
        BY <1>3, <2>6, <2>10, <3>2, Zenon
      <3> QED
        BY <3>1, <3>2, Zenon
    <2> HIDE DEF hit, ray
    <2>11. \A b \in w : Passes(p, b) => ~Less(BlockEnter(p, b), BlockEnter(p, hit.block))
      BY <2>10, Zenon DEF AtMost
    <2>12. Less(<<0, 1>>, BlockEnter(p, hit.block)) =>
             \E i \in 1 .. 3 :
               /\ hit.face = FaceOf(p, i)
               /\ ~Less(Enter(p, i, hit.block[i], hit.block[i] + 1), BlockEnter(p, hit.block))
      BY <2>9, Zenon DEF FacesRay, Start, AtMost, EnterAt
    <2> QED
      BY <2>5, <2>6, <2>8, <2>9, <2>11, <2>12, Zenon DEF IsNearest
  <1> QED
    BY <1>4, <1>5, Zenon

\* What was looked up when aiming is still true of the camera and the world.
TargetInv == pc = "break" => target = LookingAt(camera, world)

\* The targeted block is the nearest solid block that the view ray passes within reach,
\* seen through the face that faces the player, and none is targeted only if there is
\* none, in a world of any size and from any pose (camera.rs: VoxelTraverser,
\* looking_at_solid_block; main.rs).
THEOREM NearestTargeted == Spec => []TargetIsNearest
  <1>1. Init => TargetInv
    BY DEF Init, TargetInv
  <1>2. TargetInv /\ [Next]_vars => TargetInv'
    <2> SUFFICES ASSUME TargetInv, [Next]_vars, pc' = "break"
                 PROVE  target' = LookingAt(camera', world')
      BY DEF TargetInv
    <2>1. CASE MoveAndAim
      <3>1. target' = LookingAt(camera', world) /\ world' = world
        BY <2>1, Zenon DEF MoveAndAim
      <3> QED
        BY <3>1, Zenon
    <2>2. CASE ~MoveAndAim
      <3>1. pc = "break" /\ target' = target /\ camera' = camera /\ world' = world
        BY <2>2, NextCases
        DEF Mouse, SetLba, StartSave, StartLoad, Storage, FinishSave, FinishLoad, Break, Place,
            Render, PowerOff, Boot, LoseCached, vars
      <3> QED
        BY <3>1, Zenon DEF TargetInv
    <2> QED
      BY <2>1, <2>2, Zenon
  <1>3. IInv /\ TargetInv => TargetIsNearest
    <2> SUFFICES ASSUME IInv, TargetInv, pc = "break"
                 PROVE  IsNearest(camera, world, target, None)
      BY Zenon DEF TargetIsNearest
    <2>1. camera \in Poses /\ world \in SUBSET Blocks
      BY Zenon DEF IInv, TypeOK
    <2>2. IsNearest(camera, world, LookingAt(camera, world), None)
      BY <2>1, LookingAtNearest, Zenon
    <2> QED
      BY <2>2, Zenon DEF TargetInv
  <1> QED
    BY <1>1, <1>2, <1>3, Invariant, PTL DEF Spec
=============================================================================
