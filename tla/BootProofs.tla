------------------------------ MODULE BootProofs ------------------------------
(* Proofs about Boot, for any machines, memory map and number of ports: the   *)
(* memory and the disk controllers.  Ps2InitProofs has those of PS/2.          *)
EXTENDS Boot, SequenceTheorems, WellFoundedInduction, TLAPS

-----------------------------------------------------------------------------
(* Induction, as in GameProofs, and division.                              *)

LEMMA LeastNumber ==
  ASSUME NEW T, T \subseteq Nat, T # {}
  PROVE  \E n \in T : \A m \in T : ~(m < n)
  <1> DEFINE R == {p \in Nat \X Nat : p[1] < p[2]}
  <1>1. IsWellFoundedOn(R, Nat)
    BY NatLessThanWellFounded DEF OpToRel
  <1>2. \A x, y \in Nat : <<y, x>> \in R <=> y < x
    OBVIOUS
  <1> HIDE DEF R
  <1>3. PICK x \in T : \A y \in T : ~(<<y, x>> \in R)
    BY <1>1, WFMin, Zenon
  <1>4. \A y \in T : ~(y < x)
    BY <1>2, <1>3, Zenon
  <1> QED
    BY <1>4, Zenon

LEMMA Induction ==
  ASSUME NEW S, 0 \in S, \A n \in Nat \cap S : n + 1 \in S
  PROVE  \A n \in Nat : n \in S
  <1> SUFFICES ASSUME Nat \ S # {}
               PROVE  FALSE
    BY Zenon
  <1>1. Nat \ S \subseteq Nat
    BY Zenon
  <1>2. PICK n \in Nat \ S : \A m \in Nat \ S : ~(m < n)
    BY <1>1, LeastNumber, Zenon
  <1>3. n # 0
    BY Zenon
  <1>4. n - 1 \in Nat /\ (n - 1) + 1 = n /\ n - 1 < n
    BY <1>3
  <1> QED
    BY <1>2, <1>4, Zenon

\* Division by the size of a frame.
LEMMA Quotients ==
  ASSUME NEW n \in Nat, NEW r \in 0 .. PAGE - 1
  PROVE  (n * PAGE + r) \div PAGE = n
  <1> DEFINE q == (n * PAGE + r) \div PAGE
  <1>1. q \in Int
    BY MemoryAssumption
  <1>2. q * PAGE <= n * PAGE + r /\ n * PAGE + r < q * PAGE + PAGE
    BY MemoryAssumption
  <1> HIDE DEF q
  <1>3. n * PAGE < (q + 1) * PAGE /\ q * PAGE < (n + 1) * PAGE
    BY <1>1, <1>2, MemoryAssumption
  <1>4. \A a, b \in Int : a * PAGE < b * PAGE => a < b
    BY MemoryAssumption
  <1>5. n < q + 1 /\ q < n + 1
    BY <1>1, <1>3, <1>4
  <1> QED
    BY <1>5, <1>1 DEF q

LEMMA Monotone ==
  ASSUME NEW a \in Int, NEW b \in Int
  PROVE  /\ a * PAGE \in Int
         /\ a <= b <=> a * PAGE <= b * PAGE
  BY MemoryAssumption

-----------------------------------------------------------------------------
(* Sequences put together.                                                 *)

\* FlattenSeq is what its recursive definition says.
LEMMA Flattened ==
  ASSUME NEW s, NEW n \in Nat \ {0}, Len(s) = n
  PROVE  \E f : /\ FlattenSeq(s) = f[n]
                /\ f[1] = s[1]
                /\ \A i \in 2 .. n : f[i] = f[i - 1] \o s[i]
  <1> DEFINE Value(f, i) == IF i = 1 THEN s[i] ELSE f[i - 1] \o s[i]
             Upto(f, m) == f = [i \in 1 .. m |-> Value(f, i)]
             Flattenable == {m \in Nat : \E f : Upto(f, m)}
  <1>1. 0 \in Flattenable
    <2> DEFINE f == [i \in 1 .. 0 |-> s[1]]
    <2>1. Upto(f, 0)
      OBVIOUS
    <2> QED
      BY <2>1
  <1>2. ASSUME NEW m \in Nat \cap Flattenable PROVE m + 1 \in Flattenable
    <2>1. PICK f : Upto(f, m)
      OBVIOUS
    <2> DEFINE g == [i \in 1 .. m + 1 |-> IF i <= m THEN f[i] ELSE Value(f, m + 1)]
    <2>2. \A i \in 1 .. m : f[i] = Value(f, i)
      BY <2>1
    <2>3. \A i \in 1 .. m : g[i] = Value(g, i)
      BY <2>2
    <2>4. g[m + 1] = Value(g, m + 1)
      OBVIOUS
    <2>5. \A i \in 1 .. m + 1 : g[i] = Value(g, i)
      <3>1. \A i \in 1 .. m + 1 : i \in 1 .. m \/ i = m + 1
        OBVIOUS
      <3> QED
        BY <2>3, <2>4, <3>1, Zenon
    <2>6. g = [i \in 1 .. m + 1 |-> g[i]]
      BY Zenon
    <2> HIDE DEF g
    <2>7. Upto(g, m + 1)
      BY <2>5, <2>6
    <2>8. m + 1 \in Nat
      OBVIOUS
    <2> QED
      BY <2>7, <2>8, Zenon
  <1>3. \E f : Upto(f, n)
    <2> HIDE DEF Flattenable
    <2>1. n \in Flattenable
      BY <1>1, <1>2, Induction, Zenon
    <2> QED
      BY <2>1 DEF Flattenable
  <1> DEFINE flatten == CHOOSE f : Upto(f, n)
  <1>4. Upto(flatten, n)
    BY <1>3, Zenon
  <1>5. FlattenSeq(s) = flatten[n]
    BY DEF FlattenSeq
  <1> HIDE DEF flatten
  <1>6. \A i \in 1 .. n : flatten[i] = Value(flatten, i)
    BY <1>4
  <1>7. 1 \in 1 .. n /\ \A i \in 2 .. n : i \in 1 .. n /\ i # 1
    OBVIOUS
  <1>8. flatten[1] = s[1] /\ \A i \in 2 .. n : flatten[i] = flatten[i - 1] \o s[i]
    BY <1>6, <1>7, Zenon
  <1> QED
    BY <1>5, <1>8, Zenon

-----------------------------------------------------------------------------
(* The usable frames.                                                      *)

LEMMA Regions ==
  ASSUME NEW map, SoundMap(map), NEW i \in DOMAIN map
  PROVE  map[i].start \in Nat /\ map[i].end \in Nat
  <1> DEFINE R == [kind : STRING, start : Nat, end : Nat]
  <1>1. map \in Seq(R)
    BY DEF SoundMap
  <1>2. \A r \in R : r.start \in Nat /\ r.end \in Nat
    OBVIOUS
  <1> HIDE DEF R
  <1>3. map[i] \in R
    BY <1>1
  <1> QED
    BY <1>2, <1>3

Within(f, r) == r.start <= f * PAGE /\ (f + 1) * PAGE <= r.end

\* The frames of a usable region lie in it, one behind the other.
LEMMA RegionFrames ==
  ASSUME NEW map, SoundMap(map), NEW i \in DOMAIN map, IsUsable(map[i])
  PROVE  /\ FramesOf(map[i]) \in Seq(Nat)
         /\ \A k \in DOMAIN FramesOf(map[i]) : Within(FramesOf(map[i])[k], map[i])
         /\ \A k, l \in DOMAIN FramesOf(map[i]) :
              FramesOf(map[i])[k] = FramesOf(map[i])[l] => k = l
  <1> DEFINE r == map[i]
             a == r.start \div PAGE
             b == r.end \div PAGE
  <1>1. /\ r.start \in Nat /\ r.end \in Nat /\ r.start <= r.end
        /\ r.start % PAGE = 0 /\ r.end % PAGE = 0
    BY Regions DEF SoundMap
  <1>2. /\ a \in Nat /\ b \in Nat
        /\ r.start = a * PAGE /\ r.end = b * PAGE
    BY <1>1, MemoryAssumption
  <1> DEFINE F == FramesOf(r)
             n == b - a
  <1> HIDE DEF a, b
  <1>3. n \in Nat
    BY <1>1, <1>2, Monotone
  <1>4. r.end - r.start + PAGE - 1 = n * PAGE + (PAGE - 1)
    BY <1>2, MemoryAssumption
  <1>5. (r.end - r.start + PAGE - 1) \div PAGE = n
    BY <1>3, <1>4, Quotients, MemoryAssumption
  <1>6. \A k \in 1 .. n : (r.start + (k - 1) * PAGE) \div PAGE = a + k - 1
    <2> TAKE k \in 1 .. n
    <2>1. a + k - 1 \in Nat
      BY <1>2, <1>3
    <2>2. r.start + (k - 1) * PAGE = (a + k - 1) * PAGE + 0
      BY <1>2, MemoryAssumption
    <2>3. ((a + k - 1) * PAGE + 0) \div PAGE = a + k - 1
      BY <2>1, Quotients, MemoryAssumption
    <2> QED
      BY <2>2, <2>3
  <1>7. F = [k \in 1 .. n |-> a + k - 1]
    BY <1>5, <1>6 DEF FramesOf
  <1>8. F \in Seq(Nat) /\ DOMAIN F = 1 .. n
    BY <1>2, <1>3, <1>7
  <1>9. \A k \in 1 .. n : Within(F[k], r)
    <2> TAKE k \in 1 .. n
    <2>1. F[k] = a + k - 1 /\ a <= F[k] /\ F[k] + 1 <= b
      BY <1>2, <1>3, <1>7
    <2> QED
      BY <1>2, <2>1, Monotone DEF Within
  <1>10. \A k, l \in 1 .. n : F[k] = F[l] => k = l
    BY <1>2, <1>3, <1>7
  <1> QED
    BY <1>8, <1>9, <1>10

\* A frame lies in one region at most.
LEMMA OneRegion ==
  ASSUME NEW map, SoundMap(map), NEW i \in DOMAIN map, NEW j \in DOMAIN map,
         IsUsable(map[i]), IsUsable(map[j]), NEW f \in Nat,
         Within(f, map[i]), Within(f, map[j])
  PROVE  i = j
  <1>1. /\ map[i].start \in Nat /\ map[i].end \in Nat
        /\ map[j].start \in Nat /\ map[j].end \in Nat
    BY Regions
  <1>2. f * PAGE \in Int /\ (f + 1) * PAGE \in Int /\ f * PAGE < (f + 1) * PAGE
    BY MemoryAssumption
  <1>3. i # j => map[i].end <= map[j].start \/ map[j].end <= map[i].start
    BY DEF SoundMap
  <1> QED
    BY <1>1, <1>2, <1>3 DEF Within

Part(map, i) == IF IsUsable(map[i]) THEN FramesOf(map[i]) ELSE <<>>

\* Frames of the first i regions, each once.
UsableUpto(map, s, i) ==
  /\ s \in Seq(Nat)
  /\ \A k \in DOMAIN s : \E j \in 1 .. i :
       j \in DOMAIN map /\ IsUsable(map[j]) /\ Within(s[k], map[j])
  /\ \A k, l \in DOMAIN s : s[k] = s[l] => k = l

LEMMA UsableStep ==
  ASSUME NEW map, SoundMap(map), NEW i \in Nat, i + 1 \in DOMAIN map,
         NEW s, UsableUpto(map, s, i)
  PROVE  UsableUpto(map, s \o Part(map, i + 1), i + 1)
  <1> DEFINE r == map[i + 1]
             F == Part(map, i + 1)
             t == s \o F
  <1>1. s \in Seq(Nat) /\ DOMAIN s = 1 .. Len(s) /\ Len(s) \in Nat
    BY DEF UsableUpto
  <1>2. F \in Seq(Nat) /\ DOMAIN F = 1 .. Len(F) /\ Len(F) \in Nat
    BY RegionFrames DEF Part
  <1>3. \A k \in DOMAIN F : IsUsable(r) /\ Within(F[k], r)
    BY RegionFrames DEF Part
  <1>4. \A k, l \in DOMAIN F : F[k] = F[l] => k = l
    BY RegionFrames DEF Part
  <1>5. \A k \in DOMAIN s : \E j \in 1 .. i :
          j \in DOMAIN map /\ IsUsable(map[j]) /\ Within(s[k], map[j])
    BY DEF UsableUpto
  <1>6. \A k, l \in DOMAIN s : s[k] = s[l] => k = l
    BY DEF UsableUpto
  <1>7. \A k \in DOMAIN s, l \in DOMAIN F : s[k] # F[l]
    <2> SUFFICES ASSUME NEW k \in DOMAIN s, NEW l \in DOMAIN F, s[k] = F[l]
                 PROVE  FALSE
      OBVIOUS
    <2>1. PICK j \in 1 .. i : j \in DOMAIN map /\ IsUsable(map[j]) /\ Within(s[k], map[j])
      BY <1>5
    <2>2. IsUsable(r) /\ Within(s[k], r)
      BY <1>3
    <2>3. s[k] \in Nat
      BY <1>1
    <2>4. j = i + 1
      BY <2>1, <2>2, <2>3, OneRegion
    <2> QED
      BY <2>4
  <1> HIDE DEF F
  <1>8. t \in Seq(Nat) /\ DOMAIN t = 1 .. Len(s) + Len(F)
    BY <1>1, <1>2
  <1>9. \A k \in 1 .. Len(s) + Len(F) :
          \/ k \in DOMAIN s /\ t[k] = s[k]
          \/ k - Len(s) \in DOMAIN F /\ t[k] = F[k - Len(s)]
    BY <1>1, <1>2
  <1> HIDE DEF t
  <1>10. \A k \in DOMAIN t : \E j \in 1 .. i + 1 :
           j \in DOMAIN map /\ IsUsable(map[j]) /\ Within(t[k], map[j])
    <2> TAKE k \in DOMAIN t
    <2>1. CASE k \in DOMAIN s /\ t[k] = s[k]
      <3>1. PICK j \in 1 .. i : j \in DOMAIN map /\ IsUsable(map[j]) /\ Within(s[k], map[j])
        BY <1>5, <2>1
      <3>2. j \in 1 .. i + 1
        OBVIOUS
      <3> QED
        BY <2>1, <3>1, <3>2, Zenon
    <2>2. CASE k - Len(s) \in DOMAIN F /\ t[k] = F[k - Len(s)]
      <3>1. i + 1 \in 1 .. i + 1
        OBVIOUS
      <3> QED
        BY <1>3, <2>2, <3>1, Zenon
    <2> QED
      BY <1>8, <1>9, <2>1, <2>2, Zenon
  <1>11. ASSUME NEW k \in DOMAIN t, NEW l \in DOMAIN t, t[k] = t[l] PROVE k = l
    <2>1. CASE k \in DOMAIN s /\ t[k] = s[k]
      BY <1>6, <1>7, <1>8, <1>9, <1>11, <2>1
    <2>2. CASE k - Len(s) \in DOMAIN F /\ t[k] = F[k - Len(s)]
      <3>1. l - Len(s) \in DOMAIN F /\ t[l] = F[l - Len(s)]
        BY <1>7, <1>8, <1>9, <1>11, <2>2
      <3>2. k - Len(s) = l - Len(s)
        BY <1>4, <1>11, <2>2, <3>1, Zenon
      <3> QED
        BY <3>2, <1>8, <1>1, <1>2
    <2> QED
      BY <1>8, <1>9, <2>1, <2>2, Zenon
  <1> QED
    BY <1>8, <1>10, <1>11, Zenon DEF UsableUpto, t, F

LEMMA FramesOfMap ==
  ASSUME NEW map, SoundMap(map)
  PROVE  UsableUpto(map, FlattenSeq([i \in DOMAIN map |-> Part(map, i)]), Len(map))
  <1> DEFINE s == [i \in DOMAIN map |-> Part(map, i)]
             n == Len(map)
  <1>1. n \in Nat /\ DOMAIN map = 1 .. n
    BY DEF SoundMap
  <1>2. Len(s) = n
    BY <1>1
  <1>3. \A i \in 1 .. n : s[i] = Part(map, i)
    BY <1>1
  <1>4. n = 0 => s = <<>>
    BY <1>1
  <1> SUFFICES UsableUpto(map, FlattenSeq(s), n)
    OBVIOUS
  <1> HIDE DEF s, n
  <1>5. UsableUpto(map, <<>>, 0)
    BY DEF UsableUpto
  <1>6. CASE n = 0
    <2>1. FlattenSeq(s) = s
      BY <1>2, <1>6 DEF FlattenSeq
    <2> QED
      BY <1>4, <1>5, <1>6, <2>1
  <1>7. CASE n # 0
    <2>1. n \in Nat \ {0}
      BY <1>1, <1>7
    <2>2. PICK f : /\ FlattenSeq(s) = f[n]
                   /\ f[1] = s[1]
                   /\ \A i \in 2 .. n : f[i] = f[i - 1] \o s[i]
      BY <1>2, <2>1, Flattened, Zenon
    <2> DEFINE S == {i \in Nat : i \in 1 .. n => UsableUpto(map, f[i], i)}
    <2>3. 0 \in S
      OBVIOUS
    <2>4. ASSUME NEW i \in Nat \cap S PROVE i + 1 \in S
      <3> SUFFICES ASSUME i + 1 \in 1 .. n
                   PROVE  UsableUpto(map, f[i + 1], i + 1)
        OBVIOUS
      <3>1. CASE i = 0
        <4>1. 0 \in Nat /\ 0 + 1 = 1 /\ 1 \in DOMAIN map /\ 1 \in 1 .. n
          BY <1>1, <3>1
        <4>2. UsableUpto(map, <<>> \o Part(map, 0 + 1), 0 + 1)
          BY <1>5, <4>1, UsableStep
        <4>3. Part(map, 1) \in Seq(Nat)
          BY <4>1, RegionFrames DEF Part
        <4>4. <<>> \o Part(map, 1) = Part(map, 1)
          BY <4>3
        <4> QED
          BY <1>3, <2>2, <3>1, <4>1, <4>2, <4>4
      <3>2. CASE i # 0
        <4>1. i \in 1 .. n /\ i + 1 \in 2 .. n /\ (i + 1) - 1 = i /\ i + 1 \in 1 .. n
          BY <1>1, <3>2
        <4>2. UsableUpto(map, f[i], i)
          BY <2>4, <4>1
        <4>3. UsableUpto(map, f[i] \o Part(map, i + 1), i + 1)
          BY <1>1, <4>1, <4>2, UsableStep
        <4> QED
          BY <1>3, <2>2, <4>1, <4>3
      <3> QED
        BY <3>1, <3>2
    <2> HIDE DEF S
    <2>5. n \in S
      BY <1>1, <2>3, <2>4, Induction, Zenon
    <2>6. n \in 1 .. n
      BY <2>1
    <2>7. UsableUpto(map, f[n], n)
      BY <2>5, <2>6 DEF S
    <2> QED
      BY <2>2, <2>7, Zenon
  <1> QED
    BY <1>6, <1>7

-----------------------------------------------------------------------------
(* The drivers' copies of Memory are Boot's.                               *)

LEMMA SameFrames == Nv!usable_frames = usable_frames /\ Ah!usable_frames = usable_frames
  BY DEF Nv!usable_frames, Ah!usable_frames, usable_frames, Nv!FlattenSeq, Ah!FlattenSeq,
         FlattenSeq, Nv!IsUsable, Ah!IsUsable, IsUsable, Nv!FramesOf, Ah!FramesOf, FramesOf

LEMMA SameAllocate ==
  ASSUME NEW users
  PROVE  /\ Nv!Allocate(users) <=> Allocate(users)
         /\ Ah!Allocate(users) <=> Allocate(users)
  BY SameFrames DEF Nv!Allocate, Ah!Allocate, Allocate, Nv!Enough, Ah!Enough, Enough, Nv!Handed,
         Ah!Handed, Handed, Nv!Frame, Ah!Frame, Frame, Nv!memVars, Ah!memVars, memVars

-----------------------------------------------------------------------------
(* Memory.                                                                 *)

Users == {"heap", "table", "ahci", "nvme"}
Grant == [frame : Nat, user : Users]

\* What has been handed out is the usable frames in their order.
MemInv ==
  /\ SoundMap(memory_map)
  /\ next \in Nat
  /\ granted \in Seq(Grant) /\ Len(granted) = next
  /\ next <= Len(usable_frames)
  /\ \A i \in 1 .. next : granted[i].frame = usable_frames[i]

LEMMA Usable ==
  ASSUME SoundMap(memory_map)
  PROVE  UsableUpto(memory_map, usable_frames, Len(memory_map))
  <1>1. PICK map : map = memory_map
    OBVIOUS
  <1>2. UsableUpto(map, FlattenSeq([i \in DOMAIN map |-> Part(map, i)]), Len(map))
    BY <1>1, FramesOfMap
  <1> QED
    BY <1>1, <1>2 DEF usable_frames, Part

\* Each step hands out some frames or none.
LEMMA MemoryStep ==
  ASSUME [Next]_vars
  PROVE  UNCHANGED memVars \/ \E users \in Seq(Users) : Allocate(users)
  <1> USE DEF memVars
  <1>1. CASE InitHeap
    <2>1. HEAP_PAGES + TABLES \in Nat
      BY MemoryAssumption, BootAssumption
    <2>2. HeapUsers(TABLE_FRAMES) \in Seq(Users)
      BY <2>1 DEF HeapUsers, TABLES, Users
    <2> QED
      BY <1>1, <2>2 DEF InitHeap
  <1>2. <<"ahci">> \in Seq(Users) /\ <<"nvme">> \in Seq(Users) /\ <<"nvme", "nvme">> \in Seq(Users)
    BY DEF Users
  <1>3. CASE InitAhci
    <2>1. Ah!Driver
      BY <1>3 DEF InitAhci
    <2>2. CASE Ah!Setup \/ Ah!StartPort
      BY <1>2, <2>2, SameAllocate, Zenon DEF Ah!Setup, Ah!StartPort
    <2> QED
      BY <2>1, <2>2 DEF Ah!Driver, Ah!memVars
  <1>4. CASE InitNvme
    <2>1. Nv!Driver
      BY <1>4 DEF InitNvme
    <2>2. CASE Nv!AdminQueues \/ Nv!Finish
      BY <1>2, <2>2, SameAllocate, Zenon DEF Nv!AdminQueues, Nv!Finish
    <2>3. CASE \E k \in DOMAIN Nv!Commands : Nv!Submit(k) \/ Nv!Answered(k)
      BY <1>2, <2>3, SameAllocate DEF Nv!Submit, Nv!Answered, Nv!memVars
    <2> QED
      BY <2>1, <2>2, <2>3 DEF Nv!Driver, Nv!memVars
  <1>5. CASE InitPci \/ InitStorage \/ InitPs2 \/ Ahci \/ Nvme
    BY <1>5 DEF InitPci, InitStorage, InitPs2, Ahci, Nvme, Ah!Controller, Nv!Controller, Ah!memVars, Nv!memVars
  <1>6. CASE \E d \in Ps2!Devs : Byte(d) \/ Stray(d)
    BY <1>6 DEF Byte, Stray
  <1>7. CASE UNCHANGED vars
    BY <1>7 DEF vars
  <1> QED
    BY <1>1, <1>3, <1>4, <1>5, <1>6, <1>7 DEF Next, Kernel

LEMMA AllocateKeeps ==
  ASSUME MemInv, NEW users \in Seq(Users), Allocate(users)
  PROVE  MemInv'
  <1> DEFINE n == Len(users)
             handed == [i \in DOMAIN users |-> [frame |-> Frame(i), user |-> users[i]]]
  <1>1. usable_frames \in Seq(Nat)
    BY Usable DEF MemInv, UsableUpto
  <1>2. n \in Nat /\ DOMAIN users = 1 .. n
    OBVIOUS
  <1>3. /\ next + n <= Len(usable_frames) /\ next' = next + n
        /\ granted' = granted \o handed /\ memory_map' = memory_map
    BY DEF Allocate, Enough, Handed
  <1>4. usable_frames' = usable_frames
    BY <1>3 DEF usable_frames
  <1>5. \A i \in 1 .. n : /\ handed[i] = [frame |-> usable_frames[next + i], user |-> users[i]]
                          /\ handed[i].frame = usable_frames[next + i]
                          /\ handed[i] \in Grant
    BY <1>1, <1>2, <1>3 DEF MemInv, Frame, Grant
  <1>6. DOMAIN handed = 1 .. n /\ handed = [i \in 1 .. n |-> handed[i]]
    BY <1>2
  <1> HIDE DEF handed, n
  <1>7. handed \in Seq(Grant) /\ Len(handed) = n
    BY <1>2, <1>5, <1>6
  <1>8. next \in Nat /\ granted \in Seq(Grant) /\ Len(granted) = next
    BY DEF MemInv
  <1>9. \A a, b \in Seq(Grant) :
           /\ a \o b \in Seq(Grant) /\ Len(a \o b) = Len(a) + Len(b)
           /\ \A i \in 1 .. Len(a) + Len(b) :
                (a \o b)[i] = IF i <= Len(a) THEN a[i] ELSE b[i - Len(a)]
    BY ConcatProperties
  <1>10. /\ granted' \in Seq(Grant) /\ Len(granted') = next'
        /\ \A i \in 1 .. next' :
             granted'[i] = IF i <= next THEN granted[i] ELSE handed[i - next]
    BY <1>3, <1>7, <1>8, <1>9
  <1>11. \A i \in 1 .. next' : granted'[i].frame = usable_frames[i]
    <2> TAKE i \in 1 .. next'
    <2>1. CASE i <= next
      BY <2>1, <1>10 DEF MemInv
    <2>2. CASE i > next
      <3>1. i - next \in 1 .. n /\ next + (i - next) = i
        BY <1>2, <1>3, <2>2 DEF MemInv
      <3>2. granted'[i] = handed[i - next]
        BY <1>8, <1>10, <2>2
      <3>3. handed[i - next].frame = usable_frames[next + (i - next)]
        <4>1. \A j \in 1 .. n : handed[j].frame = usable_frames[next + j]
          BY <1>5, Zenon
        <4> QED
          BY <3>1, <4>1, Zenon
      <3> QED
        BY <3>1, <3>2, <3>3
    <2>3. next \in Int /\ i \in Int
      BY <1>2, <1>3 DEF MemInv
    <2> QED
      BY <2>1, <2>2, <2>3
  <1> QED
    BY <1>1, <1>2, <1>3, <1>4, <1>10, <1>11 DEF MemInv

LEMMA MemInit == Init => MemInv
  <1> SUFFICES ASSUME NEW m \in Machines, BootOn(m)
               PROVE  MemInv
    BY DEF Init
  <1>1. SoundMap(memory_map) /\ next = 0 /\ granted = <<>>
    BY MachinesAssumption DEF BootOn, MemoryInit
  <1>2. usable_frames \in Seq(Nat)
    BY <1>1, Usable DEF UsableUpto
  <1> QED
    BY <1>1, <1>2 DEF MemInv

LEMMA MemNext == MemInv /\ [Next]_vars => MemInv'
  <1> SUFFICES ASSUME MemInv, [Next]_vars PROVE MemInv'
    OBVIOUS
  <1>1. CASE UNCHANGED memVars
    BY <1>1 DEF MemInv, memVars, usable_frames
  <1> QED
    BY <1>1, MemoryStep, AllocateKeeps

LEMMA MemExclusive == MemInv => FramesExclusive
  <1> SUFFICES ASSUME MemInv PROVE FramesExclusive
    OBVIOUS
  <1>1. UsableUpto(memory_map, usable_frames, Len(memory_map))
    BY Usable DEF MemInv
  <1>2. /\ DOMAIN granted = 1 .. next
        /\ \A i \in 1 .. next : i \in DOMAIN usable_frames /\ granted[i].frame = usable_frames[i]
    BY <1>1 DEF MemInv, UsableUpto
  <1>3. IsInjective([i \in DOMAIN granted |-> granted[i].frame])
    BY <1>1, <1>2 DEF IsInjective, UsableUpto
  <1>4. ASSUME NEW i \in DOMAIN granted
        PROVE  \E r \in ToSet(memory_map) :
                 IsUsable(r) /\ r.start <= granted[i].frame * PAGE
                 /\ (granted[i].frame + 1) * PAGE <= r.end
    <2>1. PICK j \in DOMAIN memory_map :
            IsUsable(memory_map[j]) /\ Within(granted[i].frame, memory_map[j])
      BY <1>1, <1>2 DEF UsableUpto
    <2> QED
      BY <2>1 DEF ToSet, Within
  <1> QED
    BY <1>3, <1>4 DEF FramesExclusive

\* No frame is handed out twice, and each lies in a usable region, for every memory
\* map, heap and order in which the drivers ask (BootInfoFrameAllocator).
THEOREM FramesHandedOutOnce == Spec => []FramesExclusive
  BY MemInit, MemNext, MemExclusive, PTL DEF Spec

-----------------------------------------------------------------------------
(* The NVMe controller.                                                    *)

Given(frame, user) == [frame |-> frame, user |-> user] \in ToSet(granted)

\* The controller knows the queues of the driver in S and no others.
Known(S) == queues = [q \in Nv!Queues |-> IF q \in S THEN frames[q] ELSE None]

\* Nothing is under way between driver and controller.
Quiet == pending = None /\ answer = None

Has(S) == \A u \in S : Given(frames[u], "nvme")

\* Command c is in the ring, or has been executed (then After has been added to the
\* queues of the controller), or neither.
Exchange(c, before, after) ==
  /\ cc_en /\ csts_rdy
  /\ pending = None \/ pending = [op |-> c, frame |-> frames[c]]
  /\ answer = None \/ pending = None
  /\ pending # None \/ answer = "ok" => Has({c})
  /\ Known(IF answer = "ok" THEN after ELSE before)

Admin == {"asq", "acq"}

NvmeInv ==
  /\ DOMAIN frames = Nv!Uses /\ DOMAIN queues = Nv!Queues
  /\ cc_en \in BOOLEAN /\ csts_rdy \in BOOLEAN
  /\ npc \in {"find", "disable"} =>
       Quiet /\ csts_rdy = cc_en /\ (~cc_en => queues = Nv!NoQueues)
  /\ npc = "disabling" => Quiet /\ ~cc_en /\ (~csts_rdy => queues = Nv!NoQueues)
  /\ npc = "queues" => Quiet /\ ~cc_en /\ ~csts_rdy /\ queues = Nv!NoQueues
  /\ npc = "enabling" => Quiet /\ cc_en /\ Known(Admin) /\ Has(Admin)
  /\ npc = "identify" => Exchange("identify", Admin, Admin) /\ Has(Admin)
  /\ npc = "iocq" =>
       Exchange("iocq", Admin, Admin \cup {"iocq"}) /\ Has(Admin \cup {"identify"})
  /\ npc = "iosq" =>
       /\ Exchange("iosq", Admin \cup {"iocq"}, Nv!Queues)
       /\ Has(Admin \cup {"identify", "iocq"})
  /\ nvme # None =>
       /\ npc = "done" /\ Nv!NvmeReady
       /\ \A u \in Nv!Uses : Given(nvme[u], "nvme")

LEMMA SameFrame ==
  ASSUME NEW i
  PROVE  Nv!Frame(i) = Frame(i) /\ Ah!Frame(i) = Frame(i)
  BY SameFrames DEF Nv!Frame, Ah!Frame, Frame

\* What has been handed out stays so, and what is asked for is.
LEMMA GivenGrows ==
  ASSUME MemInv, [Next]_vars
  PROVE  ToSet(granted) \subseteq ToSet(granted')
  <1>1. CASE UNCHANGED memVars
    BY <1>1 DEF memVars
  <1>2. ASSUME NEW users \in Seq(Users), Allocate(users)
        PROVE  ToSet(granted) \subseteq ToSet(granted')
    <2> DEFINE handed == [i \in DOMAIN users |-> [frame |-> Frame(i), user |-> users[i]]]
    <2>1. granted' = granted \o handed /\ Len(handed) \in Nat
      BY <1>2 DEF Allocate, Handed
    <2> HIDE DEF handed
    <2>2. \A i \in DOMAIN granted : i \in DOMAIN granted' /\ granted'[i] = granted[i]
      BY <2>1 DEF MemInv
    <2> QED
      BY <2>2 DEF ToSet
  <1> QED
    BY <1>1, <1>2, MemoryStep

LEMMA Asked ==
  ASSUME MemInv, NEW users \in Seq(Users), Allocate(users), NEW i \in DOMAIN users
  PROVE  [frame |-> Frame(i), user |-> users[i]] \in ToSet(granted')
  <1> DEFINE handed == [j \in DOMAIN users |-> [frame |-> Frame(j), user |-> users[j]]]
             n == Len(users)
  <1>1. granted' = granted \o handed
    BY DEF Allocate, Handed
  <1>2. n \in Nat /\ Len(handed) = n /\ i \in 1 .. n /\ handed[i] = [frame |-> Frame(i), user |-> users[i]]
    OBVIOUS
  <1> HIDE DEF handed, n
  <1>3. Len(granted) + i \in DOMAIN granted' /\ granted'[Len(granted) + i] = handed[i]
    BY <1>1, <1>2 DEF MemInv
  <1> QED
    BY <1>2, <1>3 DEF ToSet

\* Frames for one and for two.
LEMMA AskedOne ==
  ASSUME MemInv, NEW user \in Users, Allocate(<<user>>)
  PROVE  [frame |-> Frame(1), user |-> user] \in ToSet(granted')
  <1>1. <<user>> \in Seq(Users) /\ 1 \in DOMAIN <<user>> /\ <<user>>[1] = user
    OBVIOUS
  <1> QED
    BY <1>1, Asked

LEMMA AskedTwo ==
  ASSUME MemInv, NEW user \in Users, Allocate(<<user, user>>)
  PROVE  /\ [frame |-> Frame(1), user |-> user] \in ToSet(granted')
         /\ [frame |-> Frame(2), user |-> user] \in ToSet(granted')
  <1>1. /\ <<user, user>> \in Seq(Users)
        /\ 1 \in DOMAIN <<user, user>> /\ <<user, user>>[1] = user
        /\ 2 \in DOMAIN <<user, user>> /\ <<user, user>>[2] = user
    OBVIOUS
  <1> QED
    BY <1>1, Asked

LEMMA NvmeUnchanged ==
  ASSUME NvmeInv, UNCHANGED nvmeVars, ToSet(granted) \subseteq ToSet(granted')
  PROVE  NvmeInv'
  BY DEF nvmeVars, NvmeInv, Quiet, Known, Has, Exchange, Given, Nv!NvmeReady

LEMMA NvmeSetup ==
  ASSUME MemInv, NvmeInv, [Next]_vars,
         Nv!Find \/ Nv!Disable \/ Nv!Ready
  PROVE  NvmeInv'
  <1>1. CASE Nv!Find
    BY <1>1, GivenGrows DEF Nv!Find, NvmeInv, Quiet, Nv!ctlVars
  <1>2. CASE Nv!Disable
    BY <1>2, GivenGrows DEF Nv!Disable, NvmeInv, Quiet
  <1>3. CASE Nv!Ready
    BY <1>3, GivenGrows, NoneAssumption DEF Nv!Ready, NvmeInv, Quiet, Nv!ctlVars, Known, Has, Given, Exchange
  <1> QED
    BY <1>1, <1>2, <1>3

LEMMA NvmeAdminQueues ==
  ASSUME MemInv, NvmeInv, [Next]_vars, Nv!AdminQueues
  PROVE  NvmeInv'
  <1>1. /\ Allocate(<<"nvme", "nvme">>) /\ npc = "queues"
        /\ frames' = [frames EXCEPT !.asq = Frame(1), !.acq = Frame(2)]
    BY SameAllocate, SameFrame DEF Nv!AdminQueues
  <1>2. "nvme" \in Users
    BY DEF Users
  <1>3. /\ [frame |-> Frame(1), user |-> "nvme"] \in ToSet(granted')
        /\ [frame |-> Frame(2), user |-> "nvme"] \in ToSet(granted')
    BY <1>1, <1>2, AskedTwo
  <1>4. /\ Quiet /\ cc_en = FALSE /\ queues = Nv!NoQueues /\ nvme = None
        /\ DOMAIN frames = Nv!Uses
    BY <1>1 DEF NvmeInv
  <1>5. DOMAIN frames' = Nv!Uses /\ frames'.asq = Frame(1) /\ frames'.acq = Frame(2)
    BY <1>1, <1>4 DEF Nv!Uses
  <1>6. queues' = [q \in Nv!Queues |-> IF q \in Admin THEN frames'[q] ELSE None]
    BY <1>4, <1>5 DEF Nv!AdminQueues, Nv!NoQueues, Nv!Queues, Admin
  <1>7. Has(Admin)' /\ Known(Admin)' /\ Quiet' /\ DOMAIN queues' = Nv!Queues
    BY <1>3, <1>4, <1>5, <1>6 DEF Has, Given, Known, Quiet, Admin, Nv!AdminQueues
  <1>8. npc' = "enabling" /\ cc_en' = TRUE /\ csts_rdy' \in BOOLEAN /\ nvme' = None
    BY <1>4 DEF Nv!AdminQueues, NvmeInv
  <1> QED
    BY <1>5, <1>7, <1>8 DEF NvmeInv

LEMMA NvmeSubmit ==
  ASSUME MemInv, NvmeInv, [Next]_vars, NEW k \in DOMAIN Nv!Commands, Nv!Submit(k)
  PROVE  NvmeInv'
  <1> DEFINE c == Nv!Commands[k]
  <1>1. /\ Allocate(<<"nvme">>) /\ npc = c /\ npc' = c
        /\ pending = None /\ answer = None /\ answer' = None
        /\ frames' = [frames EXCEPT ![c] = Frame(1)]
        /\ pending' = [op |-> c, frame |-> Frame(1)]
        /\ UNCHANGED <<nvme, queues>> /\ UNCHANGED <<cc_en, csts_rdy>>
    BY SameAllocate, SameFrame DEF Nv!Submit
  <1>2. "nvme" \in Users
    BY DEF Users
  <1>3. [frame |-> Frame(1), user |-> "nvme"] \in ToSet(granted')
    BY <1>1, <1>2, AskedOne
  <1>4. c \in {"identify", "iocq", "iosq"}
    BY DEF Nv!Commands
  <1> HIDE DEF c
  <1>5. DOMAIN frames = Nv!Uses /\ c \in Nv!Uses
    BY <1>4 DEF NvmeInv, Nv!Uses
  <1>6. DOMAIN frames' = Nv!Uses /\ frames'[c] = Frame(1) /\ \A u \in Nv!Uses \ {c} : frames'[u] = frames[u]
    BY <1>1, <1>5
  <1>7. ASSUME NEW before, NEW after, Exchange(c, before, after), c \notin before
        PROVE  Exchange(c, before, after)'
    <2>1. Known(before)
      BY <1>1, <1>7, NoneAssumption DEF Exchange
    <2>2. Known(before)'
      BY <1>1, <1>6, <1>7, <2>1 DEF Known, Nv!Uses, Nv!Queues
    <2>3. Has({c})'
      BY <1>3, <1>6 DEF Has, Given
    <2> QED
      BY <1>1, <1>6, <1>7, <2>2, <2>3, NoneAssumption DEF Exchange
  <1>8. ASSUME NEW S, S \subseteq Nv!Uses \ {c}, Has(S)
        PROVE  Has(S)'
    BY <1>6, <1>8, GivenGrows DEF Has, Given
  <1>9. nvme = None
    BY <1>1, <1>4 DEF NvmeInv
  <1>10. CASE c = "identify"
    <2>1. Exchange("identify", Admin, Admin) /\ Has(Admin)
      BY <1>1, <1>10 DEF NvmeInv
    <2>2. Exchange("identify", Admin, Admin)' /\ Has(Admin)'
      BY <1>7, <1>8, <1>10, <2>1 DEF Admin, Nv!Uses
    <2> QED
      BY <1>1, <1>6, <1>9, <1>10, <2>2 DEF NvmeInv
  <1>11. CASE c = "iocq"
    <2>1. Exchange("iocq", Admin, Admin \cup {"iocq"}) /\ Has(Admin \cup {"identify"})
      BY <1>1, <1>11 DEF NvmeInv
    <2>2. Exchange("iocq", Admin, Admin \cup {"iocq"})' /\ Has(Admin \cup {"identify"})'
      BY <1>7, <1>8, <1>11, <2>1 DEF Admin, Nv!Uses
    <2> QED
      BY <1>1, <1>6, <1>9, <1>11, <2>2 DEF NvmeInv
  <1>12. CASE c = "iosq"
    <2>1. /\ Exchange("iosq", Admin \cup {"iocq"}, Nv!Queues)
          /\ Has(Admin \cup {"identify", "iocq"})
      BY <1>1, <1>12 DEF NvmeInv
    <2>2. /\ Exchange("iosq", Admin \cup {"iocq"}, Nv!Queues)'
          /\ Has(Admin \cup {"identify", "iocq"})'
      BY <1>7, <1>8, <1>12, <2>1 DEF Admin, Nv!Uses
    <2> QED
      BY <1>1, <1>6, <1>9, <1>12, <2>2 DEF NvmeInv
  <1> QED
    BY <1>4, <1>10, <1>11, <1>12

LEMMA NvmeAnswered ==
  ASSUME MemInv, NvmeInv, [Next]_vars, NEW k \in DOMAIN Nv!Commands, Nv!Answered(k)
  PROVE  NvmeInv'
  <1>1. /\ answer = "ok" /\ answer' = None
        /\ UNCHANGED <<nvme, frames, queues, pending>> /\ UNCHANGED <<cc_en, csts_rdy>>
        /\ (npc = "identify" /\ npc' = "iocq") \/ (npc = "iocq" /\ npc' = "iosq")
    BY DEF Nv!Answered, Nv!Succeeded, Nv!Commands
  <1>2. nvme = None
    BY <1>1 DEF NvmeInv
  <1>3. \A S \in SUBSET Nv!Uses : Has(S) => Has(S)'
    BY <1>1, GivenGrows DEF Has, Given
  <1>4. pending = None
    BY <1>1, NoneAssumption DEF NvmeInv, Exchange
  <1>5. CASE npc = "identify"
    <2>1. Exchange("identify", Admin, Admin) /\ Has(Admin)
      BY <1>5 DEF NvmeInv
    <2>2. Has({"identify"}) /\ Known(Admin)
      BY <1>1, <2>1 DEF Exchange
    <2>3. Has(Admin \cup {"identify"})
      BY <2>1, <2>2 DEF Has
    <2>4. Exchange("iocq", Admin, Admin \cup {"iocq"})' /\ Has(Admin \cup {"identify"})'
      BY <1>1, <1>3, <1>4, <2>1, <2>2, <2>3, NoneAssumption DEF Exchange, Known, Admin, Nv!Uses
    <2> QED
      BY <1>1, <1>2, <1>5, <2>4 DEF NvmeInv
  <1>6. CASE npc = "iocq"
    <2>1. Exchange("iocq", Admin, Admin \cup {"iocq"}) /\ Has(Admin \cup {"identify"})
      BY <1>6 DEF NvmeInv
    <2>2. Has({"iocq"}) /\ Known(Admin \cup {"iocq"})
      BY <1>1, <2>1 DEF Exchange
    <2>3. Has(Admin \cup {"identify", "iocq"})
      BY <2>1, <2>2 DEF Has
    <2>4. /\ Exchange("iosq", Admin \cup {"iocq"}, Nv!Queues)'
          /\ Has(Admin \cup {"identify", "iocq"})'
      BY <1>1, <1>3, <1>4, <2>1, <2>2, <2>3, NoneAssumption DEF Exchange, Known, Admin, Nv!Uses
    <2> QED
      BY <1>1, <1>2, <1>6, <2>4 DEF NvmeInv
  <1> QED
    BY <1>1, <1>5, <1>6

LEMMA NvmeFinish ==
  ASSUME MemInv, NvmeInv, [Next]_vars, Nv!Finish
  PROVE  NvmeInv'
  <1>1. /\ Allocate(<<"nvme">>) /\ npc = "iosq" /\ npc' = "done"
        /\ answer = "ok" /\ answer' = None /\ nvme' = frames'
        /\ frames' = [frames EXCEPT !.bounce = Frame(1)]
        /\ UNCHANGED <<queues, pending>> /\ UNCHANGED <<cc_en, csts_rdy>>
    BY SameAllocate, SameFrame DEF Nv!Finish, Nv!Succeeded, Nv!Commands
  <1>2. "nvme" \in Users
    BY DEF Users
  <1>3. [frame |-> Frame(1), user |-> "nvme"] \in ToSet(granted')
    BY <1>1, <1>2, AskedOne
  <1>4. /\ Exchange("iosq", Admin \cup {"iocq"}, Nv!Queues)
        /\ Has(Admin \cup {"identify", "iocq"}) /\ DOMAIN frames = Nv!Uses
    BY <1>1 DEF NvmeInv
  <1>5. /\ cc_en /\ csts_rdy /\ pending = None
        /\ Has({"iosq"}) /\ Known(Nv!Queues)
    BY <1>1, <1>4, NoneAssumption DEF Exchange
  <1>6. /\ DOMAIN frames' = Nv!Uses /\ frames'["bounce"] = Frame(1)
        /\ \A u \in Nv!Uses \ {"bounce"} : frames'[u] = frames[u]
    BY <1>1, <1>4 DEF Nv!Uses
  <1>7. \A u \in Nv!Uses \ {"bounce"} : Given(frames[u], "nvme")
    BY <1>4, <1>5 DEF Has, Nv!Uses, Admin
  <1>8. \A u \in Nv!Uses : Given(nvme[u], "nvme")'
    BY <1>1, <1>3, <1>6, <1>7, GivenGrows DEF Given
  <1>9. queues' = [q \in Nv!Queues |-> nvme'[q]]
    BY <1>1, <1>5, <1>6 DEF Known, Nv!Queues, Nv!Uses
  <1>10. Nv!NvmeReady'
    BY <1>1, <1>5, <1>9 DEF Nv!NvmeReady
  <1> QED
    BY <1>1, <1>6, <1>8, <1>10 DEF NvmeInv

\* The rest of the driver gives up.
LEMMA NvmeGivesUp ==
  ASSUME MemInv, NvmeInv, [Next]_vars,
         Nv!NotFound \/ Nv!Refused \/ Nv!RunOut \/ Nv!OutOfFrames
  PROVE  NvmeInv'
  <1>1. Nv!Commands = <<"identify", "iocq", "iosq">> /\ ToSet(Nv!Commands) = {"identify", "iocq", "iosq"}
    BY DEF Nv!Commands, ToSet
  <1>2. Nv!ToSet(Nv!Commands) = {"identify", "iocq", "iosq"}
    BY DEF Nv!Commands, Nv!ToSet
  <1>3. npc \notin {"done", "panic"}
    BY <1>1, <1>2 DEF Nv!NotFound, Nv!Refused, Nv!RunOut, Nv!OutOfFrames
  <1>4. /\ npc' \in {"done", "panic"}
        /\ UNCHANGED <<nvme, frames, queues>> /\ UNCHANGED <<cc_en, csts_rdy>>
    BY DEF Nv!NotFound, Nv!Refused, Nv!RunOut, Nv!OutOfFrames, Nv!GiveUp, Nv!ctlVars
  <1> QED
    BY <1>3, <1>4 DEF NvmeInv

LEMMA NvmeController ==
  ASSUME MemInv, NvmeInv, [Next]_vars, Nv!Controller
  PROVE  NvmeInv'
  <1>1. CASE Nv!Follow
    BY <1>1, GivenGrows DEF Nv!Follow, NvmeInv, Quiet, Nv!driverVars, Known, Has, Given, Exchange,
       Nv!NoQueues, Nv!NvmeReady
  <1>2. CASE Nv!Execute
    <2>1. /\ cc_en /\ csts_rdy /\ pending # None /\ pending' = None
          /\ UNCHANGED <<npc, nvme, frames>> /\ UNCHANGED <<cc_en, csts_rdy>>
      BY <1>2 DEF Nv!Execute, Nv!driverVars
    <2>2. npc \notin {"find", "disable", "disabling", "queues", "enabling"} /\ nvme = None
      BY <2>1 DEF NvmeInv, Quiet, Nv!NvmeReady
    <2>3. ASSUME NEW S, Has(S) PROVE Has(S)'
      BY <2>1, <2>3, GivenGrows DEF Has, Given
    <2>4. DOMAIN frames' = Nv!Uses /\ DOMAIN queues' = Nv!Queues
      BY <1>2, <2>1 DEF NvmeInv, Nv!Execute
    <2>5. CASE npc = "identify"
      <3>1. Exchange("identify", Admin, Admin) /\ Has(Admin)
        BY <2>5 DEF NvmeInv
      <3>2. pending.op = "identify" /\ Has({"identify"}) /\ Known(Admin)
        BY <2>1, <3>1 DEF Exchange
      <3>3. queues' = queues
        BY <1>2, <3>2 DEF Nv!Execute
      <3>4. Exchange("identify", Admin, Admin)' /\ Has(Admin)'
        BY <2>1, <2>3, <3>1, <3>2, <3>3 DEF Exchange, Known
      <3> QED
        BY <2>1, <2>2, <2>4, <2>5, <3>4 DEF NvmeInv
    <2>6. CASE npc = "iocq"
      <3>1. Exchange("iocq", Admin, Admin \cup {"iocq"}) /\ Has(Admin \cup {"identify"})
        BY <2>6 DEF NvmeInv
      <3>2. /\ pending.op = "iocq" /\ pending.frame = frames["iocq"] /\ Has({"iocq"})
            /\ answer = None /\ Known(Admin)
        BY <2>1, <3>1, NoneAssumption DEF Exchange
      <3>3. \/ answer' = "error" /\ queues' = queues
            \/ answer' = "ok" /\ queues' = [queues EXCEPT !["iocq"] = frames["iocq"]]
        BY <1>2, <3>2 DEF Nv!Execute
      <3>4. Known(IF answer = "ok" THEN Admin \cup {"iocq"} ELSE Admin)'
        BY <2>1, <3>2, <3>3 DEF Known, Nv!Queues, Admin
      <3>5. Exchange("iocq", Admin, Admin \cup {"iocq"})' /\ Has(Admin \cup {"identify"})'
        BY <2>1, <2>3, <3>1, <3>2, <3>4 DEF Exchange
      <3> QED
        BY <2>1, <2>2, <2>4, <2>6, <3>5 DEF NvmeInv
    <2>7. CASE npc = "iosq"
      <3>1. /\ Exchange("iosq", Admin \cup {"iocq"}, Nv!Queues)
            /\ Has(Admin \cup {"identify", "iocq"})
        BY <2>7 DEF NvmeInv
      <3>2. /\ pending.op = "iosq" /\ pending.frame = frames["iosq"] /\ Has({"iosq"})
            /\ answer = None /\ Known(Admin \cup {"iocq"})
        BY <2>1, <3>1, NoneAssumption DEF Exchange
      <3>3. \/ answer' = "error" /\ queues' = queues
            \/ answer' = "ok" /\ queues' = [queues EXCEPT !["iosq"] = frames["iosq"]]
        BY <1>2, <3>2 DEF Nv!Execute
      <3>4. Known(IF answer = "ok" THEN Nv!Queues ELSE Admin \cup {"iocq"})'
        BY <2>1, <3>2, <3>3 DEF Known, Nv!Queues, Admin
      <3>5. /\ Exchange("iosq", Admin \cup {"iocq"}, Nv!Queues)'
            /\ Has(Admin \cup {"identify", "iocq"})'
        BY <2>1, <2>3, <3>1, <3>2, <3>4 DEF Exchange
      <3> QED
        BY <2>1, <2>2, <2>4, <2>7, <3>5 DEF NvmeInv
    <2>8. CASE npc \notin {"identify", "iocq", "iosq"}
      BY <2>1, <2>2, <2>4, <2>8 DEF NvmeInv
    <2> QED
      BY <2>5, <2>6, <2>7, <2>8
  <1> QED
    BY <1>1, <1>2 DEF Nv!Controller

LEMMA NvmeInit == Init => NvmeInv
  <1> SUFFICES ASSUME NEW m \in Machines, BootOn(m)
               PROVE  NvmeInv
    BY DEF Init
  <1>1. m.running \in BOOLEAN
    BY MachinesAssumption
  <1> QED
    BY <1>1 DEF BootOn, Nv!Start, NvmeInv, Quiet, Nv!NoFrames, Nv!NoQueues, Nv!Firmware

LEMMA NvmeNext == MemInv /\ NvmeInv /\ [Next]_vars => NvmeInv'
  <1> SUFFICES ASSUME MemInv, NvmeInv, [Next]_vars PROVE NvmeInv'
    OBVIOUS
  <1>1. CASE InitNvme
    <2>1. Nv!Driver
      BY <1>1 DEF InitNvme
    <2> QED
      BY <2>1, NvmeSetup, NvmeAdminQueues, NvmeSubmit, NvmeAnswered, NvmeFinish, NvmeGivesUp
         DEF Nv!Driver
  <1>2. CASE Nvme
    BY <1>2, NvmeController DEF Nvme
  <1>3. CASE UNCHANGED nvmeVars
    BY <1>3, NvmeUnchanged, GivenGrows
  <1> QED
    BY <1>1, <1>2, <1>3 DEF Next, Kernel, InitHeap, InitPci, InitAhci, InitStorage, InitPs2,
       Ahci, Byte, Stray, vars


-----------------------------------------------------------------------------
(* AHCI.                                                                   *)

PortFields == {"kind", "st", "fre", "cr", "list", "cmd", "answered"}

\* A port without a command, one with its engines as firmware left them, and one
\* that has been told to stop.
Fresh(p) == hba[p].cmd = None /\ ~hba[p].answered
Untouched(p) == hba[p].st = hba[p].cr /\ hba[p].fre = hba[p].cr /\ Fresh(p)
Halted(p) == ~hba[p].st /\ ~hba[p].fre /\ Fresh(p)

AhciInv ==
  /\ DOMAIN hba = 0 .. Ports - 1
  /\ \A p \in DOMAIN hba :
       /\ DOMAIN hba[p] = PortFields
       /\ hba[p].st \in BOOLEAN /\ hba[p].fre \in BOOLEAN /\ hba[p].cr \in BOOLEAN
  /\ port \in Nat
  /\ apc \in {"stopping", "stopped", "setup", "starting", "identify"} => port < Ports
  /\ \A p \in DOMAIN hba :
       p > port \/ (p = port /\ apc \in {"find", "scan"}) => Untouched(p)
  /\ apc = "stopping" => ~hba[port].st /\ Fresh(port)
  /\ apc = "stopped" => Halted(port)
  /\ apc = "setup" => Halted(port) /\ Ah!WaitCr
  /\ apc = "starting" => Halted(port) /\ hba[port].list = ctrl /\ Given(ctrl, "ahci")
  /\ apc = "identify" =>
       /\ hba[port].st /\ hba[port].fre /\ hba[port].list = ctrl /\ Given(ctrl, "ahci")
       /\ hba[port].answered => hba[port].cmd = None /\ hba[port].cr
  /\ ahci # None =>
       /\ apc = "done" /\ ahci.port \in DOMAIN hba /\ Ah!AhciReady
       /\ Given(ahci.ctrl, "ahci")

LEMMA AhciUnchanged ==
  ASSUME AhciInv, UNCHANGED ahciVars, ToSet(granted) \subseteq ToSet(granted')
  PROVE  AhciInv'
  BY DEF ahciVars, AhciInv, Fresh, Untouched, Halted, Ah!WaitCr, Ah!AhciReady, Given

\* The driver on its way to the next port, or to its end.
LEMMA AhciMovesOn ==
  ASSUME AhciInv, [Next]_vars, MemInv,
         Ah!NotFound \/ Ah!Find \/ Ah!Skip \/ Ah!NoPort \/ Ah!IdentifyFails \/ Ah!OutOfFrames
  PROVE  AhciInv'
  <1>1. /\ UNCHANGED <<hba, ctrl, ahci>>
        /\ apc \in {"find", "scan", "setup", "starting", "identify"}
    BY DEF Ah!NotFound, Ah!Find, Ah!Skip, Ah!NoPort, Ah!IdentifyFails, Ah!OutOfFrames, Ah!GiveUp,
       Ah!NextPort
  <1>2. ahci = None
    BY <1>1 DEF AhciInv
  <1>3. \/ port' = port /\ apc' \in {"done", "panic"}
        \/ port' = port /\ apc = "find" /\ apc' = "scan"
        \/ port' = port + 1 /\ apc' = "scan"
    BY DEF Ah!NotFound, Ah!Find, Ah!Skip, Ah!NoPort, Ah!IdentifyFails, Ah!OutOfFrames, Ah!GiveUp,
       Ah!NextPort
  <1>4. port' \in Nat /\ \A p \in DOMAIN hba :
          p > port' \/ (p = port' /\ apc' \in {"find", "scan"}) => Untouched(p)
    BY <1>3 DEF AhciInv
  <1> QED
    BY <1>1, <1>2, <1>3, <1>4 DEF AhciInv, Fresh, Untouched


\* A change of one register of the port at hand leaves all ports well formed, and
\* the others as they were.
LEMMA OnePort ==
  ASSUME AhciInv, NEW p \in DOMAIN hba, NEW f \in PortFields, NEW value,
         f \in {"st", "fre", "cr"} => value \in BOOLEAN,
         Ah!Set(p, f, value)
  PROVE  /\ DOMAIN hba' = DOMAIN hba
         /\ hba'[p][f] = value
         /\ \A g \in PortFields \ {f} : hba'[p][g] = hba[p][g]
         /\ \A q \in DOMAIN hba \ {p} : hba'[q] = hba[q]
         /\ \A q \in DOMAIN hba' :
              /\ DOMAIN hba'[q] = PortFields
              /\ hba'[q].st \in BOOLEAN /\ hba'[q].fre \in BOOLEAN /\ hba'[q].cr \in BOOLEAN
  <1>1. \A q \in DOMAIN hba :
          /\ DOMAIN hba[q] = PortFields
          /\ hba[q].st \in BOOLEAN /\ hba[q].fre \in BOOLEAN /\ hba[q].cr \in BOOLEAN
    BY DEF AhciInv
  <1>2. /\ DOMAIN hba' = DOMAIN hba
        /\ \A q \in DOMAIN hba \ {p} : hba'[q] = hba[q]
        /\ hba'[p] = [hba[p] EXCEPT ![f] = value]
    BY DEF Ah!Set
  <1>3. /\ DOMAIN hba'[p] = PortFields /\ hba'[p][f] = value
        /\ \A g \in PortFields \ {f} : hba'[p][g] = hba[p][g]
    BY <1>1, <1>2
  <1>4. hba'[p].st \in BOOLEAN /\ hba'[p].fre \in BOOLEAN /\ hba'[p].cr \in BOOLEAN
    BY <1>1, <1>3 DEF PortFields
  <1> QED
    BY <1>1, <1>2, <1>3, <1>4

\* The driver is at a port, and not done.
LEMMA PortAtHand ==
  ASSUME AhciInv,
         \/ apc \in {"stopping", "stopped", "setup", "starting", "identify"}
         \/ apc = "scan" /\ port < Ports
  PROVE  port \in DOMAIN hba /\ ahci = None /\ DOMAIN hba[port] = PortFields
  <1>1. port < Ports /\ port \in Nat /\ DOMAIN hba = 0 .. Ports - 1
    BY DEF AhciInv
  <1>2. port \in DOMAIN hba
    BY <1>1, BootAssumption
  <1> QED
    BY <1>2 DEF AhciInv

\* Past the scan, the ports that are still to come are as they were.
LEMMA PortsToCome ==
  ASSUME AhciInv, port' = port, DOMAIN hba' = DOMAIN hba, apc' \notin {"find", "scan"},
         \A q \in DOMAIN hba \ {port} : hba'[q] = hba[q]
  PROVE  \A p \in DOMAIN hba' :
           p > port' \/ (p = port' /\ apc' \in {"find", "scan"}) => Untouched(p)'
  <1>1. ASSUME NEW p \in DOMAIN hba, p > port
        PROVE  Untouched(p) /\ p # port /\ hba'[p] = hba[p]
    BY <1>1 DEF AhciInv
  <1>2. \A p \in DOMAIN hba : p > port => Untouched(p)'
    BY <1>1 DEF Untouched, Fresh
  <1> QED
    BY <1>2

LEMMA AhciStops ==
  ASSUME AhciInv, [Next]_vars, MemInv, Ah!Stop \/ Ah!StopFis \/ Ah!Stopped
  PROVE  AhciInv'
  <1>1. port \in DOMAIN hba /\ ahci = None /\ port' = port /\ ahci' = ahci
    BY PortAtHand DEF Ah!Stop, Ah!StopFis, Ah!Stopped
  <1>2. CASE Ah!Stop
    <2>1. /\ Ah!Set(port, "st", FALSE) /\ "st" \in PortFields
          /\ Untouched(port)
      BY <1>2, <1>1 DEF AhciInv, Ah!Stop, PortFields
    <2>2. /\ DOMAIN hba' = DOMAIN hba /\ hba'[port]["st"] = FALSE
          /\ \A g \in PortFields \ {"st"} : hba'[port][g] = hba[port][g]
          /\ \A q \in DOMAIN hba \ {port} : hba'[q] = hba[q]
          /\ \A q \in DOMAIN hba' :
               /\ DOMAIN hba'[q] = PortFields
               /\ hba'[q].st \in BOOLEAN /\ hba'[q].fre \in BOOLEAN /\ hba'[q].cr \in BOOLEAN
      BY <2>1, <1>1, OnePort
    <2>3. /\ hba'[port].fre = hba[port].fre /\ hba'[port].cr = hba[port].cr
          /\ hba'[port].cmd = hba[port].cmd /\ hba'[port].answered = hba[port].answered
      BY <2>2 DEF PortFields
    <2>4. apc' = IF hba[port].st \/ hba[port].fre THEN "stopping" ELSE "setup"
      BY <1>2 DEF Ah!Stop
    <2>5. Fresh(port)' /\ ~hba'[port].st
      BY <1>1, <2>1, <2>2, <2>3 DEF Untouched, Fresh
    <2>6. apc' = "setup" => Halted(port)' /\ Ah!WaitCr'
      BY <1>1, <2>1, <2>2, <2>3, <2>4, <2>5 DEF Untouched, Halted, Ah!WaitCr
    <2>7. port \in Nat /\ port < Ports /\ DOMAIN hba = 0 .. Ports - 1
      BY <1>2 DEF AhciInv, Ah!Stop
    <2>8. apc' \in {"stopping", "setup"}
      BY <2>4
    <2>9. \A p \in DOMAIN hba' :
            p > port' \/ (p = port' /\ apc' \in {"find", "scan"}) => Untouched(p)'
      BY <1>1, <2>2, <2>8, PortsToCome
    <2> QED
      BY <1>1, <2>2, <2>5, <2>6, <2>7, <2>8, <2>9 DEF AhciInv
  <1>3. CASE Ah!StopFis
    <2>1. /\ Ah!Set(port, "fre", FALSE) /\ "fre" \in PortFields
          /\ apc = "stopping" /\ apc' = "stopped"
      BY <1>3 DEF Ah!StopFis, PortFields
    <2>2. /\ DOMAIN hba' = DOMAIN hba
          /\ hba'[port].st = hba[port].st /\ ~hba'[port].fre
          /\ hba'[port].cmd = hba[port].cmd /\ hba'[port].answered = hba[port].answered
          /\ \A q \in DOMAIN hba \ {port} : hba'[q] = hba[q]
          /\ \A q \in DOMAIN hba' :
               /\ DOMAIN hba'[q] = PortFields
               /\ hba'[q].st \in BOOLEAN /\ hba'[q].fre \in BOOLEAN /\ hba'[q].cr \in BOOLEAN
      BY <2>1, <1>1, OnePort, ZenonT(60) DEF PortFields
    <2> QED
      BY <1>1, <2>1, <2>2 DEF AhciInv, Untouched, Fresh, Halted
  <1>4. CASE Ah!Stopped
    BY <1>1, <1>4 DEF Ah!Stopped, AhciInv, Untouched, Fresh, Halted, Ah!WaitCr
  <1> QED
    BY <1>2, <1>3, <1>4

LEMMA AhciSetup ==
  ASSUME MemInv, AhciInv, [Next]_vars, Ah!Setup
  PROVE  AhciInv'
  <1>1. /\ Allocate(<<"ahci">>) /\ apc = "setup" /\ apc' = "starting"
        /\ ctrl' = Frame(1) /\ UNCHANGED <<port, ahci>>
        /\ Ah!Set(port, "list", ctrl') /\ "list" \in PortFields
    BY SameAllocate, SameFrame DEF Ah!Setup, PortFields
  <1>2. "ahci" \in Users
    BY DEF Users
  <1>3. [frame |-> ctrl', user |-> "ahci"] \in ToSet(granted')
    BY <1>1, <1>2, AskedOne
  <1>4. port \in DOMAIN hba /\ Halted(port) /\ ahci = None
    BY <1>1, PortAtHand DEF AhciInv
  <1>5. /\ DOMAIN hba' = DOMAIN hba /\ hba'[port].list = ctrl'
        /\ hba'[port].st = hba[port].st /\ hba'[port].fre = hba[port].fre
        /\ hba'[port].cmd = hba[port].cmd /\ hba'[port].answered = hba[port].answered
        /\ \A q \in DOMAIN hba \ {port} : hba'[q] = hba[q]
        /\ \A q \in DOMAIN hba' :
             /\ DOMAIN hba'[q] = PortFields
             /\ hba'[q].st \in BOOLEAN /\ hba'[q].fre \in BOOLEAN /\ hba'[q].cr \in BOOLEAN
    BY <1>1, <1>4, OnePort DEF PortFields
  <1> QED
    BY <1>1, <1>3, <1>4, <1>5 DEF AhciInv, Untouched, Fresh, Halted, Given

LEMMA AhciStarts ==
  ASSUME MemInv, AhciInv, [Next]_vars, Ah!StartPort
  PROVE  AhciInv'
  <1>1. /\ apc = "starting" /\ apc' = "identify" /\ UNCHANGED <<port, ctrl, ahci>>
    BY DEF Ah!StartPort
  <1>2. /\ port \in DOMAIN hba /\ Halted(port) /\ ahci = None
        /\ hba[port].list = ctrl /\ Given(ctrl, "ahci") /\ DOMAIN hba[port] = PortFields
    BY <1>1, PortAtHand DEF AhciInv
  <1>3. PICK cmd : hba' = [hba EXCEPT ![port].st = TRUE, ![port].fre = TRUE, ![port].cmd = cmd]
    BY DEF Ah!StartPort
  <1>4. /\ DOMAIN hba' = DOMAIN hba /\ DOMAIN hba'[port] = PortFields
        /\ hba'[port].st = TRUE /\ hba'[port].fre = TRUE /\ hba'[port].cr = hba[port].cr
        /\ hba'[port].list = ctrl /\ hba'[port].answered = hba[port].answered
        /\ \A q \in DOMAIN hba \ {port} : hba'[q] = hba[q]
    <2>1. /\ DOMAIN hba' = DOMAIN hba
          /\ \A q \in DOMAIN hba \ {port} : hba'[q] = hba[q]
          /\ hba'[port] = [hba[port] EXCEPT !.st = TRUE, !.fre = TRUE, !.cmd = cmd]
      BY <1>2, <1>3, Zenon
    <2> QED
      BY <1>2, <2>1 DEF PortFields
  <1>5. Given(ctrl, "ahci")'
    BY <1>1, <1>2, GivenGrows DEF Given
  <1>6. \A q \in DOMAIN hba' :
          /\ DOMAIN hba'[q] = PortFields
          /\ hba'[q].st \in BOOLEAN /\ hba'[q].fre \in BOOLEAN /\ hba'[q].cr \in BOOLEAN
    <2>1. \A q \in DOMAIN hba :
          /\ DOMAIN hba[q] = PortFields
          /\ hba[q].st \in BOOLEAN /\ hba[q].fre \in BOOLEAN /\ hba[q].cr \in BOOLEAN
      BY DEF AhciInv
    <2> QED
      BY <1>2, <1>4, <2>1
  <1>7. \A p \in DOMAIN hba' :
          p > port' \/ (p = port' /\ apc' \in {"find", "scan"}) => Untouched(p)'
    BY <1>1, <1>4, PortsToCome
  <1>8. ~hba'[port].answered
    BY <1>2, <1>4 DEF Halted, Fresh
  <1>9. port \in Nat /\ port < Ports /\ DOMAIN hba = 0 .. Ports - 1
    BY <1>1 DEF AhciInv
  <1> QED
    BY <1>1, <1>2, <1>4, <1>5, <1>6, <1>7, <1>8, <1>9 DEF AhciInv

LEMMA AhciIdentified ==
  ASSUME MemInv, AhciInv, [Next]_vars, Ah!Identified
  PROVE  AhciInv'
  <1>1. /\ apc = "identify" /\ apc' = "done" /\ UNCHANGED <<port, ctrl>>
        /\ hba[port].answered /\ ahci' = [port |-> port, ctrl |-> ctrl]
        /\ Ah!Set(port, "answered", FALSE) /\ "answered" \in PortFields
    BY DEF Ah!Identified, PortFields
  <1>2. /\ port \in DOMAIN hba /\ hba[port].st /\ hba[port].fre /\ hba[port].cr
        /\ hba[port].list = ctrl /\ hba[port].cmd = None /\ Given(ctrl, "ahci")
    BY <1>1, PortAtHand DEF AhciInv
  <1>3. /\ DOMAIN hba' = DOMAIN hba /\ ~hba'[port].answered
        /\ hba'[port].st = hba[port].st /\ hba'[port].fre = hba[port].fre
        /\ hba'[port].cr = hba[port].cr /\ hba'[port].list = hba[port].list
        /\ hba'[port].cmd = hba[port].cmd
        /\ \A q \in DOMAIN hba \ {port} : hba'[q] = hba[q]
        /\ \A q \in DOMAIN hba' :
             /\ DOMAIN hba'[q] = PortFields
             /\ hba'[q].st \in BOOLEAN /\ hba'[q].fre \in BOOLEAN /\ hba'[q].cr \in BOOLEAN
    <2>1. /\ DOMAIN hba' = DOMAIN hba /\ hba'[port]["answered"] = FALSE
          /\ \A g \in PortFields \ {"answered"} : hba'[port][g] = hba[port][g]
          /\ \A q \in DOMAIN hba \ {port} : hba'[q] = hba[q]
          /\ \A q \in DOMAIN hba' :
               /\ DOMAIN hba'[q] = PortFields
               /\ hba'[q].st \in BOOLEAN /\ hba'[q].fre \in BOOLEAN /\ hba'[q].cr \in BOOLEAN
      <3>1. /\ port \in DOMAIN hba /\ "answered" \in PortFields
            /\ "answered" \notin {"st", "fre", "cr"} /\ Ah!Set(port, "answered", FALSE)
        BY <1>1, <1>2
      <3> QED
        BY <3>1, OnePort
    <2> QED
      BY <2>1 DEF PortFields
  <1>4. Given(ctrl, "ahci")'
    BY <1>1, <1>2, GivenGrows DEF Given
  <1>5. Ah!AhciReady' /\ ahci'.port \in DOMAIN hba' /\ ahci'.ctrl = ctrl /\ ctrl' = ctrl
    BY <1>1, <1>2, <1>3 DEF Ah!AhciReady
  <1>6. Given(ahci.ctrl, "ahci")'
    BY <1>4, <1>5 DEF Given
  <1> QED
    BY <1>1, <1>3, <1>5, <1>6 DEF AhciInv, Untouched, Fresh

LEMMA AhciController ==
  ASSUME MemInv, AhciInv, [Next]_vars, Ah!Controller
  PROVE  AhciInv'
  <1>1. PICK p \in DOMAIN hba : Ah!FollowSt(p) \/ Ah!Execute(p)
    BY DEF Ah!Controller
  <1>2. UNCHANGED <<apc, port, ctrl, ahci>>
    BY <1>1 DEF Ah!FollowSt, Ah!Execute
  <1>3. \A c : Given(c, "ahci") => [frame |-> c, user |-> "ahci"] \in ToSet(granted')
    BY GivenGrows DEF Given
  <1>4. CASE Ah!FollowSt(p)
    <2>1. /\ Ah!Set(p, "cr", hba[p].st) /\ "cr" \in PortFields
          /\ hba[p].cr # hba[p].st /\ hba[p].kind # "stuck" /\ hba[p].st \in BOOLEAN
          /\ hba[p].cr \in BOOLEAN
      BY <1>4 DEF Ah!FollowSt, PortFields, AhciInv
    <2>2. /\ DOMAIN hba' = DOMAIN hba /\ hba'[p].cr = hba[p].st
          /\ hba'[p].st = hba[p].st /\ hba'[p].fre = hba[p].fre /\ hba'[p].list = hba[p].list
          /\ hba'[p].cmd = hba[p].cmd /\ hba'[p].answered = hba[p].answered
          /\ hba'[p].kind = hba[p].kind
          /\ \A q \in DOMAIN hba \ {p} : hba'[q] = hba[q]
          /\ \A q \in DOMAIN hba' :
               /\ DOMAIN hba'[q] = PortFields
               /\ hba'[q].st \in BOOLEAN /\ hba'[q].fre \in BOOLEAN /\ hba'[q].cr \in BOOLEAN
      BY <2>1, OnePort DEF PortFields
    <2>3. ~Untouched(p)
      BY <2>1 DEF Untouched
    <2>4. ahci # None => Ah!AhciReady' /\ ahci.port # p
      BY <1>2, <2>1, <2>2 DEF AhciInv, Ah!AhciReady
    <2>5. /\ \A q \in DOMAIN hba : Untouched(q) => Untouched(q)'
          /\ \A q \in DOMAIN hba : Fresh(q) => Fresh(q)'
          /\ \A q \in DOMAIN hba : Halted(q) => Halted(q)'
      BY <2>1, <2>2, <2>3 DEF Untouched, Fresh, Halted
    <2>6. port \in DOMAIN hba /\ Halted(port) /\ Ah!WaitCr => Ah!WaitCr'
      BY <1>2, <2>1, <2>2 DEF Halted, Ah!WaitCr
    <2>7. apc = "identify" =>
            /\ hba'[port].st /\ hba'[port].fre /\ hba'[port].list = ctrl
            /\ hba'[port].answered => hba'[port].cmd = None /\ hba'[port].cr
      BY <2>1, <2>2, PortAtHand DEF AhciInv
    <2>8. apc = "stopping" => ~hba'[port].st
      BY <2>1, <2>2, PortAtHand DEF AhciInv
    <2>9. apc = "starting" => hba'[port].list = ctrl
      BY <2>1, <2>2, PortAtHand DEF AhciInv
    <2> QED
      BY <1>2, <1>3, <2>2, <2>4, <2>5, <2>6, <2>7, <2>8, <2>9, PortAtHand DEF AhciInv, Given
  <1>5. CASE Ah!Execute(p)
    <2>1. /\ hba' = [hba EXCEPT ![p].cmd = None, ![p].answered = TRUE]
          /\ hba[p].cr /\ hba[p].fre /\ hba[p].cmd # None /\ DOMAIN hba[p] = PortFields
      BY <1>5 DEF Ah!Execute, AhciInv
    <2>2. /\ DOMAIN hba' = DOMAIN hba /\ DOMAIN hba'[p] = PortFields
          /\ hba'[p].st = hba[p].st /\ hba'[p].fre = hba[p].fre /\ hba'[p].cr = hba[p].cr
          /\ hba'[p].list = hba[p].list /\ hba'[p].cmd = None
          /\ \A q \in DOMAIN hba \ {p} : hba'[q] = hba[q]
      BY <2>1 DEF PortFields
    <2>3. ~Fresh(p)
      BY <2>1 DEF Fresh
    <2>4. ahci # None => Ah!AhciReady' /\ ahci.port # p
      BY <1>2, <2>1, <2>2 DEF AhciInv, Ah!AhciReady
    <2>5. /\ \A q \in DOMAIN hba : Untouched(q) => Untouched(q)'
          /\ \A q \in DOMAIN hba : Fresh(q) => Fresh(q)'
          /\ \A q \in DOMAIN hba : Halted(q) => Halted(q)'
      BY <2>1, <2>2, <2>3 DEF Untouched, Fresh, Halted
    <2>6. port \in DOMAIN hba /\ Halted(port) /\ Ah!WaitCr => Ah!WaitCr'
      BY <1>2, <2>2, <2>3 DEF Halted, Ah!WaitCr
    <2>7. apc = "identify" =>
            /\ hba'[port].st /\ hba'[port].fre /\ hba'[port].list = ctrl
            /\ hba'[port].answered => hba'[port].cmd = None /\ hba'[port].cr
      BY <2>1, <2>2, PortAtHand DEF AhciInv
    <2>8. apc = "stopping" => ~hba'[port].st
      BY <2>1, <2>2, PortAtHand DEF AhciInv
    <2>9. apc = "starting" => hba'[port].list = ctrl
      BY <2>1, <2>2, PortAtHand DEF AhciInv
    <2>10. \A q \in DOMAIN hba' :
             /\ DOMAIN hba'[q] = PortFields
             /\ hba'[q].st \in BOOLEAN /\ hba'[q].fre \in BOOLEAN /\ hba'[q].cr \in BOOLEAN
      BY <2>2 DEF AhciInv
    <2> QED
      BY <1>2, <1>3, <2>2, <2>4, <2>5, <2>6, <2>7, <2>8, <2>9, <2>10, PortAtHand
         DEF AhciInv, Given
  <1> QED
    BY <1>1, <1>4, <1>5

LEMMA AhciInit == Init => AhciInv
  <1> SUFFICES ASSUME NEW m \in Machines, BootOn(m)
               PROVE  AhciInv
    BY DEF Init
  <1>1. m.running \in BOOLEAN
    BY MachinesAssumption
  <1>2. hba = [p \in 0 .. Ports - 1 |-> Ah!Port(m.ports[p + 1], m.running)]
    BY DEF BootOn, Ah!Start
  <1>3. \A p \in DOMAIN hba : hba[p] = Ah!Port(m.ports[p + 1], m.running)
    BY <1>2
  <1>4. \A p \in DOMAIN hba :
          /\ DOMAIN hba[p] = PortFields /\ hba[p].st = m.running /\ hba[p].fre = m.running
          /\ hba[p].cr = m.running /\ hba[p].cmd = None /\ hba[p].answered = FALSE
    BY <1>3 DEF Ah!Port, PortFields
  <1>5. DOMAIN hba = 0 .. Ports - 1 /\ apc = "find" /\ port = 0 /\ ahci = None
    BY <1>2 DEF BootOn, Ah!Start
  <1> QED
    BY <1>1, <1>4, <1>5 DEF AhciInv, Untouched, Fresh

LEMMA AhciNext == MemInv /\ AhciInv /\ [Next]_vars => AhciInv'
  <1> SUFFICES ASSUME MemInv, AhciInv, [Next]_vars PROVE AhciInv'
    OBVIOUS
  <1>1. CASE InitAhci
    <2>1. Ah!Driver
      BY <1>1 DEF InitAhci
    <2> QED
      BY <2>1, AhciMovesOn, AhciStops, AhciSetup, AhciStarts, AhciIdentified DEF Ah!Driver
  <1>2. CASE Ahci
    BY <1>2, AhciController DEF Ahci
  <1>3. CASE UNCHANGED ahciVars
    BY <1>3, AhciUnchanged, GivenGrows
  <1> QED
    BY <1>1, <1>2, <1>3 DEF Next, Kernel, InitHeap, InitPci, InitNvme, InitStorage, InitPs2,
       Nvme, Byte, Stray, vars

\* What the drivers keep is what the devices are doing, on frames handed out for it.
THEOREM BackendIsReady == Spec => []BackendReady
  <1>1. MemInv /\ NvmeInv /\ AhciInv => BackendReady
    BY DEF NvmeInv, AhciInv, BackendReady, Given, Nv!NvmeReady, Ah!AhciReady
  <1> QED
    BY <1>1, MemInit, MemNext, NvmeInit, NvmeNext, AhciInit, AhciNext, PTL DEF Spec

\* A port is cut off from its areas only when it has finished.
THEOREM PortsMovedWhenIdle == Spec => MovedWhenIdle
  <1>1. ASSUME AhciInv, [Next]_vars, NEW p \in DOMAIN hba, hba[p].kind \notin {"slow", "stuck"},
               hba'[p].list # hba[p].list \/ (hba[p].fre /\ ~hba'[p].fre)
        PROVE  ~hba[p].cr
    <2>1. Ah!Driver \/ Ah!Controller
      BY <1>1 DEF Next, Kernel, InitHeap, InitPci, InitAhci, InitNvme, InitStorage, InitPs2,
         Ahci, Nvme, Byte, Stray, vars, ahciVars
    <2>2. DOMAIN hba[p] = PortFields
      BY <1>1 DEF AhciInv
    <2>3. hba' # hba /\ p \in DOMAIN hba
      BY <1>1
    <2>4. ~Ah!NotFound /\ ~Ah!Find /\ ~Ah!Skip /\ ~Ah!NoPort /\ ~Ah!Stopped /\ ~Ah!IdentifyFails
          /\ ~Ah!OutOfFrames
      BY <2>3 DEF Ah!NotFound, Ah!Find, Ah!Skip, Ah!NoPort, Ah!Stopped, Ah!IdentifyFails,
         Ah!OutOfFrames, Ah!GiveUp
    <2>5. ASSUME NEW q \in DOMAIN hba, NEW f \in PortFields \ {"list", "fre"}, NEW value,
                 Ah!Set(q, f, value)
          PROVE  FALSE
      BY <1>1, <2>2, <2>5 DEF Ah!Set, PortFields
    <2>6. CASE Ah!Stop
      <3>1. port \in DOMAIN hba /\ Ah!Set(port, "st", FALSE)
        BY <2>6, PortAtHand, <1>1 DEF Ah!Stop
      <3> QED
        BY <3>1, <2>5 DEF PortFields
    <2>7. CASE Ah!Identified
      <3>1. port \in DOMAIN hba /\ Ah!Set(port, "answered", FALSE)
        BY <2>7, PortAtHand, <1>1 DEF Ah!Identified
      <3> QED
        BY <3>1, <2>5 DEF PortFields
    <2>8. CASE Ah!StopFis
      <3>1. port \in DOMAIN hba /\ Ah!Set(port, "fre", FALSE) /\ Ah!WaitCr
        BY <2>8, PortAtHand, <1>1 DEF Ah!StopFis
      <3> QED
        BY <3>1, <1>1, <2>2 DEF Ah!Set, Ah!WaitCr, PortFields
    <2>9. CASE Ah!Setup
      <3>1. port \in DOMAIN hba /\ Ah!Set(port, "list", ctrl') /\ Ah!WaitCr
        BY <2>9, PortAtHand, <1>1 DEF Ah!Setup, AhciInv
      <3> QED
        BY <3>1, <1>1, <2>2 DEF Ah!Set, Ah!WaitCr, PortFields
    <2>10. CASE Ah!StartPort
      <3>1. port \in DOMAIN hba
        BY <2>10, PortAtHand, <1>1 DEF Ah!StartPort
      <3>2. PICK cmd : hba' = [hba EXCEPT ![port].st = TRUE, ![port].fre = TRUE, ![port].cmd = cmd]
        BY <2>10 DEF Ah!StartPort
      <3>3. /\ p # port => hba'[p] = hba[p]
            /\ hba'[port] = [hba[port] EXCEPT !.st = TRUE, !.fre = TRUE, !.cmd = cmd]
        BY <3>1, <3>2, Zenon
      <3>4. hba'[port].list = hba[port].list /\ hba'[port].fre = TRUE
        BY <3>1, <3>3, <1>1 DEF AhciInv, PortFields
      <3> QED
        BY <1>1, <3>3, <3>4
    <2>11. ASSUME NEW q \in DOMAIN hba, Ah!FollowSt(q)
           PROVE  FALSE
      BY <2>5, <2>11 DEF Ah!FollowSt, PortFields
    <2>12. ASSUME NEW q \in DOMAIN hba, Ah!Execute(q)
           PROVE  FALSE
      <3>1. hba' = [hba EXCEPT ![q].cmd = None, ![q].answered = TRUE]
        BY <2>12 DEF Ah!Execute
      <3>2. /\ p # q => hba'[p] = hba[p]
            /\ p = q => hba'[p] = [hba[p] EXCEPT !.cmd = None, !.answered = TRUE]
        BY <2>12, <3>1, Zenon
      <3> QED
        BY <1>1, <2>2, <3>2 DEF PortFields
    <2> QED
      BY <2>1, <2>4, <2>6, <2>7, <2>8, <2>9, <2>10, <2>11, <2>12 DEF Ah!Driver, Ah!Controller
  <1>2. AhciInv /\ [Next]_vars =>
          [\A p \in DOMAIN hba :
             /\ hba[p].kind \notin {"slow", "stuck"}
             /\ \/ hba'[p].list # hba[p].list
                \/ hba[p].fre /\ ~hba'[p].fre
             => ~hba[p].cr]_hba
    BY <1>1
  <1>3. Spec =>
          [][\A p \in DOMAIN hba :
             /\ hba[p].kind \notin {"slow", "stuck"}
             /\ \/ hba'[p].list # hba[p].list
                \/ hba[p].fre /\ ~hba'[p].fre
             => ~hba[p].cr]_hba
    BY <1>2, MemInit, MemNext, AhciInit, AhciNext, PTL DEF Spec
  <1> QED
    BY <1>3 DEF MovedWhenIdle, Ah!MovedWhenIdle

-----------------------------------------------------------------------------
(* What the scan finds.                                                    *)

LEMMA Together ==
  ASSUME NEW T, NEW a \in Seq(T), NEW b \in Seq(T), NEW x
  PROVE  x \in ToSet(a \o b) <=> x \in ToSet(a) \/ x \in ToSet(b)
  <1>1. /\ a \o b \in Seq(T) /\ Len(a \o b) = Len(a) + Len(b)
        /\ \A i \in 1 .. Len(a) + Len(b) :
             (a \o b)[i] = IF i <= Len(a) THEN a[i] ELSE b[i - Len(a)]
    BY ConcatProperties
  <1>2. /\ Len(a) \in Nat /\ Len(b) \in Nat
        /\ DOMAIN a = 1 .. Len(a) /\ DOMAIN b = 1 .. Len(b)
        /\ DOMAIN (a \o b) = 1 .. Len(a) + Len(b)
    BY <1>1
  <1>3. ASSUME NEW i \in 1 .. Len(a) PROVE a[i] \in ToSet(a \o b)
    <2>1. i \in 1 .. Len(a) + Len(b) /\ (a \o b)[i] = a[i]
      BY <1>1, <1>2
    <2> QED
      BY <1>2, <2>1 DEF ToSet
  <1>4. ASSUME NEW i \in 1 .. Len(b) PROVE b[i] \in ToSet(a \o b)
    <2>1. Len(a) + i \in 1 .. Len(a) + Len(b) /\ (a \o b)[Len(a) + i] = b[i]
      BY <1>1, <1>2
    <2> QED
      BY <1>2, <2>1 DEF ToSet
  <1>5. ASSUME NEW i \in 1 .. Len(a) + Len(b)
        PROVE  (a \o b)[i] \in ToSet(a) \/ (a \o b)[i] \in ToSet(b)
    <2>1. CASE i <= Len(a)
      BY <1>1, <1>2, <2>1 DEF ToSet
    <2>2. CASE i > Len(a)
      <3>1. i - Len(a) \in 1 .. Len(b) /\ (a \o b)[i] = b[i - Len(a)]
        BY <1>1, <1>2, <2>2
      <3> QED
        BY <1>2, <3>1 DEF ToSet
    <2> QED
      BY <1>2, <2>1, <2>2
  <1> QED
    BY <1>2, <1>3, <1>4, <1>5 DEF ToSet

\* The elements of sequences put together are those of each of them.
LEMMA FlattenedSeqs ==
  ASSUME NEW T, NEW n \in Nat, NEW s \in [1 .. n -> Seq(T)]
  PROVE  /\ FlattenSeq(s) \in Seq(T)
         /\ \A x : x \in ToSet(FlattenSeq(s)) <=> \E i \in 1 .. n : x \in ToSet(s[i])
  <1>1. Len(s) = n /\ DOMAIN s = 1 .. n
    OBVIOUS
  <1>2. CASE n = 0
    <2>1. FlattenSeq(s) = s /\ s = <<>>
      BY <1>1, <1>2 DEF FlattenSeq
    <2> QED
      BY <1>2, <2>1 DEF ToSet
  <1>3. CASE n # 0
    <2>1. PICK f : /\ FlattenSeq(s) = f[n]
                   /\ f[1] = s[1]
                   /\ \A i \in 2 .. n : f[i] = f[i - 1] \o s[i]
      <3>1. n \in Nat \ {0}
        BY <1>3
      <3> QED
        BY <1>1, <3>1, Flattened, Zenon
    <2> DEFINE Good(m) == /\ f[m] \in Seq(T)
                          /\ \A x : x \in ToSet(f[m]) <=> \E i \in 1 .. m : x \in ToSet(s[i])
               S == {k \in Nat : k + 1 \in 1 .. n => Good(k + 1)}
    <2>2. Good(1)
      <3>1. f[1] = s[1] /\ s[1] \in Seq(T)
        BY <1>3, <2>1
      <3>2. 1 \in 1 .. 1 /\ \A i \in 1 .. 1 : i = 1
        OBVIOUS
      <3> QED
        BY <3>1, <3>2, Zenon
    <2>3. ASSUME NEW m \in 1 .. n, m + 1 \in 1 .. n, Good(m)
          PROVE  Good(m + 1)
      <3>1. f[m + 1] = f[m] \o s[m + 1] /\ s[m + 1] \in Seq(T)
        <4>1. m + 1 \in 2 .. n /\ (m + 1) - 1 = m
          BY <2>3
        <4>2. f[m + 1] = f[m] \o s[m + 1]
          BY <2>1, <4>1, Zenon
        <4> QED
          BY <2>3, <4>2
      <3>2. f[m + 1] \in Seq(T)
        BY <2>3, <3>1
      <3>3. \A x : x \in ToSet(f[m + 1]) <=> x \in ToSet(f[m]) \/ x \in ToSet(s[m + 1])
        BY <2>3, <3>1, Together
      <3>4. 1 .. m + 1 = (1 .. m) \cup {m + 1}
        OBVIOUS
      <3> QED
        BY <2>3, <3>2, <3>3, <3>4
    <2> HIDE DEF Good
    <2>4. 0 \in S
      BY <2>2
    <2>5. ASSUME NEW k \in Nat \cap S PROVE k + 1 \in S
      <3>1. k + 1 + 1 \in 1 .. n => k + 1 \in 1 .. n /\ Good(k + 1)
        BY <2>5
      <3> QED
        BY <2>3, <3>1
    <2> HIDE DEF S
    <2>6. \A k \in Nat : k \in S
      BY <2>4, <2>5, Induction, Zenon
    <2>7. n - 1 \in Nat /\ n - 1 + 1 = n /\ n \in 1 .. n
      BY <1>3
    <2>8. Good(n)
      BY <2>6, <2>7 DEF S
    <2> QED
      BY <2>1, <2>8 DEF Good
  <1> QED
    BY <1>2, <1>3

\* The functions there are, and what the scan makes of them.
Present == {at \in Slots : config_space[at] # None}
Device(at) ==
  [at |-> at, class |-> config_space[at].class, multi |-> config_space[at].multi,
   header |-> config_space[at].header,
   bars |-> [i \in 0 .. 5 |->
     IF config_space[at].header = 0 \/ i < 2 THEN config_space[at].bars[i] ELSE 0]]
Found == {Device(at) : at \in Present}

\* The list of devices is complete and has nothing else.
Scanned == pci_devices \in Seq(Found) /\ ToSet(pci_devices) = Found

LEMMA ReadDevice ==
  ASSUME NEW b \in 0 .. BUSES - 1, NEW d \in 0 .. DEVICES - 1, NEW f \in 0 .. FUNCTIONS - 1
  PROVE  /\ read_device(b, d, f) \in Seq(Found)
         /\ read_device(b, d, f) =
              IF <<b, d, f>> \in Present THEN <<Device(<<b, d, f>>)>> ELSE <<>>
         /\ \A x : x \in ToSet(read_device(b, d, f)) <=>
              <<b, d, f>> \in Present /\ x = Device(<<b, d, f>>)
  <1>1. PICK at : at = <<b, d, f>>
    OBVIOUS
  <1>2. at \in Slots
    BY <1>1 DEF Slots
  <1>3. read_device(b, d, f) = IF at \in Present THEN <<Device(at)>> ELSE <<>>
    BY <1>1, <1>2, Zenon DEF read_device, Present, Device
  <1>4. at \in Present => Device(at) \in Found
    BY DEF Found
  <1> HIDE DEF Found, Device, Present
  <1>5. ToSet(<<Device(at)>>) = {Device(at)} /\ ToSet(<<>>) = {}
    BY DEF ToSet
  <1>6. CASE at \in Present
    <2>1. read_device(b, d, f) = <<Device(at)>>
      BY <1>3, <1>6, Zenon
    <2>2. <<Device(at)>> \in Seq(Found)
      BY <1>4, <1>6
    <2> QED
      BY <1>1, <1>5, <1>6, <2>1, <2>2, Zenon
  <1>7. CASE at \notin Present
    <2>1. read_device(b, d, f) = <<>>
      BY <1>3, <1>7, Zenon
    <2>2. <<>> \in Seq(Found)
      OBVIOUS
    <2> QED
      BY <1>1, <1>5, <1>7, <2>1, <2>2, Zenon
  <1> QED
    BY <1>6, <1>7, Zenon

LEMMA DeviceScanned ==
  ASSUME SoundSpace(config_space), NEW b \in 0 .. BUSES - 1, NEW d \in 0 .. DEVICES - 1
  PROVE  /\ ScanDevice(b, d) \in Seq(Found)
         /\ \A x : x \in ToSet(ScanDevice(b, d)) <=>
              \E f \in 0 .. FUNCTIONS - 1 : <<b, d, f>> \in Present /\ x = Device(<<b, d, f>>)
  <1> DEFINE fn0 == read_device(b, d, 0)
             others == [f \in 1 .. FUNCTIONS - 1 |-> read_device(b, d, f)]
  <1>1. FUNCTIONS \in Nat \ {0} /\ 0 \in 0 .. FUNCTIONS - 1
    BY PciAssumption
  <1>2. \A f \in 0 .. FUNCTIONS - 1 : f # 0 /\ <<b, d, f>> \in Present =>
          <<b, d, 0>> \in Present /\ config_space[<<b, d, 0>>].multi
    <2> TAKE f \in 0 .. FUNCTIONS - 1
    <2>1. <<b, d, f>> \in Slots /\ <<b, d, 0>> \in Slots
      BY <1>1 DEF Slots
    <2>2. <<b, d, f>>[1] = b /\ <<b, d, f>>[2] = d /\ <<b, d, f>>[3] = f
      OBVIOUS
    <2>3. \A o \in Slots : o[3] # 0 /\ config_space[o] # None =>
            config_space[<<o[1], o[2], 0>>] # None /\ config_space[<<o[1], o[2], 0>>].multi
      BY Zenon DEF SoundSpace
    <2> QED
      BY <2>1, <2>2, <2>3, Zenon DEF Present
  <1>3. /\ fn0 \in Seq(Found)
        /\ fn0 = IF <<b, d, 0>> \in Present THEN <<Device(<<b, d, 0>>)>> ELSE <<>>
        /\ \A x : x \in ToSet(fn0) <=>
             <<b, d, 0>> \in Present /\ x = Device(<<b, d, 0>>)
    BY <1>1, ReadDevice, Zenon
  <1>4. Device(<<b, d, 0>>).multi = config_space[<<b, d, 0>>].multi
    BY DEF Device
  <1>5. CASE fn0 = <<>> \/ ~fn0[1].multi
    <2>1. ScanDevice(b, d) = fn0
      BY <1>5 DEF ScanDevice
    <2>2. \A f \in 0 .. FUNCTIONS - 1 : <<b, d, f>> \in Present => f = 0
      <3>1. CASE <<b, d, 0>> \in Present
        <4>1. fn0 = <<Device(<<b, d, 0>>)>>
          BY <1>3, <3>1, Zenon
        <4> HIDE DEF fn0, Device
        <4>2. fn0 # <<>> /\ fn0[1] = Device(<<b, d, 0>>)
          BY <4>1
        <4> QED
          BY <1>2, <1>4, <1>5, <4>2, Zenon
      <3> QED
        BY <1>2, <3>1, Zenon
    <2> QED
      BY <1>1, <1>3, <2>1, <2>2, Zenon
  <1>6. CASE ~(fn0 = <<>> \/ ~fn0[1].multi)
    <2>1. ScanDevice(b, d) = fn0 \o FlattenSeq(others)
      BY <1>6, Zenon DEF ScanDevice
    <2>2. FUNCTIONS - 1 \in Nat
      BY <1>1
    <2>3. \A f \in 1 .. FUNCTIONS - 1 :
            /\ f \in 0 .. FUNCTIONS - 1 /\ others[f] = read_device(b, d, f)
            /\ read_device(b, d, f) \in Seq(Found)
            /\ \A x : x \in ToSet(others[f]) <=>
                 <<b, d, f>> \in Present /\ x = Device(<<b, d, f>>)
      <3> TAKE f \in 1 .. FUNCTIONS - 1
      <3>1. f \in 0 .. FUNCTIONS - 1 /\ others[f] = read_device(b, d, f)
        BY <1>1
      <3> HIDE DEF others
      <3> QED
        BY <3>1, ReadDevice, Zenon
    <2>4. others \in [1 .. FUNCTIONS - 1 -> Seq(Found)]
      BY <2>3, Zenon
    <2> HIDE DEF others, fn0
    <2>5. /\ FlattenSeq(others) \in Seq(Found)
          /\ \A x : x \in ToSet(FlattenSeq(others)) <=>
               \E f \in 1 .. FUNCTIONS - 1 : x \in ToSet(others[f])
      BY <2>2, <2>4, FlattenedSeqs, Zenon
    <2>6. /\ fn0 \o FlattenSeq(others) \in Seq(Found)
          /\ \A x : x \in ToSet(fn0 \o FlattenSeq(others)) <=>
               x \in ToSet(fn0) \/ x \in ToSet(FlattenSeq(others))
      <3>1. fn0 \o FlattenSeq(others) \in Seq(Found)
        BY <1>3, <2>5
      <3> QED
        BY <1>3, <2>5, <3>1, Together, Zenon
    <2>7. \A f \in 0 .. FUNCTIONS - 1 : f = 0 \/ f \in 1 .. FUNCTIONS - 1
      OBVIOUS
    <2> QED
      BY <1>1, <1>3, <2>1, <2>3, <2>5, <2>6, <2>7, Zenon
  <1> QED
    BY <1>5, <1>6, Zenon

LEMMA AllScanned ==
  ASSUME SoundSpace(config_space)
  PROVE  scan_all \in Seq(Found) /\ ToSet(scan_all) = Found
  <1> DEFINE bus(b) == [d \in 1 .. DEVICES |-> ScanDevice(b - 1, d - 1)]
             buses == [b \in 1 .. BUSES |-> FlattenSeq(bus(b))]
             Here(b, x) ==
               \E d \in 0 .. DEVICES - 1 : \E f \in 0 .. FUNCTIONS - 1 :
                 <<b, d, f>> \in Present /\ x = Device(<<b, d, f>>)
  <1>1. BUSES \in Nat /\ DEVICES \in Nat
    BY PciAssumption
  <1>2. ASSUME NEW b \in 1 .. BUSES
        PROVE  /\ FlattenSeq(bus(b)) \in Seq(Found)
               /\ \A x : x \in ToSet(FlattenSeq(bus(b))) <=> Here(b - 1, x)
    <2>1. b - 1 \in 0 .. BUSES - 1
      BY <1>1
    <2>2. \A d \in 1 .. DEVICES :
            /\ d - 1 \in 0 .. DEVICES - 1 /\ bus(b)[d] = ScanDevice(b - 1, d - 1)
            /\ ScanDevice(b - 1, d - 1) \in Seq(Found)
            /\ \A x : x \in ToSet(bus(b)[d]) <=>
                 \E f \in 0 .. FUNCTIONS - 1 :
                   <<b - 1, d - 1, f>> \in Present /\ x = Device(<<b - 1, d - 1, f>>)
      <3> TAKE d \in 1 .. DEVICES
      <3>1. d - 1 \in 0 .. DEVICES - 1
        BY <1>1
      <3>2. bus(b)[d] = ScanDevice(b - 1, d - 1)
        BY Zenon
      <3> HIDE DEF bus
      <3> QED
        BY <2>1, <3>1, <3>2, DeviceScanned, Zenon
    <2>3. bus(b) \in [1 .. DEVICES -> Seq(Found)]
      BY <2>2, Zenon
    <2> HIDE DEF bus
    <2>4. /\ FlattenSeq(bus(b)) \in Seq(Found)
          /\ \A x : x \in ToSet(FlattenSeq(bus(b))) <=>
               \E d \in 1 .. DEVICES : x \in ToSet(bus(b)[d])
      BY <1>1, <2>3, FlattenedSeqs, Zenon
    <2>5. \A d \in 0 .. DEVICES - 1 : d + 1 \in 1 .. DEVICES /\ (d + 1) - 1 = d
      BY <1>1
    <2>6. \A x : (\E d \in 1 .. DEVICES : x \in ToSet(bus(b)[d])) <=> Here(b - 1, x)
      <3> TAKE x
      <3>1. ASSUME NEW d \in 1 .. DEVICES, x \in ToSet(bus(b)[d]) PROVE Here(b - 1, x)
        BY <2>2, <3>1, Zenon
      <3>2. ASSUME NEW d \in 0 .. DEVICES - 1, NEW f \in 0 .. FUNCTIONS - 1,
                   <<b - 1, d, f>> \in Present, x = Device(<<b - 1, d, f>>)
            PROVE  x \in ToSet(bus(b)[d + 1])
        <4>1. PICK e \in 1 .. DEVICES : e = d + 1 /\ e - 1 = d
          BY <2>5
        <4> QED
          BY <2>2, <3>2, <4>1, Zenon
      <3> QED
        BY <2>5, <3>1, <3>2, Zenon
    <2> QED
      BY <2>4, <2>6, Zenon
  <1> HIDE DEF bus, Here
  <1>3. buses \in [1 .. BUSES -> Seq(Found)]
    BY <1>2, Zenon
  <1>4. \A b \in 1 .. BUSES : buses[b] = FlattenSeq(bus(b))
    BY Zenon
  <1>5. scan_all = FlattenSeq(buses)
    BY DEF scan_all, bus
  <1> HIDE DEF buses
  <1>6. /\ FlattenSeq(buses) \in Seq(Found)
        /\ \A x : x \in ToSet(FlattenSeq(buses)) <=> \E b \in 1 .. BUSES : x \in ToSet(buses[b])
    BY <1>1, <1>3, FlattenedSeqs, Zenon
  <1>7. \A x : x \in ToSet(FlattenSeq(buses)) <=> \E b \in 1 .. BUSES : Here(b - 1, x)
    BY <1>2, <1>4, <1>6, Zenon
  <1>8. \A x : x \in Found => \E b \in 1 .. BUSES : Here(b - 1, x)
    <2> TAKE x
    <2> HAVE x \in Found
    <2>1. PICK at \in Present : x = Device(at)
      BY DEF Found
    <2>2. at \in Slots
      BY <2>1 DEF Present
    <2>3. PICK b \in 0 .. BUSES - 1, d \in 0 .. DEVICES - 1, f \in 0 .. FUNCTIONS - 1 :
            at = <<b, d, f>>
      BY <2>2 DEF Slots
    <2>4. PICK c \in 1 .. BUSES : c - 1 = b
      <3>1. b + 1 \in 1 .. BUSES /\ (b + 1) - 1 = b
        BY <1>1
      <3> QED
        BY <3>1, Zenon
    <2> QED
      BY <2>1, <2>3, <2>4, Zenon DEF Here
  <1>9. \A x, b : Here(b, x) => x \in Found
    BY Zenon DEF Here, Found
  <1>10. \A x : x \in ToSet(FlattenSeq(buses)) <=> x \in Found
    BY <1>7, <1>8, <1>9, Zenon
  <1>11. ToSet(FlattenSeq(buses)) = Found
    BY <1>10, Zenon
  <1> QED
    BY <1>5, <1>6, <1>11, Zenon

-----------------------------------------------------------------------------
(* What drivers make of it.                                                *)

SpaceInv ==
  /\ SoundSpace(config_space) /\ SoundStorage(config_space)
  /\ stage \notin {"heap", "pci", "panic"} => Scanned

LEMMA SamePci ==
  ASSUME NEW class
  PROVE  /\ Nv!find_by_class(class) = find_by_class(class)
         /\ Ah!find_by_class(class) = find_by_class(class)
         /\ Nv!Masters(class) <=> Masters(class)
         /\ Ah!Masters(class) <=> Masters(class)
         /\ \A pci : /\ Nv!enable_bus_mastering(pci) <=> enable_bus_mastering(pci)
                     /\ Ah!enable_bus_mastering(pci) <=> enable_bus_mastering(pci)
         /\ \A pci, i : /\ Nv!read_bar_address(pci, i) = read_bar_address(pci, i)
                        /\ Ah!read_bar_address(pci, i) = read_bar_address(pci, i)
  <1>1. Nv!find_by_class(class) = find_by_class(class) /\ Ah!find_by_class(class) = find_by_class(class)
    BY Zenon DEF Nv!find_by_class, Ah!find_by_class, find_by_class
  <1>2. (Nv!Masters(class) <=> Masters(class)) /\ (Ah!Masters(class) <=> Masters(class))
    BY DEF Nv!Masters, Ah!Masters, Masters, Nv!OfClass, Ah!OfClass, OfClass, Nv!Slots, Ah!Slots, Slots
  <1>3. \A pci : /\ Nv!enable_bus_mastering(pci) <=> enable_bus_mastering(pci)
                 /\ Ah!enable_bus_mastering(pci) <=> enable_bus_mastering(pci)
    BY DEF Nv!enable_bus_mastering, Ah!enable_bus_mastering, enable_bus_mastering
  <1>4. \A pci, i : /\ Nv!read_bar_address(pci, i) = read_bar_address(pci, i)
                    /\ Ah!read_bar_address(pci, i) = read_bar_address(pci, i)
    BY DEF Nv!read_bar_address, Ah!read_bar_address, read_bar_address
  <1> QED
    BY <1>1, <1>2, <1>3, <1>4, Zenon

LEMMA DeviceIsOne ==
  ASSUME SoundSpace(config_space), NEW at \in Present
  PROVE  /\ config_space[at] \in Registers
         /\ Device(at) # None /\ Device(at).at = at
         /\ Device(at).class = config_space[at].class
  <1>1. at \in Slots /\ config_space[at] \in Registers
    BY DEF SoundSpace, Present
  <1>2. Device(at) \in PciDevice
    <2>1. /\ config_space[at].class \in STRING /\ config_space[at].multi \in BOOLEAN
          /\ config_space[at].header \in Nat
          /\ config_space[at].bars \in [0 .. 5 -> 0 .. WORD - 1]
      BY <1>1 DEF Registers
    <2>2. 0 \in 0 .. WORD - 1
      BY PciAssumption
    <2>3. [i \in 0 .. 5 |-> IF config_space[at].header = 0 \/ i < 2
                             THEN config_space[at].bars[i] ELSE 0] \in [0 .. 5 -> 0 .. WORD - 1]
      BY <2>1, <2>2
    <2> QED
      BY <1>1, <2>1, <2>3 DEF Device, PciDevice
  <1>3. Device(at).at = at /\ Device(at).class = config_space[at].class
    BY DEF Device
  <1> QED
    BY <1>1, <1>2, <1>3, NoDeviceAssumption

LEMMA FindsIt ==
  ASSUME SoundSpace(config_space), Scanned, NEW class
  PROVE  \/ find_by_class(class) = None /\ OfClass(config_space, class) = {}
         \/ \E at \in OfClass(config_space, class) :
              find_by_class(class) = Device(at) /\ Device(at) # None
  <1> DEFINE found == {i \in DOMAIN pci_devices : pci_devices[i].class = class}
  <1>1. \A at \in Present : Device(at) # None /\ Device(at).class = config_space[at].class
    BY DeviceIsOne, Zenon
  <1>2. OfClass(config_space, class) = {at \in Present : config_space[at].class = class}
    BY Zenon DEF OfClass, Present
  <1>3. DOMAIN pci_devices \subseteq Nat
    BY DEF Scanned
  <1>4. ToSet(pci_devices) = {pci_devices[i] : i \in DOMAIN pci_devices}
    BY Zenon DEF ToSet
  <1>5. CASE found = {}
    <2>1. find_by_class(class) = None
      BY <1>5, Zenon DEF find_by_class
    <2>2. ASSUME NEW at \in Present, config_space[at].class = class PROVE FALSE
      <3>1. Device(at) \in Found
        BY DEF Found
      <3>2. PICK i \in DOMAIN pci_devices : pci_devices[i] = Device(at)
        BY <1>4, <3>1, Zenon DEF Scanned
      <3> QED
        BY <1>1, <1>5, <2>2, <3>2, Zenon
    <2> QED
      BY <1>2, <2>1, <2>2, Zenon
  <1>6. CASE found # {}
    <2> DEFINE least == CHOOSE i \in found : \A j \in found : i <= j
    <2>1. find_by_class(class) = pci_devices[least]
      BY <1>6, Zenon DEF find_by_class
    <2>2. \E i \in found : \A j \in found : i <= j
      <3>1. found \subseteq Nat
        BY <1>3, Zenon
      <3> HIDE DEF found
      <3>2. PICK i \in found : \A j \in found : ~(j < i)
        BY <1>6, <3>1, LeastNumber, Zenon
      <3>3. \A j \in found : i <= j
        BY <3>1, <3>2
      <3> QED
        BY <3>3, Zenon
    <2>3. least \in found
      BY <2>2, Zenon
    <2> HIDE DEF least
    <2>4. least \in DOMAIN pci_devices /\ pci_devices[least].class = class
      BY <2>3, Zenon
    <2>5. pci_devices[least] \in Found
      BY <1>4, <2>4, Zenon DEF Scanned
    <2>6. PICK at \in Present : pci_devices[least] = Device(at)
      BY <2>5, Zenon DEF Found
    <2> QED
      BY <1>1, <1>2, <2>1, <2>4, <2>6, Zenon
  <1> QED
    BY <1>5, <1>6, Zenon

\* The driver decodes the address as the function does.
LEMMA ReadsAddress ==
  ASSUME SpaceInv, NEW class \in StorageClasses, NEW at \in OfClass(config_space, class)
  PROVE  read_bar_address(Device(at), Bar(class)) = Decodes(config_space[at], Bar(class))
  <1>1. at \in Present /\ at \in Slots
    BY DEF OfClass, Present
  <1>2. config_space[at] \in Registers
    BY <1>1, DeviceIsOne DEF SpaceInv
  <1>3. config_space[at].header = 0 /\ config_space[at].bars[Bar(class)] % 2 = 0
    BY DEF SpaceInv, SoundStorage
  <1>4. PICK bars : bars = config_space[at].bars
    OBVIOUS
  <1>5. bars \in [0 .. 5 -> 0 .. WORD - 1]
    BY <1>2, <1>4 DEF Registers
  <1>6. \A i \in 0 .. 5 : Device(at).bars[i] = bars[i]
    BY <1>3, <1>4 DEF Device
  <1>7. Bar(class) \in {0, 5}
    BY DEF Bar
  <1>8. PICK i : i = Bar(class)
    OBVIOUS
  <1>9. i \in 0 .. 5 /\ (i < 5 => i + 1 \in 0 .. 5)
    BY <1>7, <1>8
  <1>10. /\ Device(at).bars[i] = bars[i] /\ bars[i] \in Nat
         /\ i < 5 => Device(at).bars[i + 1] = bars[i + 1] /\ bars[i + 1] \in Nat
    BY <1>5, <1>6, <1>9, PciAssumption
  <1>11. bars[i] % 2 # 1 /\ ~(i >= 6)
    BY <1>3, <1>4, <1>8, <1>9
  <1>12. \A w \in Nat : WORD * w = w * WORD /\ WORD * w \in Nat
    BY PciAssumption
  <1>13. (bars[i] \div 16) * 16 \in Nat
    BY <1>10
  <1> DEFINE base == (bars[i] \div 16) * 16
             wide == (bars[i] \div 2) % 4 = 2
  <1>14. read_bar_address(Device(at), i) =
           IF wide /\ i < 5 THEN base + WORD * bars[i + 1] ELSE base
    BY <1>10, <1>11, Zenon DEF read_bar_address
  <1>15. Decodes(config_space[at], i) =
           IF i < 5 /\ wide THEN bars[i + 1] * WORD + base ELSE base
    BY <1>4, Zenon DEF Decodes
  <1> HIDE DEF base, wide
  <1>16. i < 5 => base + WORD * bars[i + 1] = bars[i + 1] * WORD + base
    <2> SUFFICES ASSUME i < 5 PROVE base + WORD * bars[i + 1] = bars[i + 1] * WORD + base
      OBVIOUS
    <2>1. WORD * bars[i + 1] = bars[i + 1] * WORD /\ WORD * bars[i + 1] \in Nat
      BY <1>10, <1>12, Zenon
    <2>2. \A a, c \in Nat : a + c = c + a
      OBVIOUS
    <2> QED
      BY <1>13, <2>1, <2>2, Zenon DEF base
  <1> QED
    BY <1>8, <1>14, <1>15, <1>16, Zenon

\* Mastering changes nothing else.
LEMMA Enabled ==
  ASSUME SpaceInv, Scanned, NEW class \in StorageClasses,
         NEW at \in OfClass(config_space, class), enable_bus_mastering(Device(at))
  PROVE  /\ SoundSpace(config_space)' /\ SoundStorage(config_space)' /\ Scanned'
         /\ \A c \in StorageClasses : (Offers(c)' <=> Offers(c)) /\ (Masters(c) => Masters(c)')
         /\ Offers(class) => Masters(class)'
  <1>1. at \in Present /\ at \in Slots /\ config_space[at].class = class
    BY DEF OfClass, Present
  <1>2. /\ config_space \in [Slots -> Registers \cup {None}]
        /\ config_space[at] \in Registers /\ Device(at).at = at
    BY <1>1, DeviceIsOne DEF SpaceInv, SoundSpace
  <1>3. /\ config_space' = [config_space EXCEPT ![at].command = @ \cup {"bus_master"}]
        /\ pci_devices' = pci_devices
    BY <1>2 DEF enable_bus_mastering
  <1>4. /\ DOMAIN config_space' = Slots
        /\ \A o \in Slots \ {at} : config_space'[o] = config_space[o]
        /\ config_space'[at] =
             [config_space[at] EXCEPT !.command = config_space[at].command \cup {"bus_master"}]
    BY <1>1, <1>2, <1>3
  <1>5. /\ config_space'[at] \in Registers
        /\ config_space'[at].class = config_space[at].class
        /\ config_space'[at].multi = config_space[at].multi
        /\ config_space'[at].header = config_space[at].header
        /\ config_space'[at].bars = config_space[at].bars
        /\ config_space'[at].command = config_space[at].command \cup {"bus_master"}
    BY <1>2, <1>4 DEF Registers
  <1>6. config_space[at] # None /\ config_space'[at] # None
    BY <1>2, <1>5, NoDeviceAssumption
  <1>7. \A o \in Slots :
          /\ config_space'[o] # None <=> config_space[o] # None
          /\ config_space'[o].class = config_space[o].class
          /\ config_space'[o].multi = config_space[o].multi
          /\ config_space'[o].header = config_space[o].header
          /\ config_space'[o].bars = config_space[o].bars
          /\ config_space[o].command \subseteq config_space'[o].command
    <2> TAKE o \in Slots
    <2>1. CASE o = at
      BY <1>5, <1>6, <2>1
    <2>2. CASE o # at
      BY <1>4, <2>2
    <2> QED
      BY <2>1, <2>2
  <1>8. \A c : OfClass(config_space', c) = OfClass(config_space, c)
    BY <1>7, Zenon DEF OfClass
  <1>9. \A i : \A o \in Slots : Decodes(config_space'[o], i) = Decodes(config_space[o], i)
    BY <1>7, Zenon DEF Decodes
  <1>10. config_space' \in [Slots -> Registers \cup {None}]
    <2>1. \A o \in Slots : config_space'[o] \in Registers \cup {None}
      BY <1>2, <1>4, <1>5
    <2>2. config_space' = [o \in Slots |-> config_space'[o]]
      BY <1>3, <1>4
    <2> QED
      BY <2>1, <2>2, Zenon
  <1>11. \A o \in Slots : <<o[1], o[2], 0>> \in Slots
    BY PciAssumption DEF Slots
  <1>12. SoundSpace(config_space)'
    <2>1. ASSUME NEW o \in Slots, o[3] # 0, config_space'[o] # None
          PROVE  config_space'[<<o[1], o[2], 0>>] # None /\ config_space'[<<o[1], o[2], 0>>].multi
      <3>1. config_space[o] # None
        BY <1>7, <2>1
      <3>2. config_space[<<o[1], o[2], 0>>] # None /\ config_space[<<o[1], o[2], 0>>].multi
        BY <2>1, <3>1, Zenon DEF SpaceInv, SoundSpace
      <3> QED
        BY <1>7, <1>11, <3>2, Zenon
    <2>2. SoundSpace(config_space')
      BY <1>10, <2>1, Zenon DEF SoundSpace
    <2> QED
      BY <2>2 DEF SoundSpace
  <1>13. \A c : OfClass(config_space, c) \subseteq Slots
    BY DEF OfClass
  <1>14. SoundStorage(config_space')
    <2>1. ASSUME NEW c \in StorageClasses
          PROVE  /\ \A o, other \in OfClass(config_space', c) : o = other
                 /\ \A o \in OfClass(config_space', c) :
                      /\ config_space'[o].header = 0 /\ config_space'[o].bars[Bar(c)] % 2 = 0
                      /\ Decodes(config_space'[o], Bar(c)) \in {0, Regs(c)}
                      /\ Decodes(config_space'[o], Bar(c)) # 0 =>
                           "memory" \in config_space'[o].command
      <3>1. /\ \A o, other \in OfClass(config_space, c) : o = other
            /\ \A o \in OfClass(config_space, c) :
                 /\ config_space[o].header = 0 /\ config_space[o].bars[Bar(c)] % 2 = 0
                 /\ Decodes(config_space[o], Bar(c)) \in {0, Regs(c)}
                 /\ Decodes(config_space[o], Bar(c)) # 0 => "memory" \in config_space[o].command
        BY DEF SpaceInv, SoundStorage
      <3>2. \A o, other \in OfClass(config_space', c) : o = other
        BY <1>8, <3>1, Zenon
      <3>3. ASSUME NEW o \in OfClass(config_space', c)
            PROVE  /\ config_space'[o].header = 0 /\ config_space'[o].bars[Bar(c)] % 2 = 0
                   /\ Decodes(config_space'[o], Bar(c)) \in {0, Regs(c)}
                   /\ Decodes(config_space'[o], Bar(c)) # 0 =>
                        "memory" \in config_space'[o].command
        <4>1. o \in OfClass(config_space, c) /\ o \in Slots
          BY <1>8, <1>13, <3>3, Zenon
        <4>2. /\ Decodes(config_space'[o], Bar(c)) = Decodes(config_space[o], Bar(c))
              /\ config_space'[o].header = config_space[o].header
              /\ config_space'[o].bars = config_space[o].bars
              /\ config_space[o].command \subseteq config_space'[o].command
          BY <1>7, <1>9, <4>1, Zenon
        <4> QED
          BY <3>1, <4>1, <4>2
      <3> QED
        BY <3>2, <3>3, Zenon
    <2> QED
      BY <2>1, Zenon DEF SoundStorage
  <1>15. SoundStorage(config_space)'
    BY <1>14 DEF SoundStorage, OfClass, Decodes
  <1>16. Scanned'
    <2>1. Present' = Present
      BY <1>7 DEF Present
    <2>2. \A o \in Slots : Device(o)' = Device(o)
      BY <1>7, Zenon DEF Device
    <2>3. Present \subseteq Slots
      BY DEF Present
    <2>4. Found' = Found
      BY <2>1, <2>2, <2>3, Zenon DEF Found
    <2> QED
      BY <1>3, <2>4, Zenon DEF Scanned
  <1>17. ASSUME NEW c \in StorageClasses
         PROVE  (Offers(c)' <=> Offers(c)) /\ (Masters(c) => Masters(c)')
    <2>1. Offers(c)' <=> \E o \in OfClass(config_space', c) : Decodes(config_space'[o], Bar(c)) # 0
      BY DEF Offers, OfClass, Decodes
    <2>2. Masters(c)' <=> \E o \in OfClass(config_space', c) :
                            {"memory", "bus_master"} \subseteq config_space'[o].command
      BY DEF Masters, OfClass
    <2>3. Offers(c)' <=> Offers(c)
      BY <1>8, <1>9, <1>13, <2>1, Zenon DEF Offers
    <2>4. Masters(c) => Masters(c)'
      BY <1>7, <1>8, <1>13, <2>2 DEF Masters
    <2> QED
      BY <2>3, <2>4
  <1>18. Offers(class) => Masters(class)'
    <2> SUFFICES ASSUME Offers(class) PROVE Masters(class)'
      OBVIOUS
    <2>1. PICK o \in OfClass(config_space, class) : Decodes(config_space[o], Bar(class)) # 0
      BY DEF Offers
    <2>2. o = at /\ "memory" \in config_space[at].command
      BY <2>1, Zenon DEF SpaceInv, SoundStorage
    <2>3. {"memory", "bus_master"} \subseteq config_space'[at].command
      BY <1>5, <2>2
    <2>4. at \in OfClass(config_space', class)
      BY <1>8, Zenon
    <2>5. Masters(class)' <=> \E q \in OfClass(config_space', class) :
                                {"memory", "bus_master"} \subseteq config_space'[q].command
      BY DEF Masters, OfClass
    <2> QED
      BY <2>3, <2>4, <2>5, Zenon
  <1> QED
    BY <1>12, <1>15, <1>16, <1>17, <1>18, Zenon

\* A driver finds the function of its class, if that has an address, and is told so.
LEMMA Finding ==
  ASSUME SpaceInv, Scanned, NEW class \in StorageClasses
  PROVE  /\ find_by_class(class) = None => ~Offers(class)
         /\ find_by_class(class) # None =>
              \E at \in OfClass(config_space, class) :
                /\ find_by_class(class) = Device(at)
                /\ read_bar_address(Device(at), Bar(class)) = 0 <=> ~Offers(class)
                /\ read_bar_address(Device(at), Bar(class)) \in {0, Regs(class)}
  <1>1. \/ find_by_class(class) = None /\ OfClass(config_space, class) = {}
        \/ \E at \in OfClass(config_space, class) :
             find_by_class(class) = Device(at) /\ Device(at) # None
    BY FindsIt DEF SpaceInv
  <1>2. ASSUME NEW at \in OfClass(config_space, class)
        PROVE  /\ read_bar_address(Device(at), Bar(class)) = 0 <=> ~Offers(class)
               /\ read_bar_address(Device(at), Bar(class)) \in {0, Regs(class)}
    <2>1. read_bar_address(Device(at), Bar(class)) = Decodes(config_space[at], Bar(class))
      BY ReadsAddress
    <2>2. /\ \A o \in OfClass(config_space, class) : o = at
          /\ Decodes(config_space[at], Bar(class)) \in {0, Regs(class)}
      BY Zenon DEF SpaceInv, SoundStorage
    <2> QED
      BY <2>1, <2>2, Zenon DEF Offers
  <1> QED
    BY <1>1, <1>2, Zenon DEF Offers

LEMMA NvmeClass == Nv!Class = "nvme" /\ "nvme" \in StorageClasses /\ Bar("nvme") = 0 /\ Regs("nvme") = NVME_REGS
  BY DEF Nv!Class, StorageClasses, Bar, Regs

LEMMA AhciClass == Ah!Class = "sata" /\ "sata" \in StorageClasses /\ Bar("sata") = 5 /\ Regs("sata") = AHCI_REGS
  BY DEF Ah!Class, StorageClasses, Bar, Regs

LEMMA NvmeFinding ==
  ASSUME SpaceInv, Scanned, Nv!NotFound \/ Nv!Find
  PROVE  /\ npc' \in {"done", "disable"} /\ (npc' = "disable" <=> Offers("nvme"))
         /\ UNCHANGED <<nvme, frames>> /\ UNCHANGED <<cc_en, csts_rdy, queues, pending, answer, nvmeKind>>
         /\ UNCHANGED pciVars \/ \E at \in OfClass(config_space, "nvme") : enable_bus_mastering(Device(at))
         /\ npc' = "disable" => \E at \in OfClass(config_space, "nvme") : enable_bus_mastering(Device(at))
  <1>1. CASE Nv!NotFound
    BY <1>1, NvmeClass, Finding, SamePci DEF Nv!NotFound, Nv!GiveUp, Nv!ctlVars, Nv!pciVars, pciVars
  <1>2. CASE Nv!Find
    <2>1. /\ find_by_class("nvme") # None
          /\ enable_bus_mastering(find_by_class("nvme"))
          /\ npc' = LET bar == read_bar_address(find_by_class("nvme"), 0) IN
                    IF bar = 0 THEN "done" ELSE IF bar = NVME_REGS THEN "disable" ELSE "panic"
          /\ UNCHANGED <<nvme, frames>>
          /\ UNCHANGED <<cc_en, csts_rdy, queues, pending, answer, nvmeKind>>
      BY <1>2, NvmeClass, SamePci, Zenon DEF Nv!Find, Nv!ctlVars
    <2>2. PICK at \in OfClass(config_space, "nvme") :
            /\ find_by_class("nvme") = Device(at)
            /\ read_bar_address(Device(at), 0) = 0 <=> ~Offers("nvme")
            /\ read_bar_address(Device(at), 0) \in {0, NVME_REGS}
      BY <2>1, NvmeClass, Finding
    <2> QED
      BY <2>1, <2>2
  <1> QED
    BY <1>1, <1>2

LEMMA AhciFinding ==
  ASSUME SpaceInv, Scanned, Ah!NotFound \/ Ah!Find
  PROVE  /\ apc' \in {"done", "scan"} /\ (apc' = "scan" <=> Offers("sata"))
         /\ UNCHANGED <<port, ctrl, ahci, hba>>
         /\ UNCHANGED pciVars \/ \E at \in OfClass(config_space, "sata") : enable_bus_mastering(Device(at))
         /\ apc' = "scan" => \E at \in OfClass(config_space, "sata") : enable_bus_mastering(Device(at))
  <1>1. CASE Ah!NotFound
    BY <1>1, AhciClass, Finding, SamePci DEF Ah!NotFound, Ah!GiveUp, Ah!pciVars, pciVars
  <1>2. CASE Ah!Find
    <2>1. /\ find_by_class("sata") # None
          /\ enable_bus_mastering(find_by_class("sata"))
          /\ apc' = LET bar == read_bar_address(find_by_class("sata"), 5) IN
                    IF bar = 0 THEN "done" ELSE IF bar = AHCI_REGS THEN "scan" ELSE "panic"
          /\ UNCHANGED <<port, ctrl, ahci, hba>>
      BY <1>2, AhciClass, SamePci, Zenon DEF Ah!Find
    <2>2. PICK at \in OfClass(config_space, "sata") :
            /\ find_by_class("sata") = Device(at)
            /\ read_bar_address(Device(at), 5) = 0 <=> ~Offers("sata")
            /\ read_bar_address(Device(at), 5) \in {0, AHCI_REGS}
      BY <2>1, AhciClass, Finding
    <2> QED
      BY <2>1, <2>2
  <1> QED
    BY <1>1, <1>2

LEMMA SpaceInit == Init => SpaceInv
  BY MachinesAssumption DEF Init, BootOn, SpaceInv

\* Whatever the step, the disk controllers there are stay where they are.
LEMMA SpaceStep ==
  ASSUME SpaceInv, [Next]_vars
  PROVE  /\ SpaceInv'
         /\ \A c \in StorageClasses : (Offers(c)' <=> Offers(c)) /\ (Masters(c) => Masters(c)')
  <1>1. ASSUME UNCHANGED config_space
        PROVE  /\ \A c \in StorageClasses : (Offers(c)' <=> Offers(c)) /\ (Masters(c) => Masters(c)')
               /\ SoundSpace(config_space)' /\ SoundStorage(config_space)'
               /\ Found' = Found
    BY <1>1 DEF Offers, Masters, SpaceInv, SoundSpace, SoundStorage, OfClass, Decodes, Found, Present, Device
  <1>2. ASSUME UNCHANGED pciVars, stage' \notin {"heap", "pci", "panic"} => stage \notin {"heap", "pci", "panic"}
        PROVE  /\ SpaceInv'
               /\ \A c \in StorageClasses : (Offers(c)' <=> Offers(c)) /\ (Masters(c) => Masters(c)')
    BY <1>1, <1>2, Zenon DEF SpaceInv, Scanned, pciVars
  <1>3. ASSUME NEW class \in StorageClasses, Scanned, NEW at \in OfClass(config_space, class),
               enable_bus_mastering(Device(at))
        PROVE  /\ SpaceInv'
               /\ \A c \in StorageClasses : (Offers(c)' <=> Offers(c)) /\ (Masters(c) => Masters(c)')
    BY <1>3, Enabled, Zenon DEF SpaceInv
  <1>4. CASE InitPci
    <2>1. UNCHANGED config_space /\ pci_devices' = scan_all
      BY <1>4 DEF InitPci, Scan
    <2>2. scan_all \in Seq(Found) /\ ToSet(scan_all) = Found
      BY AllScanned DEF SpaceInv
    <2>3. Scanned'
      BY <1>1, <2>1, <2>2, Zenon DEF Scanned
    <2> QED
      BY <1>1, <2>1, <2>3, Zenon DEF SpaceInv
  <1>5. CASE InitAhci
    <2>1. Ah!Driver /\ stage = "ahci" /\ Scanned
      BY <1>5 DEF InitAhci, SpaceInv
    <2>2. CASE Ah!NotFound \/ Ah!Find
      BY <1>2, <1>3, <2>1, <2>2, AhciFinding, AhciClass
    <2>3. CASE ~(Ah!NotFound \/ Ah!Find)
      BY <1>2, <2>1, <2>3 DEF Ah!Driver, Ah!pciVars, pciVars
    <2> QED
      BY <2>2, <2>3
  <1>6. CASE InitNvme
    <2>1. Nv!Driver /\ stage = "nvme" /\ Scanned
      BY <1>6 DEF InitNvme, SpaceInv
    <2>2. CASE Nv!NotFound \/ Nv!Find
      BY <1>2, <1>3, <2>1, <2>2, NvmeFinding, NvmeClass
    <2>3. CASE ~(Nv!NotFound \/ Nv!Find)
      BY <1>2, <2>1, <2>3 DEF Nv!Driver, Nv!pciVars, pciVars
    <2> QED
      BY <2>2, <2>3
  <1>7. CASE InitHeap \/ InitStorage \/ InitPs2 \/ Ahci \/ Nvme
    BY <1>2, <1>7 DEF InitHeap, InitStorage, InitPs2, Ahci, Nvme, Ah!Controller, Nv!Controller,
       Ah!pciVars, Nv!pciVars, pciVars
  <1>8. CASE (\E d \in Ps2!Devs : Byte(d) \/ Stray(d)) \/ UNCHANGED vars
    BY <1>2, <1>8 DEF Byte, Stray, vars
  <1> QED
    BY <1>4, <1>5, <1>6, <1>7, <1>8 DEF Next, Kernel

-----------------------------------------------------------------------------
(* A good NVMe controller comes up.                                        *)

Sent == {"identify", "iocq", "iosq"}

NvmeFound ==
  /\ nvmeKind \in Nv!Kinds
  /\ npc \in Sent \cup {"find", "disable", "disabling", "queues", "enabling", "done", "panic"}
  /\ npc \notin {"find", "done", "panic"} => Offers("nvme") /\ Masters("nvme")
  /\ nvmeKind = "mute" => npc \notin Sent /\ nvme = None /\ (npc = "enabling" => ~csts_rdy)
  /\ nvmeKind = "small" => npc # "iosq" /\ nvme = None /\ (npc = "iocq" => answer # "ok")
  /\ nvmeKind = "good" => answer # "error" /\ (npc \in {"done", "panic"} => pending = None)
  /\ nvme # None => Offers("nvme")
  /\ npc = "done" /\ Offers("nvme") /\ nvmeKind = "good" => nvme # None

LEMMA FrameIsNumber ==
  ASSUME MemInv
  PROVE  /\ \A frame, user : Given(frame, user) => frame \in Nat
         /\ Enough(1) => Frame(1) \in Nat
  <1>1. ASSUME NEW frame, NEW user, Given(frame, user) PROVE frame \in Nat
    <2>1. PICK i \in DOMAIN granted : granted[i] = [frame |-> frame, user |-> user]
      BY <1>1 DEF Given, ToSet
    <2>2. granted[i] \in Grant
      BY DEF MemInv
    <2> QED
      BY <2>1, <2>2 DEF Grant
  <1>2. usable_frames \in Seq(Nat)
    BY Usable DEF MemInv, UsableUpto
  <1>3. Enough(1) => Frame(1) \in Nat
    BY <1>2 DEF MemInv, Enough, Frame
  <1> QED
    BY <1>1, <1>3

\* In each of the commands, what has been exchanged so far.
LEMMA NvmeExchange ==
  ASSUME NvmeInv, npc \in Sent
  PROVE  /\ nvme = None
         /\ pending = None \/ pending = [op |-> npc, frame |-> frames[npc]]
         /\ answer = None \/ pending = None
         /\ queues.asq = frames.asq
         /\ npc = "iosq" => queues.iocq = frames.iocq /\ Given(frames.iocq, "nvme")
  <1>1. PICK before, after : /\ Exchange(npc, before, after)
                             /\ before \in SUBSET Nv!Queues /\ after \in SUBSET Nv!Queues
                             /\ "asq" \in before /\ "asq" \in after
                             /\ npc = "iosq" => "iocq" \in before /\ "iocq" \in after
    <2>1. CASE npc = "identify"
      BY <2>1 DEF NvmeInv, Admin, Nv!Queues
    <2>2. CASE npc = "iocq"
      BY <2>2 DEF NvmeInv, Admin, Nv!Queues
    <2>3. CASE npc = "iosq"
      BY <2>3 DEF NvmeInv, Admin, Nv!Queues
    <2> QED
      BY <2>1, <2>2, <2>3 DEF Sent
  <1>2. PICK S \in SUBSET Nv!Queues : Known(S) /\ "asq" \in S /\ (npc = "iosq" => "iocq" \in S)
    BY <1>1 DEF Exchange
  <1>3. queues.asq = frames.asq /\ (npc = "iosq" => queues.iocq = frames.iocq)
    BY <1>2 DEF Known
  <1>4. npc = "iosq" => Given(frames.iocq, "nvme")
    BY DEF NvmeInv, Has
  <1>5. nvme = None
    BY DEF NvmeInv, Sent
  <1> QED
    BY <1>1, <1>3, <1>4, <1>5 DEF Exchange

LEMMA NvmeCommands ==
  /\ Nv!Commands = <<"identify", "iocq", "iosq">>
  /\ DOMAIN Nv!Commands = 1 .. 3 /\ Len(Nv!Commands) = 3
  /\ Nv!Commands[1] = "identify" /\ Nv!Commands[2] = "iocq" /\ Nv!Commands[3] = "iosq"
  /\ Nv!ToSet(Nv!Commands) = Sent
  BY DEF Nv!Commands, Nv!ToSet, Sent

\* While the driver waits for an answer, the controller takes commands.
LEMMA NvmeServes ==
  ASSUME NvmeInv, NvmeFound, npc \in Sent
  PROVE  Nv!Serves
  <1>1. Masters("nvme")
    BY DEF NvmeFound, Sent
  <1> QED
    BY <1>1, NvmeExchange, NvmeClass, SamePci DEF Nv!Serves

LEMMA NvmeStaysFound ==
  ASSUME SpaceInv, NvmeFound, [Next]_vars, UNCHANGED nvmeVars
  PROVE  NvmeFound'
  <1>1. (Offers("nvme")' <=> Offers("nvme")) /\ (Masters("nvme") => Masters("nvme")')
    BY SpaceStep, NvmeClass
  <1> QED
    BY <1>1 DEF NvmeFound, nvmeVars

LEMMA NvmeFoundDriver ==
  ASSUME MemInv, SpaceInv, NvmeInv, NvmeFound, [Next]_vars, Scanned, Nv!Driver
  PROVE  NvmeFound' /\ (npc' = "panic" => ~Enough(2) /\ UNCHANGED memVars)
  <1>1. (Offers("nvme")' <=> Offers("nvme")) /\ (Masters("nvme") => Masters("nvme")')
    BY SpaceStep, NvmeClass
  <1>2. CASE Nv!NotFound \/ Nv!Find
    <2>1. npc = "find" /\ nvme = None /\ answer = None /\ pending = None
      BY <1>2 DEF Nv!NotFound, Nv!Find, NvmeInv, Quiet
    <2>2. npc' = "disable" => Masters("nvme")'
      BY <1>2, NvmeFinding, NvmeClass, Enabled
    <2> QED
      BY <1>1, <1>2, <2>1, <2>2, NvmeFinding DEF NvmeFound, Sent
  <1>3. CASE Nv!Disable
    BY <1>1, <1>3 DEF Nv!Disable, NvmeFound, NvmeInv, Quiet, Sent
  <1>4. CASE Nv!Ready
    <2>1. nvme = None /\ answer = None
      BY <1>4 DEF Nv!Ready, NvmeInv, Quiet
    <2> QED
      BY <1>1, <1>4, <2>1 DEF Nv!Ready, NvmeFound, Nv!ctlVars, Sent, NvmeInv
  <1>5. CASE Nv!Refused
    <2>1. npc \in Sent /\ answer = "error" /\ npc' = "done" /\ UNCHANGED <<nvme, frames>>
          /\ UNCHANGED <<cc_en, csts_rdy, queues, pending, answer, nvmeKind>>
      BY <1>5, NvmeCommands DEF Nv!Refused, Nv!GiveUp, Nv!ctlVars
    <2> QED
      BY <1>1, <2>1 DEF NvmeFound, Sent
  <1>6. CASE Nv!RunOut
    <2>1. /\ npc \notin {"find", "done", "panic"} /\ npc' = "done" /\ UNCHANGED <<nvme, frames>>
          /\ UNCHANGED <<cc_en, csts_rdy, queues, pending, answer, nvmeKind>>
      BY <1>6, NvmeCommands DEF Nv!RunOut, Nv!GiveUp, Nv!ctlVars, Sent
    <2>2. nvmeKind # "good"
      BY <1>6, NvmeCommands, NvmeServes DEF Nv!RunOut
    <2> QED
      BY <1>1, <2>1, <2>2 DEF NvmeFound, Sent
  <1>7. CASE Nv!OutOfFrames /\ UNCHANGED Nv!memVars
    <2>1. /\ npc' = "panic" /\ UNCHANGED <<nvme, frames>> /\ UNCHANGED memVars
          /\ UNCHANGED <<cc_en, csts_rdy, queues, pending, answer, nvmeKind>>
          /\ ~Nv!Enough(2) \/ ~Nv!Enough(1)
      BY <1>7 DEF Nv!OutOfFrames, Nv!ctlVars, Nv!memVars, memVars
    <2>2. ~Enough(2)
      <3>1. usable_frames \in Seq(Nat)
        BY Usable DEF MemInv, UsableUpto
      <3> QED
        BY <2>1, <3>1, SameFrames DEF Nv!Enough, Enough, MemInv
    <2>3. pending = None
      <3>1. \/ npc = "queues"
            \/ npc \in Sent /\ (pending = None \/ answer = "ok")
        BY <1>7, NvmeCommands DEF Nv!OutOfFrames, Nv!Succeeded, Sent
      <3> QED
        BY <3>1, NvmeExchange, NoneAssumption DEF NvmeInv, Quiet
    <2> QED
      BY <1>1, <2>1, <2>2, <2>3 DEF NvmeFound, Sent
  <1>8. CASE Nv!AdminQueues
    <2>1. /\ npc = "queues" /\ npc' = "enabling" /\ UNCHANGED <<nvme, csts_rdy, pending>>
          /\ UNCHANGED <<answer, nvmeKind>>
      BY <1>8 DEF Nv!AdminQueues
    <2>2. ~csts_rdy /\ nvme = None
      BY <2>1 DEF NvmeInv
    <2> QED
      BY <1>1, <2>1, <2>2 DEF NvmeFound, Sent
  <1>9. CASE Nv!Finish
    <2>1. /\ npc = "iosq" /\ npc' = "done" /\ answer = "ok" /\ answer' = None
          /\ nvme' = frames' /\ frames' = [frames EXCEPT !.bounce = Frame(1)]
          /\ UNCHANGED <<queues, pending>> /\ UNCHANGED <<cc_en, csts_rdy, nvmeKind>>
          /\ Allocate(<<"nvme">>)
      BY <1>9, NvmeCommands, SameAllocate, SameFrame DEF Nv!Finish, Nv!Succeeded
    <2>2. /\ Exchange("iosq", Admin \cup {"iocq"}, Nv!Queues)
          /\ Has(Admin \cup {"identify", "iocq"}) /\ DOMAIN frames = Nv!Uses
      BY <2>1 DEF NvmeInv
    <2>3. Has({"iosq"})
      BY <2>1, <2>2 DEF Exchange
    <2>4. \A u \in Nv!Uses \ {"bounce"} : frames[u] \in Nat
      <3>1. \A u \in Nv!Uses \ {"bounce"} : Given(frames[u], "nvme")
        BY <2>2, <2>3 DEF Has, Admin, Nv!Uses
      <3> QED
        BY <3>1, FrameIsNumber, Zenon
    <2>5. Frame(1) \in Nat
      <3>1. Enough(1)
        BY <2>1 DEF Allocate
      <3> QED
        BY <3>1, FrameIsNumber
    <2>6. frames' \in [Nv!Uses -> Nat]
      BY <2>1, <2>2, <2>4, <2>5
    <2>7. nvme' # None /\ pending' = None
      BY <2>1, <2>2, <2>6, NoneAssumption DEF Exchange
    <2> QED
      BY <1>1, <2>1, <2>7, NoneAssumption DEF NvmeFound, Sent
  <1>10. ASSUME NEW k \in DOMAIN Nv!Commands, Nv!Submit(k)
         PROVE  NvmeFound' /\ npc' # "panic"
    <2>1. /\ npc \in Sent /\ npc' = npc /\ UNCHANGED <<nvme, cc_en, csts_rdy>>
          /\ UNCHANGED <<answer, nvmeKind>>
      BY <1>10, NvmeCommands DEF Nv!Submit, Sent
    <2> QED
      BY <1>1, <2>1 DEF NvmeFound, Sent
  <1>11. ASSUME NEW k \in DOMAIN Nv!Commands, Nv!Answered(k)
         PROVE  NvmeFound' /\ npc' # "panic"
    <2>1. /\ answer = "ok" /\ answer' = None /\ UNCHANGED <<nvme, cc_en, csts_rdy, nvmeKind>>
          /\ (npc = "identify" /\ npc' = "iocq") \/ (npc = "iocq" /\ npc' = "iosq")
      BY <1>11, NvmeCommands DEF Nv!Answered, Nv!Succeeded
    <2> QED
      BY <1>1, <2>1, NoneAssumption DEF NvmeFound, Sent
  <1>12. Nv!NotFound \/ Nv!Find => npc' # "panic"
    BY NvmeFinding
  <1>13. Nv!Disable \/ Nv!Ready \/ Nv!Refused \/ Nv!RunOut \/ Nv!AdminQueues \/ Nv!Finish => npc' # "panic"
    BY DEF Nv!Disable, Nv!Ready, Nv!Refused, Nv!RunOut, Nv!GiveUp, Nv!AdminQueues, Nv!Finish
  <1> QED
    BY <1>2, <1>3, <1>4, <1>5, <1>6, <1>7, <1>8, <1>9, <1>10, <1>11, <1>12, <1>13 DEF Nv!Driver

LEMMA NvmeFoundController ==
  ASSUME MemInv, SpaceInv, NvmeInv, NvmeFound, [Next]_vars, Nv!Controller
  PROVE  NvmeFound'
  <1>1. (Offers("nvme")' <=> Offers("nvme")) /\ (Masters("nvme") => Masters("nvme")')
    BY SpaceStep, NvmeClass
  <1>2. CASE Nv!Follow
    BY <1>1, <1>2 DEF Nv!Follow, Nv!driverVars, NvmeFound, Sent
  <1>3. CASE Nv!Execute
    <2>1. /\ pending # None /\ UNCHANGED <<npc, nvme, frames>> /\ UNCHANGED <<cc_en, csts_rdy, nvmeKind>>
          /\ answer' = IF Nv!Fails(pending) THEN "error" ELSE "ok"
      BY <1>3 DEF Nv!Execute, Nv!driverVars
    <2>2. npc \in Sent => pending.op = npc
      BY <2>1, NvmeExchange
    <2>3. npc = "iocq" /\ nvmeKind = "small" => answer' = "error"
      BY <2>1, <2>2 DEF Nv!Fails, Sent
    <2>4. nvmeKind = "good" => answer' # "error" /\ npc \in Sent
      <3>1. npc = "iosq" => queues.iocq # None
        BY NvmeExchange, FrameIsNumber, NoneAssumption DEF Sent
      <3>2. nvmeKind = "good" => npc \in Sent
        BY <2>1 DEF NvmeInv, Quiet, NvmeFound
      <3> QED
        BY <2>1, <2>2, <3>1, <3>2 DEF Nv!Fails, Sent
    <2> QED
      BY <1>1, <2>1, <2>3, <2>4 DEF NvmeFound, Sent
  <1> QED
    BY <1>2, <1>3 DEF Nv!Controller

-----------------------------------------------------------------------------
(* The first good SATA port is found.                                      *)

AtPort == {"stopping", "stopped", "setup", "starting", "identify"}

\* No good port has been passed by.
NoneBefore(n) == \A p \in DOMAIN hba : p < n => ~IsGood(p)

AhciFound ==
  /\ \A p \in DOMAIN hba :
       /\ hba[p].kind \in Ah!PortKinds
       /\ hba[p].answered => hba[p].kind \notin {"failing", "stuck"}
  /\ apc \in AtPort \cup {"find", "scan", "done", "panic"}
  /\ apc = "find" => port = 0
  /\ apc \in AtPort \cup {"scan"} => Offers("sata") /\ Masters("sata") /\ NoneBefore(port)
  /\ apc \in AtPort => Ah!IsDisk(port)
  /\ ahci # None =>
       /\ Offers("sata") /\ NoneBefore(ahci.port)
       /\ hba[ahci.port].kind \in {"disk", "slow"}
  /\ apc = "done" /\ ahci = None /\ Offers("sata") => NoneBefore(Ports)

\* Nothing changes what is attached to a port, and only the HBA answers.
LEMMA KindsKept ==
  ASSUME AhciInv, Ah!Driver \/ Ah!Controller
  PROVE  /\ DOMAIN hba' = DOMAIN hba
         /\ \A p \in DOMAIN hba : hba'[p].kind = hba[p].kind
         /\ \A p \in DOMAIN hba :
              hba'[p].answered => hba[p].answered \/ hba[p].kind \notin {"failing", "stuck"}
  <1> DEFINE Goal == /\ DOMAIN hba' = DOMAIN hba
                     /\ \A p \in DOMAIN hba : hba'[p].kind = hba[p].kind
                     /\ \A p \in DOMAIN hba :
                          hba'[p].answered => hba[p].answered \/ hba[p].kind \notin {"failing", "stuck"}
  <1>1. CASE hba' = hba
    BY <1>1
  <1>2. ASSUME NEW q \in DOMAIN hba, NEW f \in {"st", "fre", "cr", "list"}, NEW value,
               hba' = [hba EXCEPT ![q][f] = value]
        PROVE  Goal
    <2>1. DOMAIN hba[q] = PortFields
      BY DEF AhciInv
    <2>2. /\ DOMAIN hba' = DOMAIN hba /\ hba'[q] = [hba[q] EXCEPT ![f] = value]
          /\ \A p \in DOMAIN hba \ {q} : hba'[p] = hba[p]
      BY <1>2, Zenon
    <2>3. hba'[q].kind = hba[q].kind /\ hba'[q].answered = hba[q].answered
      BY <1>2, <2>1, <2>2 DEF PortFields
    <2> QED
      BY <2>2, <2>3
  <1>3. CASE Ah!NotFound \/ Ah!Find \/ Ah!Skip \/ Ah!NoPort \/ Ah!Stopped \/ Ah!IdentifyFails \/ Ah!OutOfFrames
    BY <1>1, <1>3 DEF Ah!NotFound, Ah!Find, Ah!Skip, Ah!NoPort, Ah!Stopped, Ah!IdentifyFails,
       Ah!OutOfFrames, Ah!GiveUp
  <1>4. CASE Ah!Stop
    <2>1. port \in DOMAIN hba /\ hba' = [hba EXCEPT ![port]["st"] = FALSE]
      BY <1>4, PortAtHand DEF Ah!Stop, Ah!Set
    <2>2. "st" \in {"st", "fre", "cr", "list"}
      OBVIOUS
    <2> HIDE DEF Goal
    <2>3. Goal
      BY <1>2, <2>1, <2>2, Zenon
    <2> QED
      BY <2>3 DEF Goal
  <1>5. CASE Ah!StopFis
    <2>1. port \in DOMAIN hba /\ hba' = [hba EXCEPT ![port]["fre"] = FALSE]
      BY <1>5, PortAtHand DEF Ah!StopFis, Ah!Set
    <2>2. "fre" \in {"st", "fre", "cr", "list"}
      OBVIOUS
    <2> HIDE DEF Goal
    <2>3. Goal
      BY <1>2, <2>1, <2>2, Zenon
    <2> QED
      BY <2>3 DEF Goal
  <1>6. CASE Ah!Setup
    <2>1. port \in DOMAIN hba /\ hba' = [hba EXCEPT ![port]["list"] = Ah!Frame(1)]
      BY <1>6, PortAtHand DEF Ah!Setup, Ah!Set
    <2>2. "list" \in {"st", "fre", "cr", "list"}
      OBVIOUS
    <2> HIDE DEF Goal
    <2>3. Goal
      BY <1>2, <2>1, <2>2, Zenon
    <2> QED
      BY <2>3 DEF Goal
  <1>7. CASE Ah!StartPort
    <2>1. port \in DOMAIN hba /\ DOMAIN hba[port] = PortFields
      BY <1>7, PortAtHand DEF Ah!StartPort
    <2>2. PICK cmd : hba' = [hba EXCEPT ![port].st = TRUE, ![port].fre = TRUE, ![port].cmd = cmd]
      BY <1>7 DEF Ah!StartPort
    <2>3. /\ DOMAIN hba' = DOMAIN hba
          /\ \A q \in DOMAIN hba \ {port} : hba'[q] = hba[q]
          /\ hba'[port] = [hba[port] EXCEPT !.st = TRUE, !.fre = TRUE, !.cmd = cmd]
      BY <2>1, <2>2, Zenon
    <2>4. hba'[port].kind = hba[port].kind /\ hba'[port].answered = hba[port].answered
      BY <2>1, <2>3 DEF PortFields
    <2> QED
      BY <2>3, <2>4
  <1>8. CASE Ah!Identified
    <2>1. /\ port \in DOMAIN hba /\ hba' = [hba EXCEPT ![port]["answered"] = FALSE]
          /\ DOMAIN hba[port] = PortFields
      BY <1>8, PortAtHand DEF Ah!Identified, Ah!Set
    <2>2. /\ DOMAIN hba' = DOMAIN hba /\ hba'[port] = [hba[port] EXCEPT !["answered"] = FALSE]
          /\ \A p \in DOMAIN hba \ {port} : hba'[p] = hba[p]
      BY <2>1, Zenon
    <2>3. hba'[port].kind = hba[port].kind /\ ~hba'[port].answered
      BY <2>1, <2>2 DEF PortFields
    <2> QED
      BY <2>2, <2>3
  <1>9. ASSUME NEW q \in DOMAIN hba, Ah!FollowSt(q)
        PROVE  Goal
    <2>1. hba' = [hba EXCEPT ![q]["cr"] = hba[q].st]
      BY <1>9 DEF Ah!FollowSt, Ah!Set
    <2>2. "cr" \in {"st", "fre", "cr", "list"}
      OBVIOUS
    <2> HIDE DEF Goal
    <2> QED
      BY <1>2, <2>1, <2>2, Zenon
  <1>10. ASSUME NEW q \in DOMAIN hba, Ah!Execute(q)
         PROVE  Goal
    <2>1. /\ hba' = [hba EXCEPT ![q].cmd = None, ![q].answered = TRUE]
          /\ hba[q].kind \notin {"failing", "stuck"} /\ DOMAIN hba[q] = PortFields
      BY <1>10 DEF Ah!Execute, AhciInv
    <2>2. /\ DOMAIN hba' = DOMAIN hba
          /\ \A p \in DOMAIN hba \ {q} : hba'[p] = hba[p]
          /\ hba'[q] = [hba[q] EXCEPT !.cmd = None, !.answered = TRUE]
      BY <2>1, Zenon
    <2>3. hba'[q].kind = hba[q].kind
      BY <2>1, <2>2 DEF PortFields
    <2> QED
      BY <2>1, <2>2, <2>3
  <1> QED
    BY <1>3, <1>4, <1>5, <1>6, <1>7, <1>8, <1>9, <1>10 DEF Ah!Driver, Ah!Controller

LEMMA AhciFoundStep ==
  ASSUME MemInv, SpaceInv, AhciInv, AhciFound, [Next]_vars,
         (Ah!Driver /\ Scanned) \/ Ah!Controller \/ UNCHANGED ahciVars
  PROVE  AhciFound' /\ (apc' = "panic" => apc = "panic" \/ (~Enough(2) /\ UNCHANGED memVars))
  <1>1. (Offers("sata")' <=> Offers("sata")) /\ (Masters("sata") => Masters("sata")')
    BY SpaceStep, AhciClass
  <1>2. /\ DOMAIN hba' = DOMAIN hba
        /\ \A p \in DOMAIN hba : hba'[p].kind = hba[p].kind
        /\ \A p \in DOMAIN hba :
             hba'[p].answered => hba[p].answered \/ hba[p].kind \notin {"failing", "stuck"}
    BY KindsKept DEF ahciVars
  <1>3. \A p \in DOMAIN hba' :
          /\ hba'[p].kind \in Ah!PortKinds
          /\ hba'[p].answered => hba'[p].kind \notin {"failing", "stuck"}
    BY <1>2 DEF AhciFound
  <1>4. \A n : (\A p \in DOMAIN hba' : p < n => ~(hba'[p].kind = "disk")) <=> NoneBefore(n)
    BY <1>2, Zenon DEF NoneBefore, IsGood
  <1>5. /\ port \in Nat /\ DOMAIN hba = 0 .. Ports - 1 /\ Ports \in Nat
        /\ apc \in AtPort => port \in DOMAIN hba
        /\ ahci # None => apc = "done" /\ ahci.port \in DOMAIN hba
    BY PortAtHand, BootAssumption DEF AhciInv, AtPort
  \* Most steps leave the driver at the port where it is.
  <1>6. ASSUME UNCHANGED <<port, ahci>>,
               \/ apc' = apc
               \/ apc' \in AtPort /\ apc \in AtPort \cup {"scan"} /\ Ah!IsDisk(port) /\ port \in DOMAIN hba
        PROVE  AhciFound'
    <2>1. apc' \in AtPort => Ah!IsDisk(port)'
      BY <1>2, <1>5, <1>6 DEF AhciFound, Ah!IsDisk
    <2>2. ahci # None => hba'[ahci.port].kind = hba[ahci.port].kind
      BY <1>2, <1>5
    <2> QED
      BY <1>1, <1>3, <1>4, <1>6, <2>1, <2>2 DEF AhciFound, NoneBefore, IsGood, AtPort
  <1>7. CASE UNCHANGED ahciVars
    BY <1>6, <1>7 DEF ahciVars
  <1>8. CASE Ah!Controller
    BY <1>6, <1>8 DEF Ah!Controller, Ah!FollowSt, Ah!Execute
  <1>9. CASE Ah!Stop \/ Ah!StopFis \/ Ah!Stopped \/ Ah!Setup \/ Ah!StartPort
    <2>1. /\ UNCHANGED <<port, ahci>> /\ apc' \in AtPort /\ apc \in AtPort \cup {"scan"}
          /\ port \in DOMAIN hba
      BY <1>9, PortAtHand DEF Ah!Stop, Ah!StopFis, Ah!Stopped, Ah!Setup, Ah!StartPort, AtPort
    <2>2. Ah!IsDisk(port)
      BY <1>9 DEF Ah!Stop, Ah!StopFis, Ah!Stopped, Ah!Setup, Ah!StartPort, AhciFound, AtPort
    <2> QED
      BY <1>6, <2>1, <2>2 DEF AtPort
  <1>10. CASE (Ah!NotFound \/ Ah!Find) /\ Scanned
    <2>1. /\ apc' \in {"done", "scan"} /\ (apc' = "scan" <=> Offers("sata"))
          /\ UNCHANGED <<port, ahci>> /\ apc = "find" /\ ahci = None
      BY <1>5, <1>10, AhciFinding DEF Ah!NotFound, Ah!Find
    <2>2. apc' = "scan" => Masters("sata")'
      BY <1>10, <2>1, AhciFinding, AhciClass, Enabled
    <2>3. port = 0
      BY <1>10 DEF Ah!NotFound, Ah!Find, AhciFound
    <2> QED
      BY <1>1, <1>3, <1>4, <1>5, <2>1, <2>2, <2>3 DEF AhciFound, NoneBefore, IsGood, AtPort
  <1>11. CASE Ah!Skip \/ Ah!IdentifyFails
    <2>1. port \in DOMAIN hba /\ ahci = None
      BY <1>11, PortAtHand DEF Ah!Skip, Ah!IdentifyFails
    <2>2. /\ apc \in AtPort \cup {"scan"} /\ apc' = "scan" /\ port' = port + 1 /\ ahci' = ahci
      BY <1>11 DEF Ah!Skip, Ah!IdentifyFails, Ah!NextPort, AtPort
    <2>3. Offers("sata") /\ Masters("sata") /\ NoneBefore(port)
      BY <2>2 DEF AhciFound
    <2>4. ~IsGood(port)
      BY <1>11, <2>3, SamePci, AhciClass DEF Ah!Skip, Ah!IdentifyFails, Ah!IsDisk, IsGood
    <2>5. NoneBefore(port + 1)
      <3>1. \A p \in DOMAIN hba : p < port + 1 => p < port \/ p = port
        BY <1>5
      <3> QED
        BY <2>3, <2>4, <3>1, Zenon DEF NoneBefore
    <2> QED
      BY <1>1, <1>3, <1>4, <2>1, <2>2, <2>3, <2>5 DEF AhciFound, NoneBefore, IsGood, AtPort
  <1>12. CASE Ah!NoPort
    <2>1. apc = "scan" /\ port = Ports /\ apc' = "done" /\ UNCHANGED <<port, ahci>>
      BY <1>12 DEF Ah!NoPort, Ah!GiveUp
    <2>2. NoneBefore(Ports) /\ ahci = None
      BY <1>5, <2>1 DEF AhciFound
    <2> QED
      BY <1>1, <1>3, <1>4, <2>1, <2>2 DEF AhciFound, NoneBefore, IsGood, AtPort
  <1>13. CASE Ah!Identified
    <2>1. /\ apc = "identify" /\ apc' = "done" /\ port' = port
          /\ hba[port].answered /\ ahci' = [port |-> port, ctrl |-> ctrl]
      BY <1>13 DEF Ah!Identified
    <2>2. port \in DOMAIN hba /\ Offers("sata") /\ NoneBefore(port) /\ Ah!IsDisk(port)
      BY <1>5, <2>1 DEF AhciFound, AtPort
    <2>3. hba[port].kind \in {"disk", "slow"}
      BY <2>1, <2>2 DEF AhciFound, Ah!IsDisk, Ah!PortKinds
    <2>4. ctrl \in Nat
      BY <2>1, FrameIsNumber DEF AhciInv
    <2>5. ahci' \in [port : Nat, ctrl : Nat] /\ ahci'.port = port
      BY <1>5, <2>1, <2>4
    <2>6. ahci' # None
      BY <2>5, NoneAssumption
    <2> QED
      BY <1>1, <1>2, <1>3, <1>4, <2>1, <2>2, <2>3, <2>5, <2>6 DEF AhciFound, NoneBefore, IsGood, AtPort
  <1>14. CASE Ah!OutOfFrames /\ UNCHANGED Ah!memVars
    <2>1. apc' = "panic" /\ UNCHANGED <<port, ahci>> /\ ~Ah!Enough(1) /\ UNCHANGED memVars
          /\ apc \in AtPort
      BY <1>14 DEF Ah!OutOfFrames, Ah!memVars, memVars, AtPort
    <2>2. ~Enough(2)
      <3>1. usable_frames \in Seq(Nat)
        BY Usable DEF MemInv, UsableUpto
      <3> QED
        BY <2>1, <3>1, SameFrames DEF Ah!Enough, Enough, MemInv
    <2>3. ahci = None
      BY <1>5, <2>1 DEF AtPort
    <2> QED
      BY <1>1, <1>3, <1>4, <2>1, <2>2, <2>3 DEF AhciFound, NoneBefore, IsGood, AtPort
  <1>15. ~(Ah!OutOfFrames /\ UNCHANGED Ah!memVars) => apc' # "panic" \/ apc' = apc
    BY AhciFinding DEF Ah!Driver, Ah!Controller, Ah!FollowSt, Ah!Execute, ahciVars,
       Ah!Skip, Ah!NoPort, Ah!Stop, Ah!StopFis, Ah!Stopped, Ah!Setup, Ah!StartPort, Ah!Identified,
       Ah!IdentifyFails, Ah!NextPort, Ah!GiveUp
  <1>16. Ah!OutOfFrames /\ UNCHANGED Ah!memVars => ~Enough(2) /\ UNCHANGED memVars
    <2> SUFFICES ASSUME Ah!OutOfFrames, UNCHANGED Ah!memVars PROVE ~Enough(2) /\ UNCHANGED memVars
      OBVIOUS
    <2>1. usable_frames \in Seq(Nat)
      BY Usable DEF MemInv, UsableUpto
    <2> QED
      BY <2>1, SameFrames DEF Ah!OutOfFrames, Ah!Enough, Enough, MemInv, Ah!memVars, memVars
  <1> QED
    BY <1>7, <1>8, <1>9, <1>10, <1>11, <1>12, <1>13, <1>14, <1>15, <1>16 DEF Ah!Driver

-----------------------------------------------------------------------------
(* The stages of kernel_main.                                              *)

StageInv ==
  /\ stage \in {"heap", "pci", "ahci"} => npc = "find"
  /\ stage \in {"heap", "pci"} => apc = "find"
  /\ stage = "ahci" => apc \notin {"done", "panic"}
  /\ stage \in {"nvme", "storage", "ps2", "run"} => apc = "done"
  /\ stage = "nvme" => npc \notin {"done", "panic"}
  /\ stage \in {"storage", "ps2", "run"} => npc = "done"
  /\ stage \in {"ps2", "run"} =>
       storage = IF nvme # None THEN "nvme" ELSE IF ahci # None THEN "ahci" ELSE None
  /\ stage = "panic" => ~Enough(HEAP_PAGES + TABLES)

FoundInv == MemInv /\ NvmeInv /\ AhciInv /\ SpaceInv /\ NvmeFound /\ AhciFound /\ StageInv

\* PS/2 always comes to an end of its own.
LEMMA Ps2NeverPanics == Ps2!Driver => ppc' # "panic"
  <1>1. \A d : Ps2!After(d) # "panic"
    BY DEF Ps2!After
  <1>2. \A p : Ps2!Goto(p) => ppc' = p
    BY Zenon DEF Ps2!Goto
  <1>3. \A d : Ps2!Begin(d) => ppc' # "panic"
    BY DEF Ps2!Begin
  <1>4. Ps2!NextStep => ppc' # "panic"
    BY <1>1, <1>2 DEF Ps2!NextStep
  <1>5. ASSUME NEW d \in Ps2!Devs
        PROVE  Ps2!AckStep[d] # "panic" /\ Ps2!ResultStep[d] # "panic"
    BY DEF Ps2!Devs, Ps2!AckStep, Ps2!ResultStep
  <1>6. CASE Ps2!Disable \/ Ps2!Flush \/ Ps2!Configure \/ Ps2!SelfTested \/ Ps2!Probe \/ Ps2!Probed
             \/ Ps2!Enable \/ Ps2!Send
    BY <1>1, <1>2, <1>6 DEF Ps2!Disable, Ps2!Flush, Ps2!Configure, Ps2!SelfTested, Ps2!Probe,
       Ps2!Probed, Ps2!Enable, Ps2!Send
  <1>7. CASE Ps2!Command
    BY <1>2, <1>7 DEF Ps2!Command
  <1>8. CASE Ps2!KbdResult \/ Ps2!MouseResult \/ Ps2!MouseId
    BY <1>1, <1>2, <1>3, <1>8 DEF Ps2!KbdResult, Ps2!MouseResult, Ps2!MouseId
  <1>9. CASE Ps2!Ack \/ Ps2!More
    BY <1>4, <1>9 DEF Ps2!Ack, Ps2!More
  <1>10. CASE Ps2!Finish
    BY <1>2, <1>10 DEF Ps2!Finish
  <1>11. ASSUME NEW d \in Ps2!Devs, Ps2!Tested(d) \/ Ps2!Reset(d) \/ Ps2!ResetAck(d)
         PROVE  ppc' # "panic"
    BY <1>1, <1>2, <1>5, <1>11 DEF Ps2!Tested, Ps2!Reset, Ps2!ResetAck
  <1> QED
    BY <1>6, <1>7, <1>8, <1>9, <1>10, <1>11 DEF Ps2!Driver

LEMMA StageStep ==
  ASSUME FoundInv, [Next]_vars
  PROVE  NvmeFound' /\ AhciFound' /\ StageInv'
  <1>1. /\ MemInv /\ NvmeInv /\ AhciInv /\ SpaceInv /\ NvmeFound /\ AhciFound /\ StageInv
    BY DEF FoundInv
  <1>2. UNCHANGED nvmeVars => NvmeFound'
    BY <1>1, NvmeStaysFound
  <1>3. UNCHANGED ahciVars => AhciFound'
    BY <1>1, AhciFoundStep
  <1>4. UNCHANGED memVars => (Enough(HEAP_PAGES + TABLES)' <=> Enough(HEAP_PAGES + TABLES))
    BY DEF memVars, Enough, usable_frames
  <1>5. ~Enough(2) => ~Enough(HEAP_PAGES + TABLES)
    <2>1. usable_frames \in Seq(Nat)
      BY <1>1, Usable DEF MemInv, UsableUpto
    <2> QED
      BY <1>1, <2>1, BootAssumption, MemoryAssumption DEF Enough, MemInv
  <1>6. CASE InitHeap
    <2>1. /\ stage = "heap" /\ UNCHANGED storage /\ UNCHANGED nvmeVars /\ UNCHANGED ahciVars
          /\ stage' = "pci" \/ (stage' = "panic" /\ UNCHANGED memVars /\ ~Enough(HEAP_PAGES + TABLES))
      BY <1>6 DEF InitHeap
    <2> QED
      BY <1>1, <1>2, <1>3, <1>4, <2>1 DEF StageInv, nvmeVars, ahciVars
  <1>7. CASE InitPci
    <2>1. /\ stage = "pci" /\ stage' = "ahci" /\ UNCHANGED nvmeVars /\ UNCHANGED ahciVars
      BY <1>7 DEF InitPci
    <2> QED
      BY <1>1, <1>2, <1>3, <2>1 DEF StageInv, nvmeVars, ahciVars
  <1>8. CASE InitAhci
    <2>1. /\ stage = "ahci" /\ Ah!Driver /\ Scanned /\ UNCHANGED storage /\ UNCHANGED nvmeVars
          /\ stage' = IF apc' = "done" THEN "nvme" ELSE IF apc' = "panic" THEN "panic" ELSE stage
      BY <1>1, <1>8 DEF InitAhci, SpaceInv, Then
    <2>2. AhciFound' /\ (apc' = "panic" => apc = "panic" \/ (~Enough(2) /\ UNCHANGED memVars))
      BY <1>1, <2>1, AhciFoundStep
    <2>3. npc' = "find" /\ apc # "panic"
      BY <1>1, <2>1 DEF StageInv, nvmeVars
    <2> QED
      BY <1>2, <1>4, <1>5, <2>1, <2>2, <2>3 DEF StageInv
  <1>9. CASE InitNvme
    <2>1. /\ stage = "nvme" /\ Nv!Driver /\ Scanned /\ UNCHANGED storage /\ UNCHANGED ahciVars
          /\ stage' = IF npc' = "done" THEN "storage" ELSE IF npc' = "panic" THEN "panic" ELSE stage
      BY <1>1, <1>9 DEF InitNvme, SpaceInv, Then
    <2>2. NvmeFound' /\ (npc' = "panic" => ~Enough(2) /\ UNCHANGED memVars)
      BY <1>1, <2>1, NvmeFoundDriver
    <2>3. apc' = "done"
      BY <1>1, <2>1 DEF StageInv, ahciVars
    <2> QED
      BY <1>3, <1>4, <1>5, <2>1, <2>2, <2>3 DEF StageInv
  <1>10. CASE InitStorage
    <2>1. /\ stage = "storage" /\ stage' = "ps2" /\ UNCHANGED nvmeVars /\ UNCHANGED ahciVars
          /\ storage' = IF nvme # None THEN "nvme" ELSE IF ahci # None THEN "ahci" ELSE None
      BY <1>10 DEF InitStorage
    <2> QED
      BY <1>1, <1>2, <1>3, <2>1 DEF StageInv, nvmeVars, ahciVars
  <1>11. CASE InitPs2
    <2>1. /\ stage = "ps2" /\ UNCHANGED storage /\ UNCHANGED nvmeVars /\ UNCHANGED ahciVars
          /\ stage' \in {"ps2", "run"}
      BY <1>11, Ps2NeverPanics DEF InitPs2, Then
    <2> QED
      BY <1>1, <1>2, <1>3, <2>1 DEF StageInv, nvmeVars, ahciVars
  <1>12. CASE Ahci
    <2>1. UNCHANGED <<stage, storage>> /\ Ah!Controller /\ UNCHANGED nvmeVars /\ UNCHANGED memVars
          /\ apc' = apc /\ ahci' = ahci
      BY <1>12 DEF Ahci, Ah!Controller, Ah!memVars, memVars, Ah!FollowSt, Ah!Execute
    <2>2. AhciFound'
      BY <1>1, <2>1, AhciFoundStep
    <2> QED
      BY <1>1, <1>2, <1>4, <2>1, <2>2 DEF StageInv, nvmeVars
  <1>13. CASE Nvme
    <2>1. UNCHANGED <<stage, storage>> /\ Nv!Controller /\ UNCHANGED ahciVars /\ UNCHANGED memVars
          /\ npc' = npc /\ nvme' = nvme
      BY <1>13 DEF Nvme, Nv!Controller, Nv!memVars, memVars, Nv!Follow, Nv!Execute, Nv!driverVars
    <2>2. NvmeFound'
      BY <1>1, <2>1, NvmeFoundController
    <2> QED
      BY <1>1, <1>3, <1>4, <2>1, <2>2 DEF StageInv, ahciVars
  <1>14. CASE (\E d \in Ps2!Devs : Byte(d) \/ Stray(d)) \/ UNCHANGED vars
    <2>1. UNCHANGED <<stage, storage>> /\ UNCHANGED nvmeVars /\ UNCHANGED ahciVars /\ UNCHANGED memVars
      BY <1>14 DEF Byte, Stray, vars
    <2> QED
      BY <1>1, <1>2, <1>3, <1>4, <2>1 DEF StageInv, nvmeVars, ahciVars
  <1> QED
    BY <1>6, <1>7, <1>8, <1>9, <1>10, <1>11, <1>12, <1>13, <1>14 DEF Next, Kernel

LEMMA FoundInit == Init => FoundInv
  <1> SUFFICES ASSUME NEW m \in Machines, BootOn(m)
               PROVE  NvmeFound /\ AhciFound /\ StageInv
    BY MemInit, NvmeInit, AhciInit, SpaceInit DEF Init, FoundInv
  <1>1. m.nvme \in Nv!Kinds /\ \A p \in 1 .. Ports : m.ports[p] \in Ah!PortKinds
    BY MachinesAssumption
  <1>2. /\ npc = "find" /\ apc = "find" /\ stage = "heap" /\ port = 0
        /\ nvme = None /\ ahci = None /\ answer = None /\ nvmeKind = m.nvme
        /\ hba = [p \in 0 .. Ports - 1 |-> Ah!Port(m.ports[p + 1], m.running)]
    BY DEF BootOn, Nv!Start, Ah!Start
  <1>3. NvmeFound
    BY <1>1, <1>2, NoneAssumption DEF NvmeFound, Sent
  <1>4. ASSUME NEW p \in DOMAIN hba
        PROVE  hba[p].kind \in Ah!PortKinds /\ ~hba[p].answered
    <2>1. p + 1 \in 1 .. Ports /\ hba[p] = Ah!Port(m.ports[p + 1], m.running)
      BY <1>2, BootAssumption
    <2> QED
      BY <1>1, <2>1 DEF Ah!Port
  <1>5. AhciFound
    BY <1>2, <1>4 DEF AhciFound, AtPort
  <1> QED
    BY <1>2, <1>3, <1>5 DEF StageInv

LEMMA FoundNext == FoundInv /\ [Next]_vars => FoundInv'
  BY StageStep, MemNext, NvmeNext, AhciNext, SpaceStep DEF FoundInv

\* Boot finds the disk that there is, wherever on PCI it is: a good NVMe controller,
\* else the first good SATA port, and it panics for want of memory only.
THEOREM DiskIsFound == Spec => []BackendFound
  <1>1. FoundInv => BackendFound
    <2> SUFFICES ASSUME FoundInv PROVE BackendFound
      OBVIOUS
    <2>1. NvmeInv /\ AhciInv /\ NvmeFound /\ AhciFound /\ StageInv
      BY DEF FoundInv
    <2>2. stage = "panic" => ~Enough(HEAP_PAGES + TABLES)
      BY <2>1 DEF StageInv
    <2>3. ASSUME stage \in {"ps2", "run"}
          PROVE  /\ apc = "done" /\ npc = "done"
                 /\ storage = "nvme" <=> nvme # None
                 /\ storage = "ahci" <=> nvme = None /\ ahci # None
                 /\ storage = None <=> nvme = None /\ ahci = None
      BY <2>1, <2>3, NoneAssumption DEF StageInv
    <2>4. nvme # None => Offers("nvme") /\ nvmeKind \in {"good", "slow"}
      BY <2>1 DEF NvmeFound, Nv!Kinds
    <2>5. npc = "done" /\ Offers("nvme") /\ nvmeKind = "good" => nvme # None
      BY <2>1 DEF NvmeFound
    <2>6. ahci # None =>
            /\ Offers("sata") /\ hba[ahci.port].kind \in {"disk", "slow"}
            /\ \A p \in DOMAIN hba : p < ahci.port => ~IsGood(p)
      BY <2>1 DEF AhciFound, NoneBefore
    <2>7. apc = "done" /\ ahci = None =>
            ~(Offers("sata") /\ \E p \in DOMAIN hba : IsGood(p))
      <3>1. \A p \in DOMAIN hba : p < Ports
        BY <2>1, BootAssumption DEF AhciInv
      <3> QED
        BY <2>1, <3>1 DEF AhciFound, NoneBefore
    <2> QED
      BY <2>2, <2>3, <2>4, <2>5, <2>6, <2>7, Zenon DEF BackendFound
  <1> QED
    BY <1>1, FoundInit, FoundNext, PTL DEF Spec
===============================================================================
