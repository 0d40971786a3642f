----------------------------- MODULE ConsoleProofs -----------------------------
(* Proofs about Console with TextBox, GlyphCache and LineEditor, for panels,   *)
(* prompts, keys, replies and bounds of any size.                              *)
EXTENDS Console, FiniteSetTheorems, SequenceTheorems, WellFoundedInduction, TLAPS

-----------------------------------------------------------------------------
(* Induction, as in GameProofs.                                            *)

LEMMA LeastNumber ==
  ASSUME NEW T, T \subseteq Nat, T # {}
  PROVE  \E n \in T : \A m \in T : ~(m < n)
  <1> DEFINE R == {p \in Nat \X Nat : p[1] < p[2]}
  <1>1. IsWellFoundedOn(R, Nat)
    BY NatLessThanWellFounded DEF OpToRel
  <1>2. \A x, y \in Nat : <<y, x>> \in R <=> y < x
    OBVIOUS
  <1> HIDE DEF R
  <1>3. PICK x \in T : \A y \in T : ~(<<y, x>> \in R)
    BY <1>1, WFMin, Zenon
  <1>4. \A y \in T : ~(y < x)
    BY <1>2, <1>3, Zenon
  <1> QED
    BY <1>4, Zenon

\* What holds of 0, and of n + 1 with n, holds of every number.
LEMMA Induction ==
  ASSUME NEW S, 0 \in S, \A n \in Nat \cap S : n + 1 \in S
  PROVE  \A n \in Nat : n \in S
  <1> SUFFICES ASSUME Nat \ S # {}
               PROVE  FALSE
    BY Zenon
  <1>1. Nat \ S \subseteq Nat
    BY Zenon
  <1>2. PICK n \in Nat \ S : \A m \in Nat \ S : ~(m < n)
    BY <1>1, LeastNumber, Zenon
  <1>3. n # 0
    BY Zenon
  <1>4. n - 1 \in Nat /\ (n - 1) + 1 = n /\ n - 1 < n
    BY <1>3
  <1> QED
    BY <1>2, <1>4, Zenon

-----------------------------------------------------------------------------
(* The recursive functions are what their definitions say.                 *)

\* A string is pushed byte by byte.
LEMMA Written ==
  ASSUME NEW base, NEW s, NEW n \in Nat, Len(s) = n
  PROVE  \E f : /\ WriteStr(base, s) = f[n]
                /\ f[0] = base
                /\ \A i \in 1 .. n : f[i] = PushByte(f[i - 1], s[i])
  <1> DEFINE Value(f, i) == IF i = 0 THEN base ELSE PushByte(f[i - 1], s[i])
             Upto(f, m) == f = [i \in 0 .. m |-> Value(f, i)]
             Reached == {m \in Nat : \E f : Upto(f, m)}
  <1>1. 0 \in Reached
    <2> DEFINE f == [i \in 0 .. 0 |-> base]
    <2>1. f[0] = base /\ \A i \in 0 .. 0 : i = 0
      OBVIOUS
    <2>2. f = [i \in 0 .. 0 |-> Value(f, i)]
      BY <2>1, Zenon
    <2> QED
      BY <2>2
  <1>2. ASSUME NEW m \in Nat \cap Reached PROVE m + 1 \in Reached
    <2>1. PICK f : Upto(f, m)
      OBVIOUS
    <2> DEFINE g == [i \in 0 .. m + 1 |-> IF i <= m THEN f[i] ELSE Value(f, m + 1)]
    <2> HIDE DEF Value
    <2>2. \A i \in 0 .. m : f[i] = Value(f, i)
      BY <2>1, Zenon
    <2>3. \A i \in 0 .. m + 1 : g[i] = IF i <= m THEN f[i] ELSE Value(f, m + 1)
      BY Zenon
    <2>4. g = [i \in 0 .. m + 1 |-> g[i]]
      BY Zenon
    <2> HIDE DEF g
    <2>5. \A i \in 0 .. m : i <= m /\ i \in 0 .. m + 1 /\ (i # 0 => i - 1 \in 0 .. m /\ i - 1 <= m)
      OBVIOUS
    <2>6. ASSUME NEW i \in 0 .. m + 1 PROVE i - 1 \in 0 .. m => g[i - 1] = f[i - 1]
      BY <2>3, <2>5, Zenon
    <2>7. ASSUME NEW i \in 0 .. m + 1 PROVE g[i] = Value(g, i)
      <3>1. i = 0 \/ i - 1 \in 0 .. m
        OBVIOUS
      <3>2. Value(g, i) = Value(f, i)
        <4>1. CASE i = 0
          BY <4>1, Zenon DEF Value
        <4>2. CASE i - 1 \in 0 .. m
          <5>1. g[i - 1] = f[i - 1]
            BY <4>2, <2>6, Zenon
          <5> QED
            BY <5>1, Zenon DEF Value
        <4> QED
          BY <3>1, <4>1, <4>2
      <3>3. i \in 0 .. m \/ (i = m + 1 /\ ~(i <= m))
        OBVIOUS
      <3> QED
        BY <2>2, <2>3, <2>5, <3>2, <3>3, Zenon
    <2>8. Upto(g, m + 1)
      BY <2>4, <2>7, Zenon
    <2>9. m + 1 \in Nat
      OBVIOUS
    <2> QED
      BY <2>8, <2>9, Zenon
  <1>3. \E f : Upto(f, n)
    <2> HIDE DEF Reached
    <2>1. n \in Reached
      BY <1>1, <1>2, Induction, Zenon
    <2> QED
      BY <2>1 DEF Reached
  <1> DEFINE after == CHOOSE f : Upto(f, n)
  <1>4. Upto(after, n)
    BY <1>3, Zenon
  <1>5. WriteStr(base, s) = after[n]
    BY DEF WriteStr
  <1> HIDE DEF after
  <1>6. \A i \in 0 .. n : after[i] = Value(after, i)
    BY <1>4
  <1>7. 0 \in 0 .. n /\ \A i \in 1 .. n : i \in 0 .. n /\ i # 0
    OBVIOUS
  <1>8. after[0] = base /\ \A i \in 1 .. n : after[i] = PushByte(after[i - 1], s[i])
    BY <1>6, <1>7, Zenon
  <1> QED
    BY <1>5, <1>8, Zenon

\* Lines are logged one by one.
LEMMA LinesLogged ==
  ASSUME NEW base, NEW s, NEW n \in Nat, Len(s) = n
  PROVE  \E f : /\ LogLines(base, s) = f[n]
                /\ f[0] = base
                /\ \A i \in 1 .. n : f[i] = LogLine(f[i - 1], s[i])
  <1> DEFINE Value(f, i) == IF i = 0 THEN base ELSE LogLine(f[i - 1], s[i])
             Upto(f, m) == f = [i \in 0 .. m |-> Value(f, i)]
             Reached == {m \in Nat : \E f : Upto(f, m)}
  <1>1. 0 \in Reached
    <2> DEFINE f == [i \in 0 .. 0 |-> base]
    <2>1. f[0] = base /\ \A i \in 0 .. 0 : i = 0
      OBVIOUS
    <2>2. f = [i \in 0 .. 0 |-> Value(f, i)]
      BY <2>1, Zenon
    <2> QED
      BY <2>2
  <1>2. ASSUME NEW m \in Nat \cap Reached PROVE m + 1 \in Reached
    <2>1. PICK f : Upto(f, m)
      OBVIOUS
    <2> DEFINE g == [i \in 0 .. m + 1 |-> IF i <= m THEN f[i] ELSE Value(f, m + 1)]
    <2> HIDE DEF Value
    <2>2. \A i \in 0 .. m : f[i] = Value(f, i)
      BY <2>1, Zenon
    <2>3. \A i \in 0 .. m + 1 : g[i] = IF i <= m THEN f[i] ELSE Value(f, m + 1)
      BY Zenon
    <2>4. g = [i \in 0 .. m + 1 |-> g[i]]
      BY Zenon
    <2> HIDE DEF g
    <2>5. \A i \in 0 .. m : i <= m /\ i \in 0 .. m + 1 /\ (i # 0 => i - 1 \in 0 .. m /\ i - 1 <= m)
      OBVIOUS
    <2>6. ASSUME NEW i \in 0 .. m + 1 PROVE i - 1 \in 0 .. m => g[i - 1] = f[i - 1]
      BY <2>3, <2>5, Zenon
    <2>7. ASSUME NEW i \in 0 .. m + 1 PROVE g[i] = Value(g, i)
      <3>1. i = 0 \/ i - 1 \in 0 .. m
        OBVIOUS
      <3>2. Value(g, i) = Value(f, i)
        <4>1. CASE i = 0
          BY <4>1, Zenon DEF Value
        <4>2. CASE i - 1 \in 0 .. m
          <5>1. g[i - 1] = f[i - 1]
            BY <4>2, <2>6, Zenon
          <5> QED
            BY <5>1, Zenon DEF Value
        <4> QED
          BY <3>1, <4>1, <4>2
      <3>3. i \in 0 .. m \/ (i = m + 1 /\ ~(i <= m))
        OBVIOUS
      <3> QED
        BY <2>2, <2>3, <2>5, <3>2, <3>3, Zenon
    <2>8. Upto(g, m + 1)
      BY <2>4, <2>7, Zenon
    <2>9. m + 1 \in Nat
      OBVIOUS
    <2> QED
      BY <2>8, <2>9, Zenon
  <1>3. \E f : Upto(f, n)
    <2> HIDE DEF Reached
    <2>1. n \in Reached
      BY <1>1, <1>2, Induction, Zenon
    <2> QED
      BY <2>1 DEF Reached
  <1> DEFINE after == CHOOSE f : Upto(f, n)
  <1>4. Upto(after, n)
    BY <1>3, Zenon
  <1>5. LogLines(base, s) = after[n]
    BY DEF LogLines
  <1> HIDE DEF after
  <1>6. \A i \in 0 .. n : after[i] = Value(after, i)
    BY <1>4
  <1>7. 0 \in 0 .. n /\ \A i \in 1 .. n : i \in 0 .. n /\ i # 0
    OBVIOUS
  <1>8. after[0] = base /\ \A i \in 1 .. n : after[i] = LogLine(after[i - 1], s[i])
    BY <1>6, <1>7, Zenon
  <1> QED
    BY <1>5, <1>8, Zenon

\* Glyphs are requested one by one.
LEMMA AllRequested ==
  ASSUME NEW base, NEW s, NEW n \in Nat, Len(s) = n
  PROVE  \E f : /\ Requested(base, s) = f[n]
                /\ f[0] = base
                /\ \A i \in 1 .. n : f[i] = get_raster(f[i - 1], s[i])
  <1> DEFINE Value(f, i) == IF i = 0 THEN base ELSE get_raster(f[i - 1], s[i])
             Upto(f, m) == f = [i \in 0 .. m |-> Value(f, i)]
             Reached == {m \in Nat : \E f : Upto(f, m)}
  <1>1. 0 \in Reached
    <2> DEFINE f == [i \in 0 .. 0 |-> base]
    <2>1. f[0] = base /\ \A i \in 0 .. 0 : i = 0
      OBVIOUS
    <2>2. f = [i \in 0 .. 0 |-> Value(f, i)]
      BY <2>1, Zenon
    <2> QED
      BY <2>2
  <1>2. ASSUME NEW m \in Nat \cap Reached PROVE m + 1 \in Reached
    <2>1. PICK f : Upto(f, m)
      OBVIOUS
    <2> DEFINE g == [i \in 0 .. m + 1 |-> IF i <= m THEN f[i] ELSE Value(f, m + 1)]
    <2> HIDE DEF Value
    <2>2. \A i \in 0 .. m : f[i] = Value(f, i)
      BY <2>1, Zenon
    <2>3. \A i \in 0 .. m + 1 : g[i] = IF i <= m THEN f[i] ELSE Value(f, m + 1)
      BY Zenon
    <2>4. g = [i \in 0 .. m + 1 |-> g[i]]
      BY Zenon
    <2> HIDE DEF g
    <2>5. \A i \in 0 .. m : i <= m /\ i \in 0 .. m + 1 /\ (i # 0 => i - 1 \in 0 .. m /\ i - 1 <= m)
      OBVIOUS
    <2>6. ASSUME NEW i \in 0 .. m + 1 PROVE i - 1 \in 0 .. m => g[i - 1] = f[i - 1]
      BY <2>3, <2>5, Zenon
    <2>7. ASSUME NEW i \in 0 .. m + 1 PROVE g[i] = Value(g, i)
      <3>1. i = 0 \/ i - 1 \in 0 .. m
        OBVIOUS
      <3>2. Value(g, i) = Value(f, i)
        <4>1. CASE i = 0
          BY <4>1, Zenon DEF Value
        <4>2. CASE i - 1 \in 0 .. m
          <5>1. g[i - 1] = f[i - 1]
            BY <4>2, <2>6, Zenon
          <5> QED
            BY <5>1, Zenon DEF Value
        <4> QED
          BY <3>1, <4>1, <4>2
      <3>3. i \in 0 .. m \/ (i = m + 1 /\ ~(i <= m))
        OBVIOUS
      <3> QED
        BY <2>2, <2>3, <2>5, <3>2, <3>3, Zenon
    <2>8. Upto(g, m + 1)
      BY <2>4, <2>7, Zenon
    <2>9. m + 1 \in Nat
      OBVIOUS
    <2> QED
      BY <2>8, <2>9, Zenon
  <1>3. \E f : Upto(f, n)
    <2> HIDE DEF Reached
    <2>1. n \in Reached
      BY <1>1, <1>2, Induction, Zenon
    <2> QED
      BY <2>1 DEF Reached
  <1> DEFINE after == CHOOSE f : Upto(f, n)
  <1>4. Upto(after, n)
    BY <1>3, Zenon
  <1>5. Requested(base, s) = after[n]
    BY DEF Requested
  <1> HIDE DEF after
  <1>6. \A i \in 0 .. n : after[i] = Value(after, i)
    BY <1>4
  <1>7. 0 \in 0 .. n /\ \A i \in 1 .. n : i \in 0 .. n /\ i # 0
    OBVIOUS
  <1>8. after[0] = base /\ \A i \in 1 .. n : after[i] = get_raster(after[i - 1], s[i])
    BY <1>6, <1>7, Zenon
  <1> QED
    BY <1>5, <1>8, Zenon

\* FlattenSeq is what its recursive definition says.
LEMMA Flattened ==
  ASSUME NEW s, NEW n \in Nat \ {0}, Len(s) = n
  PROVE  \E f : /\ FlattenSeq(s) = f[n]
                /\ f[1] = s[1]
                /\ \A i \in 2 .. n : f[i] = f[i - 1] \o s[i]
  <1> DEFINE Value(f, i) == IF i = 1 THEN s[i] ELSE f[i - 1] \o s[i]
             Upto(f, m) == f = [i \in 1 .. m |-> Value(f, i)]
             Flattenable == {m \in Nat : \E f : Upto(f, m)}
  <1>1. 0 \in Flattenable
    <2> DEFINE f == [i \in 1 .. 0 |-> s[1]]
    <2>1. Upto(f, 0)
      OBVIOUS
    <2> QED
      BY <2>1
  <1>2. ASSUME NEW m \in Nat \cap Flattenable PROVE m + 1 \in Flattenable
    <2>1. PICK f : Upto(f, m)
      OBVIOUS
    <2> DEFINE g == [i \in 1 .. m + 1 |-> IF i <= m THEN f[i] ELSE Value(f, m + 1)]
    <2>2. \A i \in 1 .. m : f[i] = Value(f, i)
      BY <2>1
    <2>3. \A i \in 1 .. m : g[i] = Value(g, i)
      BY <2>2
    <2>4. g[m + 1] = Value(g, m + 1)
      OBVIOUS
    <2>5. \A i \in 1 .. m + 1 : g[i] = Value(g, i)
      <3>1. \A i \in 1 .. m + 1 : i \in 1 .. m \/ i = m + 1
        OBVIOUS
      <3> QED
        BY <2>3, <2>4, <3>1, Zenon
    <2>6. g = [i \in 1 .. m + 1 |-> g[i]]
      BY Zenon
    <2> HIDE DEF g
    <2>7. Upto(g, m + 1)
      BY <2>5, <2>6
    <2>8. m + 1 \in Nat
      OBVIOUS
    <2> QED
      BY <2>7, <2>8, Zenon
  <1>3. \E f : Upto(f, n)
    <2> HIDE DEF Flattenable
    <2>1. n \in Flattenable
      BY <1>1, <1>2, Induction, Zenon
    <2> QED
      BY <2>1 DEF Flattenable
  <1> DEFINE flatten == CHOOSE f : Upto(f, n)
  <1>4. Upto(flatten, n)
    BY <1>3, Zenon
  <1>5. FlattenSeq(s) = flatten[n]
    BY DEF FlattenSeq
  <1> HIDE DEF flatten
  <1>6. \A i \in 1 .. n : flatten[i] = Value(flatten, i)
    BY <1>4
  <1>7. 1 \in 1 .. n /\ \A i \in 2 .. n : i \in 1 .. n /\ i # 1
    OBVIOUS
  <1>8. flatten[1] = s[1] /\ \A i \in 2 .. n : flatten[i] = flatten[i - 1] \o s[i]
    BY <1>6, <1>7, Zenon
  <1> QED
    BY <1>5, <1>8, Zenon

\* What FlattenSeq makes of no sequence, of one more at the end, and of one.
LEMMA FlattenNone == FlattenSeq(<<>>) = <<>>
  BY DEF FlattenSeq

LEMMA FlattenAppend ==
  ASSUME NEW X, NEW s \in Seq(Seq(X)), NEW t \in Seq(X)
  PROVE  /\ FlattenSeq(s) \in Seq(X)
         /\ FlattenSeq(Append(s, t)) = FlattenSeq(s) \o t
  <1> DEFINE n == Len(s)
             u == Append(s, t)
  <1>1. /\ n \in Nat /\ Len(u) = n + 1 /\ u[n + 1] = t
        /\ \A i \in 1 .. n : u[i] = s[i] /\ s[i] \in Seq(X)
    BY AppendProperties
  <1>2. PICK g : /\ FlattenSeq(u) = g[n + 1]
                 /\ g[1] = u[1]
                 /\ \A i \in 2 .. n + 1 : g[i] = g[i - 1] \o u[i]
    <2>1. n + 1 \in Nat \ {0} /\ Len(u) = n + 1
      BY <1>1
    <2> HIDE DEF n, u
    <2> QED
      BY <2>1, Flattened
  <1>3. CASE n = 0
    <2>1. s = <<>> /\ <<>> \in Seq(X)
      BY <1>3
    <2>2. g[n + 1] = t
      BY <1>1, <1>2, <1>3
    <2>3. <<>> \o t = t
      BY ConcatEmptySeq
    <2> QED
      BY <1>2, <2>1, <2>2, <2>3, FlattenNone
  <1>4. CASE n # 0
    <2>1. PICK f : /\ FlattenSeq(s) = f[n]
                   /\ f[1] = s[1]
                   /\ \A i \in 2 .. n : f[i] = f[i - 1] \o s[i]
      <3>1. n \in Nat \ {0} /\ Len(s) = n
        BY <1>1, <1>4
      <3> HIDE DEF n
      <3> QED
        BY <3>1, Flattened
    <2> DEFINE Same == {i \in Nat : i \in 1 .. n => f[i] = g[i] /\ f[i] \in Seq(X)}
    <2> HIDE DEF n, u
    <2>2. 0 \in Same
      OBVIOUS
    <2>3. ASSUME NEW i \in Nat \cap Same PROVE i + 1 \in Same
      <3>1. CASE i = 0
        <4>1. 1 \in 1 .. n
          BY <1>1, <1>4
        <4>2. f[1] = g[1] /\ f[1] \in Seq(X)
          BY <1>1, <1>2, <2>1, <4>1
        <4> QED
          BY <3>1, <4>2
      <3>2. CASE i + 1 \in 2 .. n
        <4>1. i \in 1 .. n /\ i + 1 \in 1 .. n /\ i + 1 \in 2 .. n + 1 /\ (i + 1) - 1 = i
          BY <1>1, <3>2
        <4>2. f[i] = g[i] /\ f[i] \in Seq(X)
          BY <4>1
        <4>3. f[i + 1] = f[i] \o s[i + 1] /\ g[i + 1] = g[i] \o u[i + 1]
          BY <1>2, <2>1, <3>2, <4>1
        <4>4. f[i + 1] = g[i + 1] /\ f[i + 1] \in Seq(X)
          <5>1. s[i + 1] \in Seq(X) /\ u[i + 1] = s[i + 1]
            BY <1>1, <4>1
          <5>2. f[i] \o s[i + 1] \in Seq(X)
            BY <4>2, <5>1, ConcatProperties
          <5> QED
            BY <4>2, <4>3, <5>1, <5>2
        <4> QED
          BY <4>4
      <3> QED
        BY <1>1, <3>1, <3>2
    <2>4. n \in Same
      <3> HIDE DEF Same
      <3> QED
        BY <1>1, <2>2, <2>3, Induction, Zenon
    <2>5. f[n] = g[n] /\ f[n] \in Seq(X)
      BY <1>1, <1>4, <2>4
    <2>6. g[n + 1] = g[n] \o t
      <3>1. n + 1 \in 2 .. n + 1 /\ (n + 1) - 1 = n
        BY <1>1, <1>4
      <3> QED
        BY <1>1, <1>2, <3>1
    <2>7. FlattenSeq(u) = FlattenSeq(s) \o t /\ FlattenSeq(s) \in Seq(X)
      BY <1>2, <2>1, <2>5, <2>6
    <2> QED
      BY <2>7 DEF u
  <1> QED
    BY <1>3, <1>4

LEMMA FlattenOne == ASSUME NEW X, NEW t \in Seq(X) PROVE FlattenSeq(<<t>>) = t
  <1>1. <<>> \in Seq(Seq(X)) /\ <<t>> = Append(<<>>, t)
    OBVIOUS
  <1>2. <<>> \o t = t
    BY ConcatEmptySeq
  <1> QED
    BY <1>1, <1>2, FlattenAppend, FlattenNone

\* The part before the last of several.
LEMMA FlattenLast ==
  ASSUME NEW X, NEW s \in Seq(Seq(X)), s # <<>>
  PROVE  /\ Front(s) \in Seq(Seq(X)) /\ Last(s) \in Seq(X)
         /\ s = Append(Front(s), Last(s))
         /\ FlattenSeq(Front(s)) \in Seq(X)
         /\ FlattenSeq(s) = FlattenSeq(Front(s)) \o Last(s)
  <1>1. PICK f \in Seq(Seq(X)), t \in Seq(X) : s = Append(f, t)
    BY SequenceEmptyOrAppend
  <1>2. Len(s) = Len(f) + 1 /\ Last(s) = t
    BY <1>1, AppendProperties DEF Last
  <1>3. Front(s) = f
    <2>1. Front(s) = SubSeq(s, 1, Len(f))
      BY <1>2 DEF Front
    <2>2. Len(f) \in Nat /\ s \in Seq(Seq(X))
      BY <1>1
    <2>3. \A i \in 1 .. Len(f) : s[i] = f[i] /\ s[i] \in Seq(X)
      BY <1>1, AppendProperties
    <2>4. /\ SubSeq(s, 1, Len(f)) \in Seq(Seq(X)) /\ Len(SubSeq(s, 1, Len(f))) = Len(f)
          /\ \A i \in 1 .. Len(f) : SubSeq(s, 1, Len(f))[i] = f[i]
      BY <2>2, <2>3, SubSeqProperties
    <2> QED
      BY <2>1, <2>4, SeqEqual
  <1> QED
    BY <1>1, <1>2, <1>3, FlattenAppend

-----------------------------------------------------------------------------
(* Wrapping: a line of len glyphs, k of which fit.                         *)

LEMMA Times ==
  ASSUME NEW k \in Nat \ {0}
  PROVE  \A a, b \in Int :
           /\ a * k \in Int /\ (a + 1) * k = a * k + k /\ (a - 1) * k = a * k - k
           /\ 0 * k = 0 /\ 1 * k = k
           /\ a <= b <=> a * k <= b * k
           /\ a < b <=> a * k < b * k
  <1>1. \A a, b \in Int : a * k \in Int /\ (a + 1) * k = a * k + k /\ (a - 1) * k = a * k - k
    OBVIOUS
  <1>2. \A a \in Nat : a * k >= 0 /\ (a > 0 => a * k > 0)
    OBVIOUS
  <1>3. \A a, b \in Int : (b - a) * k = b * k - a * k
    OBVIOUS
  <1>4. ASSUME NEW a \in Int, NEW b \in Int
        PROVE  (a <= b => a * k <= b * k) /\ (a < b => a * k < b * k)
    <2>1. CASE a <= b
      <3>1. b - a \in Nat /\ (a < b => b - a > 0)
        BY <2>1
      <3>2. (b - a) * k >= 0 /\ (a < b => (b - a) * k > 0)
        BY <1>2, <3>1
      <3> QED
        BY <1>1, <1>3, <3>2
    <2> QED
      BY <2>1
  <1> QED
    BY <1>1, <1>4

Pieces(len, k) == Larger(1, (len + k - 1) \div k)

\* The number of visual lines of a logical line, without its division.
LEMMA PiecesAre ==
  ASSUME NEW len \in Nat, NEW k \in Nat \ {0}
  PROVE  \A m \in Nat \ {0} :
           m = Pieces(len, k) <=>
             len <= m * k /\ (m - 1) * k <= len /\ (len > 0 => (m - 1) * k < len) /\ (len = 0 => m = 1)
  <1> DEFINE q == (len + k - 1) \div k
  <1>1. q \in Int /\ q * k <= len + k - 1 /\ len + k - 1 < q * k + k
    OBVIOUS
  <1>2. Pieces(len, k) = Larger(1, q)
    BY DEF Pieces
  <1> HIDE DEF q
  <1>3. q * k \in Int /\ 0 * k = 0 /\ (q + 1) * k = q * k + k /\ (q - 1) * k = q * k - k
    BY <1>1, Times
  <1>4. CASE len = 0
    <2>1. q < 1
      <3>1. q * k < 1 * k
        BY <1>1, <1>4
      <3> QED
        BY <1>1, <3>1, Times
    <2>2. Pieces(len, k) = 1
      BY <1>1, <1>2, <2>1 DEF Larger
    <2>3. 1 * k = k /\ (1 - 1) * k = 0
      OBVIOUS
    <2> QED
      BY <1>4, <2>2, <2>3
  <1>5. CASE len > 0
    <2>1. q >= 1
      <3>1. (q + 1) * k > 1 * k
        BY <1>1, <1>3, <1>5
      <3>2. q + 1 > 1
        BY <1>1, <3>1, Times
      <3> QED
        BY <1>1, <3>2
    <2>2. Pieces(len, k) = q
      BY <1>1, <1>2, <2>1 DEF Larger
    <2>3. len <= q * k /\ (q - 1) * k < len
      BY <1>1, <1>3
    <2>4. ASSUME NEW m \in Nat \ {0}, len <= m * k, (m - 1) * k < len
          PROVE  m = q
      <3>1. (m - 1) * k < q * k /\ (q - 1) * k < m * k
        BY <1>1, <1>3, <2>3, <2>4, Times
      <3>2. m - 1 < q /\ q - 1 < m
        BY <1>1, <3>1, Times
      <3> QED
        BY <1>1, <3>2
    <2> QED
      BY <1>1, <1>3, <1>5, <2>1, <2>2, <2>3, <2>4
  <1> QED
    BY <1>4, <1>5

LEMMA PiecesType == ASSUME NEW len \in Nat, NEW k \in Nat \ {0} PROVE Pieces(len, k) \in Nat \ {0}
  <1>1. (len + k - 1) \div k \in Int
    OBVIOUS
  <1> QED
    BY <1>1 DEF Pieces, Larger

VisualLine == [line_idx : Nat, start : Nat, end : Nat]

CutOf(n, len, k) ==
  [i \in 1 .. Pieces(len, k) |->
     [line_idx |-> n, start |-> (i - 1) * k, end |-> Smaller(i * k, len)]]

\* A line that is cut ends with its last glyph, and its last part is not too long.
LEMMA CutEnds ==
  ASSUME NEW n \in Nat, NEW len \in Nat, NEW k \in Nat \ {0}
  PROVE  LET c == CutOf(n, len, k)
             m == Pieces(len, k)
         IN /\ c \in Seq(VisualLine) /\ Len(c) = m /\ m \in Nat \ {0} /\ (m - 1) * k \in Nat
            /\ c[m] = [line_idx |-> n, start |-> (m - 1) * k, end |-> len]
            /\ \A i \in 1 .. m - 1 :
                 c[i] = [line_idx |-> n, start |-> (i - 1) * k, end |-> i * k]
            /\ len - (m - 1) * k \in 0 .. k
  <1> DEFINE m == Pieces(len, k)
  <1>1. m \in Nat \ {0} /\ len <= m * k /\ (m - 1) * k <= len
    BY PiecesAre, PiecesType
  <1> HIDE DEF m
  <1>2. m * k \in Int /\ (m - 1) * k = m * k - k
    BY <1>1, Times
  <1>3. Smaller(m * k, len) = len
    BY <1>1, <1>2 DEF Smaller
  <1>4. (m - 1) * k \in Nat
    <2>1. 0 <= m - 1 /\ m - 1 \in Int
      BY <1>1
    <2>2. 0 * k <= (m - 1) * k /\ 0 * k = 0 /\ (m - 1) * k \in Int
      BY <2>1, Times
    <2> QED
      BY <2>2
  <1>5. ASSUME NEW i \in 1 .. m
        PROVE  /\ (i - 1) * k \in Nat /\ i * k \in Nat
               /\ i # m => Smaller(i * k, len) = i * k
               /\ Smaller(i * k, len) \in Nat
    <2>1. i \in Int /\ i - 1 \in Int /\ 0 <= i - 1 /\ 0 <= i /\ (i # m => i <= m - 1)
      BY <1>1
    <2>2. 0 * k = 0 /\ 0 * k <= (i - 1) * k /\ 0 * k <= i * k /\ (i - 1) * k \in Int /\ i * k \in Int
      BY <2>1, Times
    <2>3. i # m => i * k <= (m - 1) * k
      BY <1>1, <2>1, Times
    <2> QED
      BY <1>1, <1>4, <2>2, <2>3 DEF Smaller
  <1>6. CutOf(n, len, k) =
          [i \in 1 .. m |-> [line_idx |-> n, start |-> (i - 1) * k, end |-> Smaller(i * k, len)]]
    BY DEF CutOf, m
  <1>7. \A i \in 1 .. m :
          [line_idx |-> n, start |-> (i - 1) * k, end |-> Smaller(i * k, len)] \in VisualLine
    BY <1>5 DEF VisualLine
  <1>8. CutOf(n, len, k) \in Seq(VisualLine) /\ Len(CutOf(n, len, k)) = m
    <2>1. CutOf(n, len, k) \in [1 .. m -> VisualLine]
      BY <1>6, <1>7, Zenon
    <2> HIDE DEF CutOf
    <2> QED
      BY <1>1, <2>1
  <1>9. CutOf(n, len, k)[m] = [line_idx |-> n, start |-> (m - 1) * k, end |-> len]
    BY <1>1, <1>3, <1>6
  <1>10. \A i \in 1 .. m - 1 :
           CutOf(n, len, k)[i] = [line_idx |-> n, start |-> (i - 1) * k, end |-> i * k]
    <2>1. \A i \in 1 .. m - 1 : i \in 1 .. m /\ i # m
      BY <1>1
    <2> QED
      BY <1>5, <1>6, <2>1
  <1>11. len - (m - 1) * k \in 0 .. k
    BY <1>1, <1>2, <1>4
  <1> QED
    BY <1>1, <1>4, <1>8, <1>9, <1>10, <1>11 DEF m

\* The same, of the last part alone: it starts where len glyphs leave 0 to k for it.
EndsAt(c, n, len, k) ==
  LET m == Len(c) IN
  /\ m \in Nat \ {0} /\ c[m].start \in Nat /\ len - c[m].start \in 0 .. k
  /\ c[m] = [line_idx |-> n, start |-> c[m].start, end |-> len]

\* The last visual line of a cut ends where the logical line does.
LEMMA CutEnd ==
  ASSUME NEW n \in Nat, NEW len \in Nat, NEW k \in Nat \ {0}
  PROVE  EndsAt(CutOf(n, len, k), n, len, k)
  <1> DEFINE p == Pieces(len, k)
             s == (p - 1) * k
             c == CutOf(n, len, k)
  <1>1. /\ Len(c) = p /\ p \in Nat \ {0} /\ s \in Nat
        /\ c[p] = [line_idx |-> n, start |-> s, end |-> len]
        /\ len - s \in 0 .. k
    BY CutEnds
  <1> HIDE DEF p, s, c
  <1>2. EndsAt(c, n, len, k)
    BY <1>1 DEF EndsAt
  <1> QED
    BY <1>2 DEF c

\* A cut is a sequence of visual lines, never an empty one.
LEMMA CutType ==
  ASSUME NEW n \in Nat, NEW len \in Nat, NEW k \in Nat \ {0}
  PROVE  /\ CutOf(n, len, k) \in Seq(VisualLine) /\ CutOf(n, len, k) # <<>>
         /\ Len(CutOf(n, len, k)) = Pieces(len, k)
  <1>1. /\ CutOf(n, len, k) \in Seq(VisualLine) /\ Len(CutOf(n, len, k)) = Pieces(len, k)
        /\ Pieces(len, k) \in Nat \ {0}
    BY CutEnds, ZenonT(60)
  <1> QED
    BY <1>1

\* One glyph more makes the last part longer, or is a part of its own.
LEMMA CutGrows ==
  ASSUME NEW n \in Nat, NEW len \in Nat, NEW k \in Nat \ {0}
  PROVE  LET c == CutOf(n, len, k)
             d == CutOf(n, len + 1, k)
             m == Len(c)
         IN /\ len - c[m].start = k =>
                 d = Append(c, [line_idx |-> n, start |-> len, end |-> len + 1])
            /\ len - c[m].start # k => d = [c EXCEPT ![m].end = @ + 1]
  <1> DEFINE c == CutOf(n, len, k)
             d == CutOf(n, len + 1, k)
             m == Pieces(len, k)
             last == [line_idx |-> n, start |-> len, end |-> len + 1]
             grown == [c EXCEPT ![m].end = @ + 1]
  <1>1. /\ c \in Seq(VisualLine) /\ Len(c) = m /\ m \in Nat \ {0} /\ (m - 1) * k \in Nat
        /\ c[m] = [line_idx |-> n, start |-> (m - 1) * k, end |-> len]
        /\ \A i \in 1 .. m - 1 :
             c[i] = [line_idx |-> n, start |-> (i - 1) * k, end |-> i * k]
        /\ len - (m - 1) * k \in 0 .. k
    BY CutEnds
  <1>2. /\ len <= m * k /\ (m - 1) * k <= len
    BY <1>1, PiecesAre
  <1>3. /\ d \in Seq(VisualLine) /\ Len(d) = Pieces(len + 1, k)
        /\ LET p == Pieces(len + 1, k) IN
           /\ d[p] = [line_idx |-> n, start |-> (p - 1) * k, end |-> len + 1]
           /\ \A i \in 1 .. p - 1 :
                d[i] = [line_idx |-> n, start |-> (i - 1) * k, end |-> i * k]
    BY CutEnds
  <1> HIDE DEF c, d, m, grown
  <1>4. m * k \in Int /\ (m - 1) * k = m * k - k /\ (m + 1) * k = m * k + k /\ (m + 1) - 1 = m
    BY <1>1, Times
  <1>5. ASSUME len - (m - 1) * k = k PROVE d = Append(c, last)
    <2>1. len = m * k
      BY <1>4, <1>5
    <2>2. Pieces(len + 1, k) = m + 1
      <3>1. m + 1 \in Nat \ {0} /\ len + 1 \in Nat /\ len + 1 # 0
        BY <1>1
      <3>2. len + 1 <= (m + 1) * k /\ ((m + 1) - 1) * k < len + 1 /\ ((m + 1) - 1) * k <= len + 1
        BY <1>4, <2>1
      <3> QED
        BY <3>1, <3>2, PiecesAre
    <2>3. last \in VisualLine
      BY DEF VisualLine
    <2>4. /\ Append(c, last) \in Seq(VisualLine) /\ Len(Append(c, last)) = m + 1
          /\ \A i \in 1 .. m : Append(c, last)[i] = c[i]
          /\ Append(c, last)[m + 1] = last
      BY <1>1, <2>3, AppendProperties
    <2>5. d[m + 1] = last
      BY <1>3, <1>4, <2>1, <2>2
    <2>6. ASSUME NEW i \in 1 .. m PROVE d[i] = c[i]
      <3>1. d[i] = [line_idx |-> n, start |-> (i - 1) * k, end |-> i * k]
        BY <1>1, <1>3, <1>4, <2>2
      <3>2. CASE i = m
        BY <1>1, <2>1, <3>1, <3>2
      <3>3. CASE i \in 1 .. m - 1
        BY <1>1, <3>1, <3>3
      <3> QED
        BY <1>1, <3>2, <3>3
    <2>7. \A i \in 1 .. m + 1 : i \in 1 .. m \/ i = m + 1
      BY <1>1
    <2>8. Len(d) = m + 1 /\ \A i \in 1 .. Len(d) : d[i] = Append(c, last)[i]
      BY <1>3, <2>2, <2>4, <2>5, <2>6, <2>7
    <2>9. d = Append(c, last)
      <3> HIDE DEF last
      <3>1. d \in Seq(VisualLine) /\ Append(c, last) \in Seq(VisualLine) /\ Len(d) = Len(Append(c, last))
        BY <1>3, <2>4, <2>8
      <3> QED
        BY <2>8, <3>1, SeqEqual, Zenon
    <2> QED
      BY <2>9
  <1>6. ASSUME len - (m - 1) * k # k PROVE d = grown
    <2>1. len < m * k
      BY <1>1, <1>4, <1>6
    <2>2. Pieces(len + 1, k) = m
      <3>1. len + 1 \in Nat /\ len + 1 # 0
        OBVIOUS
      <3>2. len + 1 <= m * k /\ (m - 1) * k < len + 1 /\ (m - 1) * k <= len + 1
        BY <1>1, <1>2, <1>4, <2>1
      <3> QED
        BY <1>1, <3>1, <3>2, PiecesAre
    <2>3. m \in 1 .. Len(c) /\ [c[m] EXCEPT !.end = @ + 1] \in VisualLine
      <3>1. m \in 1 .. Len(c) /\ c[m] \in VisualLine
        BY <1>1
      <3>2. \A r \in VisualLine : [r EXCEPT !.end = @ + 1] \in VisualLine
        BY DEF VisualLine
      <3> QED
        BY <3>1, <3>2, Zenon
    <2>4. /\ grown \in Seq(VisualLine) /\ Len(grown) = m
          /\ \A i \in 1 .. m : grown[i] = IF i = m THEN [c[m] EXCEPT !.end = @ + 1] ELSE c[i]
      <3>1. grown = [c EXCEPT ![m] = [c[m] EXCEPT !.end = @ + 1]]
        BY <1>1, <2>3 DEF grown
      <3> QED
        BY <1>1, <2>3, <3>1, ExceptSeq
    <2>5. ASSUME NEW i \in 1 .. m PROVE d[i] = grown[i]
      <3>1. CASE i = m
        <4>1. \A b : [[line_idx |-> n, start |-> b, end |-> len] EXCEPT !.end = @ + 1]
                       = [line_idx |-> n, start |-> b, end |-> len + 1]
          OBVIOUS
        <4>2. [c[m] EXCEPT !.end = @ + 1] = [line_idx |-> n, start |-> (m - 1) * k, end |-> len + 1]
          BY <1>1, <4>1, Zenon
        <4> QED
          BY <1>3, <2>2, <2>4, <3>1, <4>2
      <3>2. CASE i \in 1 .. m - 1
        <4>1. i \in 1 .. m /\ i # m
          BY <1>1, <3>2
        <4>2. d[i] = [line_idx |-> n, start |-> (i - 1) * k, end |-> i * k]
          BY <1>3, <2>2, <3>2
        <4> QED
          BY <1>1, <2>4, <3>2, <4>1, <4>2, Zenon
      <3> QED
        BY <1>1, <3>1, <3>2
    <2>6. Len(d) = m /\ \A i \in 1 .. Len(d) : d[i] = grown[i]
      BY <1>3, <2>2, <2>5
    <2>7. d = grown
      <3>1. d \in Seq(VisualLine) /\ grown \in Seq(VisualLine) /\ Len(d) = Len(grown)
        BY <1>3, <2>4, <2>6
      <3> QED
        BY <2>6, <3>1, SeqEqual, Zenon
    <2> QED
      BY <2>7
  <1>7. c[m].start = (m - 1) * k
    BY <1>1
  <1> QED
    BY <1>1, <1>5, <1>6, <1>7 DEF c, d, grown

\* A line that is not cut starts with its first glyph.
LEMMA CutOnce ==
  ASSUME NEW n \in Nat, NEW len \in Nat, NEW k \in Nat \ {0}
  PROVE  Pieces(len, k) = 1 => CutOf(n, len, k)[1].start = 0
  <1> DEFINE p == Pieces(len, k)
             s == (p - 1) * k
             c == CutOf(n, len, k)
  <1>1. /\ Len(c) = p /\ p \in Nat \ {0} /\ s \in Nat
        /\ c[p] = [line_idx |-> n, start |-> s, end |-> len]
        /\ len - s \in 0 .. k
    BY CutEnds
  <1>2. p = 1 => s = 0
    <2> HIDE DEF p
    <2>1. p = 1 => p - 1 = 0
      OBVIOUS
    <2> QED
      BY <2>1
  <1> HIDE DEF c, s, p
  <1>3. p = 1 => c[1].start = 0
    BY <1>1, <1>2
  <1> QED
    BY <1>3 DEF c, p

-----------------------------------------------------------------------------
(* A text box.                                                             *)

Byte == Printable \cup Colors \cup Dropped \cup {ESC, LEADER, BEL, NL}
Glyph == [b : Printable, color : Colors]
Box ==
  [size : [x : Nat, y : Nat], buffer : Seq(Seq(Glyph)), visual_lines : Seq(VisualLine),
   scroll_offset : Nat, cursor_x : Nat, cursor_idx : Int,
   state : {"Text", "Escape", "Command"}, color_text : Colors, cmd_buffer : Seq(Byte)]

\* The text is wrapped, in a box with room for a glyph, and the next one goes where
\* the last visual line ends.
Laid(tb) ==
  /\ tb \in Box /\ tb.buffer # <<>> /\ tb.visual_lines # <<>>
  /\ tb.size.x >= 3 * PADDING + ADVANCE
  /\ IsWrapped(tb)
  /\ LET last == Last(tb.visual_lines) IN tb.cursor_x = PADDING + (last.end - last.start) * ADVANCE

\* What pushing text leaves as it is.
Rest(tb) == <<tb.size, tb.scroll_offset, tb.cursor_idx, tb.state, tb.color_text, tb.cmd_buffer>>

\* How many glyphs fit in a line.
LEMMA Fit ==
  ASSUME NEW tb, tb.size.x \in Nat, tb.size.x >= 3 * PADDING + ADVANCE
  PROVE  /\ PerLine(tb) \in Nat \ {0}
         /\ \A c \in Nat : (PADDING + c * ADVANCE) + ADVANCE > LineEnd(tb) <=> c >= PerLine(tb)
  <1> DEFINE W == LineEnd(tb) - PADDING
             k == PerLine(tb)
  <1>1. W \in Int /\ W >= ADVANCE /\ PADDING \in Nat /\ ADVANCE \in Nat \ {0}
        /\ LineEnd(tb) = W + PADDING
    BY TextBoxAssumption DEF LineEnd
  <1>2. k = W \div ADVANCE
    BY DEF PerLine
  <1> HIDE DEF W
  <1>3. k \in Int /\ k * ADVANCE <= W /\ W < k * ADVANCE + ADVANCE
    BY <1>1, <1>2
  <1> HIDE DEF k
  <1>4. k > 0
    <2>1. 1 * ADVANCE < (k + 1) * ADVANCE
      BY <1>1, <1>3, Times
    <2> QED
      BY <1>1, <1>3, <2>1, Times
  <1>5. ASSUME NEW c \in Nat
        PROVE  (PADDING + c * ADVANCE) + ADVANCE > LineEnd(tb) <=> c >= k
    <2>1. c * ADVANCE \in Int /\ (c + 1) * ADVANCE = c * ADVANCE + ADVANCE
          /\ k * ADVANCE \in Int /\ (k + 1) * ADVANCE = k * ADVANCE + ADVANCE
      BY <1>1, <1>3, Times
    <2>2. CASE c >= k
      <3>1. k * ADVANCE <= c * ADVANCE
        BY <1>1, <1>3, <2>2, Times
      <3> QED
        BY <1>1, <1>3, <2>1, <2>2, <3>1
    <2>3. CASE c < k
      <3>1. (c + 1) * ADVANCE <= k * ADVANCE
        BY <1>1, <1>3, <2>3, Times
      <3> QED
        BY <1>1, <1>3, <2>1, <2>3, <3>1
    <2> QED
      BY <1>3, <2>2, <2>3
  <1> QED
    BY <1>3, <1>4, <1>5 DEF k

\* A cut of a box depends on the length of the logical line and of the panel.
LEMMA CutIs == \A tb, n : Cut(tb, n) = CutOf(n, Len(tb.buffer[n]), PerLine(tb))
  BY DEF Cut, CutOf, Pieces

\* The cuts of a box, and what they are when its last line has changed.
LEMMA LastChanged ==
  ASSUME NEW X, NEW s \in Seq(Seq(X)), s # <<>>, NEW d \in Seq(X)
  PROVE  FlattenSeq([s EXCEPT ![Len(s)] = d]) = FlattenSeq(Front(s)) \o d
  <1> DEFINE t == [s EXCEPT ![Len(s)] = d]
             u == Append(Front(s), d)
  <1>1. /\ Front(s) \in Seq(Seq(X)) /\ Last(s) \in Seq(X) /\ s = Append(Front(s), Last(s))
    BY FlattenLast
  <1> HIDE DEF Front, Last
  <1>2. Len(s) = Len(Front(s)) + 1 /\ Len(Front(s)) \in Nat
        /\ \A i \in 1 .. Len(Front(s)) : s[i] = Front(s)[i]
    <2> DEFINE f == Front(s)
               r == Append(f, Last(s))
    <2> HIDE DEF f
    <2>1. f \in Seq(Seq(X))
      BY <1>1 DEF f
    <2>2. Len(r) = Len(f) + 1 /\ Len(f) \in Nat /\ \A i \in 1 .. Len(f) : r[i] = f[i]
      BY <1>1, <2>1, AppendProperties
    <2>3. s = r
      BY <1>1 DEF f
    <2> HIDE DEF r
    <2> QED
      BY <2>2, <2>3 DEF f
  <1>3. t \in Seq(Seq(X)) /\ Len(t) = Len(s)
        /\ \A j \in 1 .. Len(s) : t[j] = IF j = Len(s) THEN d ELSE s[j]
    BY <1>2, ExceptSeq
  <1>4. u \in Seq(Seq(X)) /\ Len(u) = Len(Front(s)) + 1 /\ u[Len(Front(s)) + 1] = d
        /\ \A i \in 1 .. Len(Front(s)) : u[i] = Front(s)[i]
    BY <1>1, AppendProperties
  <1> HIDE DEF t, u
  <1>5. ASSUME NEW i \in 1 .. Len(t) PROVE t[i] = u[i]
    <2>1. i \in 1 .. Len(s) /\ (i = Len(s) \/ (i # Len(s) /\ i \in 1 .. Len(Front(s))))
      BY <1>2, <1>3
    <2> QED
      BY <1>2, <1>3, <1>4, <2>1
  <1>6. Len(t) = Len(u)
    BY <1>2, <1>3, <1>4
  <1>7. t = u
    <2>1. t \in Seq(Seq(X)) /\ u \in Seq(Seq(X)) /\ \A i \in 1 .. Len(t) : t[i] = u[i]
      BY <1>3, <1>4, <1>5, Zenon
    <2> QED
      BY <1>6, <2>1, SeqEqual, Zenon
  <1>8. FlattenSeq(u) = FlattenSeq(Front(s)) \o d
    BY <1>1, FlattenAppend DEF u
  <1> QED
    BY <1>7, <1>8 DEF t

\* The end of two sequences put together is that of the second.
LEMMA EndOfBoth ==
  ASSUME NEW X, NEW f \in Seq(X), NEW c \in Seq(X), c # <<>>, NEW e \in X
  PROVE  /\ Len(f \o c) = Len(f) + Len(c) /\ f \o c # <<>> /\ f \o c \in Seq(X)
         /\ (f \o c)[Len(f \o c)] = c[Len(c)]
         /\ [f \o c EXCEPT ![Len(f \o c)] = e] = f \o [c EXCEPT ![Len(c)] = e]
         /\ Append(f \o c, e) = f \o Append(c, e)
  <1> DEFINE v == f \o c
             w == [v EXCEPT ![Len(v)] = e]
             d == [c EXCEPT ![Len(c)] = e]
  <1>1. /\ v \in Seq(X) /\ Len(v) = Len(f) + Len(c) /\ Len(f) \in Nat /\ Len(c) \in Nat \ {0}
        /\ \A i \in 1 .. Len(f) + Len(c) : v[i] = IF i <= Len(f) THEN f[i] ELSE c[i - Len(f)]
    BY ConcatProperties
  <1> HIDE DEF v
  <1>2. v[Len(v)] = c[Len(c)] /\ v # <<>>
    BY <1>1
  <1>3. /\ w \in Seq(X) /\ Len(w) = Len(v)
        /\ \A j \in 1 .. Len(v) : w[j] = IF j = Len(v) THEN e ELSE v[j]
    <2>1. Len(v) \in 1 .. Len(v)
      BY <1>1
    <2> QED
      BY <1>1, <2>1, ExceptSeq
  <1>4. /\ d \in Seq(X) /\ Len(d) = Len(c)
        /\ \A j \in 1 .. Len(c) : d[j] = IF j = Len(c) THEN e ELSE c[j]
    <2>1. Len(c) \in 1 .. Len(c)
      BY <1>1
    <2> QED
      BY <2>1, ExceptSeq
  <1> HIDE DEF w, d
  <1>5. /\ f \o d \in Seq(X) /\ Len(f \o d) = Len(f) + Len(d)
        /\ \A i \in 1 .. Len(f) + Len(d) : (f \o d)[i] = IF i <= Len(f) THEN f[i] ELSE d[i - Len(f)]
    BY <1>4, ConcatProperties
  <1>6. ASSUME NEW i \in 1 .. Len(w) PROVE w[i] = (f \o d)[i]
    <2>1. i \in 1 .. Len(f) + Len(c)
      BY <1>1, <1>3
    <2>2. CASE i <= Len(f)
      BY <1>1, <1>3, <1>4, <1>5, <2>1, <2>2
    <2>3. CASE i > Len(f)
      <3>1. i - Len(f) \in 1 .. Len(c) /\ (i - Len(f) = Len(c) <=> i = Len(v)) /\ ~(i <= Len(f))
        BY <1>1, <2>1, <2>3
      <3> QED
        BY <1>1, <1>3, <1>4, <1>5, <2>1, <3>1
    <2>4. i <= Len(f) \/ i > Len(f)
      BY <1>1, <2>1
    <2> QED
      BY <2>2, <2>3, <2>4
  <1>7. w = f \o d
    <2>1. Len(w) = Len(f \o d)
      BY <1>1, <1>3, <1>4, <1>5
    <2> QED
      BY <1>3, <1>5, <1>6, <2>1, SeqEqual, Zenon
  <1>8. Append(v, e) = f \o Append(c, e)
    <2>1. Append(v, e) = v \o <<e>> /\ Append(c, e) = c \o <<e>> /\ <<e>> \in Seq(X)
      BY <1>1, AppendIsConcat
    <2>2. v \o <<e>> = f \o (c \o <<e>>)
      BY <2>1, ConcatAssociative DEF v
    <2> QED
      BY <2>1, <2>2
  <1> QED
    BY <1>1, <1>2, <1>7, <1>8 DEF v, w, d

\* The cuts of all logical lines of a box, one for each.
LEMMA CutsAre ==
  ASSUME NEW tb \in Box, tb.size.x >= 3 * PADDING + ADVANCE
  PROVE  LET cuts == [n \in DOMAIN tb.buffer |-> Cut(tb, n)] IN
         /\ cuts \in Seq(Seq(VisualLine)) /\ Len(cuts) = Len(tb.buffer)
         /\ \A n \in 1 .. Len(tb.buffer) :
              cuts[n] = CutOf(n, Len(tb.buffer[n]), PerLine(tb)) /\ cuts[n] \in Seq(VisualLine)
  <1>1. tb.buffer \in Seq(Seq(Glyph)) /\ tb.size.x \in Nat
    BY DEF Box
  <1>2. PerLine(tb) \in Nat \ {0}
    BY <1>1, Fit
  <1>3. ASSUME NEW n \in 1 .. Len(tb.buffer)
        PROVE  /\ Cut(tb, n) = CutOf(n, Len(tb.buffer[n]), PerLine(tb))
               /\ Cut(tb, n) \in Seq(VisualLine)
    <2>1. n \in Nat /\ Len(tb.buffer[n]) \in Nat
      BY <1>1
    <2> QED
      BY <1>2, <2>1, CutIs, CutType
  <1>4. Len(tb.buffer) \in Nat /\ DOMAIN tb.buffer = 1 .. Len(tb.buffer)
    BY <1>1
  <1>5. [n \in DOMAIN tb.buffer |-> Cut(tb, n)] \in [1 .. Len(tb.buffer) -> Seq(VisualLine)]
    BY <1>3, <1>4, Zenon
  <1>6. \A n \in 1 .. Len(tb.buffer) : [j \in DOMAIN tb.buffer |-> Cut(tb, j)][n] = Cut(tb, n)
    BY <1>4, Zenon
  <1> HIDE DEF Cut
  <1>7. /\ [n \in DOMAIN tb.buffer |-> Cut(tb, n)] \in Seq(Seq(VisualLine))
        /\ Len([n \in DOMAIN tb.buffer |-> Cut(tb, n)]) = Len(tb.buffer)
    BY <1>4, <1>5
  <1> QED
    BY <1>3, <1>6, <1>7

\* The visual lines end with those of the last line.
LEMMA LastCut ==
  ASSUME NEW tb, Laid(tb)
  PROVE  LET n == Len(tb.buffer)
             c == CutOf(n, Len(tb.buffer[n]), PerLine(tb))
             f == FlattenSeq(Front([j \in DOMAIN tb.buffer |-> Cut(tb, j)]))
         IN /\ n \in Nat \ {0} /\ c \in Seq(VisualLine) /\ c # <<>> /\ f \in Seq(VisualLine)
            /\ tb.visual_lines = f \o c
  <1> DEFINE n == Len(tb.buffer)
             cuts == [j \in DOMAIN tb.buffer |-> Cut(tb, j)]
             c == CutOf(n, Len(tb.buffer[n]), PerLine(tb))
  <1>1. tb \in Box /\ tb.buffer \in Seq(Seq(Glyph)) /\ tb.buffer # <<>> /\ n \in Nat \ {0}
    BY DEF Laid, Box
  <1>2. /\ cuts \in Seq(Seq(VisualLine)) /\ Len(cuts) = n
        /\ \A j \in 1 .. n : cuts[j] = CutOf(j, Len(tb.buffer[j]), PerLine(tb))
                             /\ cuts[j] \in Seq(VisualLine)
    BY <1>1, CutsAre DEF Laid
  <1>3. tb.visual_lines = FlattenSeq(cuts)
    BY DEF Laid, IsWrapped
  <1>4. c # <<>>
    <2>1. PerLine(tb) \in Nat \ {0}
      BY <1>1, Fit DEF Laid, Box
    <2>2. n \in 1 .. Len(tb.buffer)
      BY <1>1
    <2> HIDE DEF n
    <2>3. Len(tb.buffer[n]) \in Nat
      BY <1>1, <2>2
    <2> QED
      BY <1>1, <2>1, <2>3, CutType
  <1> HIDE DEF cuts, n
  <1>5. cuts # <<>> /\ Last(cuts) = cuts[n] /\ n \in 1 .. n
    BY <1>1, <1>2 DEF Last
  <1>6. Last(cuts) = c /\ c \in Seq(VisualLine)
    BY <1>2, <1>5
  <1>7. FlattenSeq(cuts) = FlattenSeq(Front(cuts)) \o Last(cuts)
        /\ FlattenSeq(Front(cuts)) \in Seq(VisualLine)
    BY <1>2, <1>5, FlattenLast
  <1> QED
    BY <1>1, <1>3, <1>4, <1>6, <1>7 DEF cuts, n

\* A glyph pushed keeps the layout: update_last_line_layout puts it where wrapping the
\* whole line again would have put it.
LEMMA GlyphPushed ==
  ASSUME NEW tb, Laid(tb), NEW b \in Printable
  PROVE  LET t == PushText(tb, b) IN
         /\ Laid(t) /\ Rest(t) = Rest(tb)
         /\ t.buffer = [tb.buffer EXCEPT ![Len(tb.buffer)] =
                          Append(@, [b |-> b, color |-> tb.color_text])]
         /\ Len(t.visual_lines) \in {Len(tb.visual_lines), Len(tb.visual_lines) + 1}
  <1> DEFINE n == Len(tb.buffer)
             line == tb.buffer[n]
             len == Len(line)
             g == [b |-> b, color |-> tb.color_text]
             buf == [tb.buffer EXCEPT ![n] = Append(line, g)]
             u == [tb EXCEPT !.buffer = buf]
             v == tb.visual_lines
             k == PerLine(tb)
             c == CutOf(n, len, k)
             d == CutOf(n, len + 1, k)
             m == Len(c)
             cuts == [j \in DOMAIN tb.buffer |-> Cut(tb, j)]
             f == FlattenSeq(Front(cuts))
             t == PushText(tb, b)
  <1>1. /\ tb \in Box /\ tb.buffer \in Seq(Seq(Glyph)) /\ n \in Nat \ {0} /\ line \in Seq(Glyph)
        /\ len \in Nat /\ g \in Glyph /\ v \in Seq(VisualLine) /\ tb.size.x \in Nat
        /\ tb.cursor_x \in Nat
    BY DEF Laid, Box, Glyph
  <1>2. /\ Append(line, g) \in Seq(Glyph) /\ Len(Append(line, g)) = len + 1
    BY <1>1, AppendProperties
  <1>3. /\ buf \in Seq(Seq(Glyph)) /\ Len(buf) = n /\ buf[n] = Append(line, g) /\ buf # <<>>
        /\ \A j \in 1 .. n : j # n => buf[j] = tb.buffer[j]
    <2>1. n \in 1 .. Len(tb.buffer)
      BY <1>1
    <2>2. buf \in Seq(Seq(Glyph)) /\ Len(buf) = n
          /\ \A j \in 1 .. n : buf[j] = IF j = n THEN Append(line, g) ELSE tb.buffer[j]
      BY <1>1, <1>2, <2>1, ExceptSeq
    <2> HIDE DEF buf
    <2> QED
      BY <1>1, <2>1, <2>2
  <1>4. /\ u \in Box /\ u.buffer = buf /\ u.visual_lines = v /\ u.cursor_x = tb.cursor_x
        /\ u.size = tb.size /\ Rest(u) = Rest(tb)
    BY <1>1, <1>3 DEF Box, Rest
  <1>5. t = Layout(u)
    <2>1. [tb EXCEPT !.buffer[LastLine(tb)] = Append(@, g)] = u
      BY DEF LastLine
    <2> QED
      BY <2>1 DEF PushText
  <1>6. PADDING \in Nat /\ ADVANCE \in Nat \ {0} /\ k \in Nat \ {0}
    BY <1>1, Fit, TextBoxAssumption DEF Laid
  <1>7. /\ c \in Seq(VisualLine) /\ c # <<>> /\ f \in Seq(VisualLine) /\ v = f \o c
    BY LastCut
  <1>8. /\ m \in Nat \ {0}
        /\ c[m] = [line_idx |-> n, start |-> c[m].start, end |-> len]
        /\ c[m].start \in Nat /\ len - c[m].start \in 0 .. k
        /\ d \in Seq(VisualLine) /\ d # <<>>
    <2> HIDE DEF n, len, k
    <2>1. n \in Nat /\ len \in Nat /\ len + 1 \in Nat /\ k \in Nat \ {0}
      BY <1>1, <1>6
    <2>2. d \in Seq(VisualLine) /\ d # <<>>
      BY <2>1, CutType
    <2>3. EndsAt(c, n, len, k)
      BY <2>1, CutEnd, Zenon
    <2> HIDE DEF c, d
    <2> QED
      BY <2>2, <2>3 DEF EndsAt
  <1>9. /\ len - c[m].start = k => d = Append(c, [line_idx |-> n, start |-> len, end |-> len + 1])
        /\ len - c[m].start # k => d = [c EXCEPT ![m].end = @ + 1]
    <2> HIDE DEF n, len, k
    <2>1. n \in Nat /\ len \in Nat /\ k \in Nat \ {0}
      BY <1>1, <1>6
    <2> QED
      BY <2>1, CutGrows, ZenonT(60)
  <1> HIDE DEF c, d, f, k, len
  <1>10. /\ Len(v) = Len(f) + m /\ v # <<>> /\ v[Len(v)] = c[m]
         /\ \A e \in VisualLine : [v EXCEPT ![Len(v)] = e] = f \o [c EXCEPT ![m] = e]
                                  /\ Append(v, e) = f \o Append(c, e)
    BY <1>7, EndOfBoth
  <1> DEFINE cnt == len - c[m].start
  <1>11. cnt \in Nat /\ tb.cursor_x = PADDING + cnt * ADVANCE
    BY <1>8, <1>10 DEF Laid, Last
  <1>12. u.cursor_x + ADVANCE > LineEnd(u) <=> cnt = k
    <2>1. LineEnd(u) = LineEnd(tb)
      BY <1>4 DEF LineEnd
    <2>2. (PADDING + cnt * ADVANCE) + ADVANCE > LineEnd(tb) <=> cnt >= k
      BY <1>1, <1>11, Fit DEF Laid, k
    <2> QED
      BY <1>4, <1>6, <1>8, <1>11, <2>1, <2>2
  <1>13. Len(Last(u.buffer)) - 1 = len /\ LastLine(u) = n
    BY <1>1, <1>2, <1>3, <1>4 DEF Last, LastLine
  <1> DEFINE new == [line_idx |-> n, start |-> len, end |-> len + 1]
             longer == [v[Len(v)] EXCEPT !.end = @ + 1]
  <1>14. new \in VisualLine /\ longer \in VisualLine /\ v[Len(v)] \in VisualLine
         /\ Len(v) \in 1 .. Len(v)
    <2>1. Len(v) \in 1 .. Len(v) /\ v[Len(v)] \in VisualLine
      BY <1>1, <1>10
    <2>2. \A r \in VisualLine : [r EXCEPT !.end = @ + 1] \in VisualLine
      BY DEF VisualLine
    <2>3. new \in VisualLine
      BY <1>1 DEF VisualLine
    <2> QED
      BY <2>1, <2>2, <2>3, Zenon
  \* The new visual lines, and where the next glyph goes.
  <1> DEFINE Grown(w, x) ==
               /\ t = [u EXCEPT !.visual_lines = w, !.cursor_x = x]
               /\ w = f \o d /\ Len(w) \in {Len(v), Len(v) + 1}
               /\ x \in Nat /\ x = PADDING + (Last(w).end - Last(w).start) * ADVANCE
  <1>15. \E w, x : Grown(w, x)
    <2>1. CASE cnt = k
      <3>1. [v EXCEPT ![Len(v)].end = len] = v
        <4>1. [v[Len(v)] EXCEPT !.end = len] = v[Len(v)]
          <5>1. \A r \in VisualLine : [r EXCEPT !.end = r.end] = r
            BY DEF VisualLine
          <5>2. v[Len(v)] \in VisualLine /\ v[Len(v)].end = len
            BY <1>8, <1>10, <1>14
          <5> QED
            BY <5>1, <5>2, Zenon
        <4> HIDE DEF v
        <4> QED
          BY <1>1, <1>14, <4>1
      <3>2. t = [u EXCEPT !.visual_lines = Append(v, new), !.cursor_x = PADDING + ADVANCE]
        <4>1. t = [u EXCEPT !.visual_lines = Append([@ EXCEPT ![Len(v)].end = len], new),
                            !.cursor_x = PADDING + ADVANCE]
          BY <1>4, <1>5, <1>12, <1>13, <2>1, Zenon DEF Layout
        <4> QED
          BY <1>4, <3>1, <4>1, Zenon
      <3>3. Append(v, new) = f \o d
        BY <1>9, <1>10, <1>14, <2>1
      <3>4. Len(Append(v, new)) = Len(v) + 1 /\ Last(Append(v, new)) = new
        BY <1>1, <1>14, AppendProperties DEF Last
      <3>5. PADDING + ADVANCE = PADDING + (new.end - new.start) * ADVANCE /\ PADDING + ADVANCE \in Nat
        BY <1>1, <1>6
      <3> HIDE DEF v, new, u, t
      <3>6. Grown(Append(v, new), PADDING + ADVANCE)
        BY <3>2, <3>3, <3>4, <3>5
      <3> QED
        BY <3>6
    <2>2. CASE cnt # k
      <3> DEFINE w == [v EXCEPT ![Len(v)] = longer]
      <3>1. w = [v EXCEPT ![Len(v)].end = @ + 1]
        <4> HIDE DEF v
        <4> QED
          BY <1>14 DEF longer
      <3>2. t = [u EXCEPT !.visual_lines = w, !.cursor_x = u.cursor_x + ADVANCE]
        <4>1. t = [u EXCEPT !.visual_lines[Len(v)].end = @ + 1, !.cursor_x = u.cursor_x + ADVANCE]
          BY <1>4, <1>5, <1>12, <1>13, <2>2, Zenon DEF Layout
        <4> QED
          BY <1>4, <3>1, <4>1, Zenon
      <3>3. w = f \o d
        <4>1. [c EXCEPT ![m].end = @ + 1] = [c EXCEPT ![m] = longer]
          BY <1>7, <1>8, <1>10 DEF longer
        <4> QED
          BY <1>9, <1>10, <1>14, <2>2, <4>1
      <3>4. Len(w) = Len(v) /\ Last(w) = longer
        <4> HIDE DEF v, longer
        <4> QED
          BY <1>1, <1>14, ExceptSeq DEF Last
      <3>5. longer.start = c[m].start /\ longer.end = len + 1
        BY <1>8, <1>10, <1>14 DEF VisualLine
      <3>6. longer.end - longer.start = cnt + 1
        <4> HIDE DEF longer
        <4>1. len \in Nat /\ c[m].start \in Nat /\ longer.end - longer.start = (len + 1) - c[m].start
          BY <1>1, <1>8, <3>5 DEF VisualLine
        <4> HIDE DEF len
        <4> QED
          BY <4>1
      <3>7. (cnt + 1) * ADVANCE = cnt * ADVANCE + ADVANCE /\ cnt * ADVANCE \in Nat
        BY <1>6, <1>11
      <3>8. u.cursor_x + ADVANCE = PADDING + (longer.end - longer.start) * ADVANCE
            /\ u.cursor_x + ADVANCE \in Nat
        <4>1. (longer.end - longer.start) * ADVANCE = cnt * ADVANCE + ADVANCE
          BY <3>6, <3>7, Zenon
        <4> HIDE DEF longer, cnt
        <4> QED
          BY <1>4, <1>6, <1>11, <3>7, <4>1
      <3> HIDE DEF v, w, longer, u, t
      <3>9. Grown(w, u.cursor_x + ADVANCE)
        BY <3>2, <3>3, <3>4, <3>8
      <3> QED
        BY <3>9
    <2> QED
      BY <2>1, <2>2
  <1>16. PICK w, x : Grown(w, x)
    BY <1>15
  <1>17. w \in Seq(VisualLine) /\ w # <<>>
    BY <1>7, <1>8, <1>16, EndOfBoth
  <1>18. /\ t \in Box /\ t.buffer = buf /\ t.visual_lines = w /\ t.cursor_x = x /\ t.size = tb.size
         /\ Rest(t) = Rest(tb)
    <2> HIDE DEF u, t, buf
    <2> QED
      BY <1>4, <1>16, <1>17 DEF Box, Rest
  <1>19. IsWrapped(t)
    <2> DEFINE after == [j \in DOMAIN t.buffer |-> Cut(t, j)]
    <2>1. PerLine(t) = k
      BY <1>18 DEF PerLine, LineEnd, k
    <2>2. /\ cuts \in Seq(Seq(VisualLine)) /\ Len(cuts) = n
          /\ \A j \in 1 .. n : cuts[j] = CutOf(j, Len(tb.buffer[j]), k)
      BY <1>1, CutsAre DEF Laid, k
    <2>3. /\ after \in Seq(Seq(VisualLine)) /\ Len(after) = n
          /\ \A j \in 1 .. n : after[j] = CutOf(j, Len(buf[j]), k)
      <3>1. t.size.x >= 3 * PADDING + ADVANCE
        BY <1>18 DEF Laid
      <3> HIDE DEF t, buf
      <3> QED
        BY <1>3, <1>18, <2>1, <3>1, CutsAre
    <2> DEFINE changed == [cuts EXCEPT ![n] = d]
    <2> HIDE DEF cuts, after
    <2>4. /\ changed \in Seq(Seq(VisualLine)) /\ Len(changed) = n
          /\ \A j \in 1 .. n : changed[j] = IF j = n THEN d ELSE cuts[j]
      <3>1. n \in 1 .. Len(cuts)
        BY <1>1, <2>2
      <3> HIDE DEF n
      <3> QED
        BY <1>8, <2>2, <3>1, ExceptSeq
    <2>5. after[n] = d /\ n \in 1 .. n
      <3>1. n \in 1 .. n /\ Len(buf[n]) = len + 1
        BY <1>1, <1>2, <1>3
      <3> QED
        BY <2>3, <3>1 DEF d
    <2>6. ASSUME NEW j \in 1 .. Len(after) PROVE after[j] = changed[j]
      <3>1. j \in 1 .. n
        BY <2>3
      <3>2. CASE j = n
        BY <2>4, <2>5, <3>1, <3>2, Zenon
      <3>3. CASE j # n
        <4>1. buf[j] = tb.buffer[j]
          BY <1>3, <3>1, <3>3, Zenon
        <4> QED
          BY <2>2, <2>3, <2>4, <3>1, <3>3, <4>1, Zenon
      <3> QED
        BY <3>2, <3>3
    <2>7. after = changed
      <3> HIDE DEF changed
      <3>1. Len(after) = Len(changed)
        BY <2>3, <2>4
      <3> QED
        BY <2>3, <2>4, <2>6, <3>1, SeqEqual, Zenon
    <2>8. FlattenSeq(changed) = f \o d
      <3>1. cuts # <<>> /\ Len(cuts) = n
        BY <1>1, <2>2
      <3>2. FlattenSeq([cuts EXCEPT ![Len(cuts)] = d]) = FlattenSeq(Front(cuts)) \o d
        BY <1>8, <2>2, <3>1, LastChanged
      <3> QED
        BY <3>1, <3>2 DEF f, cuts
    <2> QED
      BY <1>16, <1>18, <2>7, <2>8 DEF IsWrapped, after
  <1>20. Laid(t)
    BY <1>3, <1>16, <1>17, <1>18, <1>19 DEF Laid
  <1>21. Len(w) \in {Len(v), Len(v) + 1}
    BY <1>16
  <1> QED
    BY <1>18, <1>20, <1>21

\* An empty logical line has one empty visual line.
LEMMA CutNothing ==
  ASSUME NEW n \in Nat, NEW k \in Nat \ {0}
  PROVE  CutOf(n, 0, k) = <<[line_idx |-> n, start |-> 0, end |-> 0]>>
  <1> DEFINE new == [line_idx |-> n, start |-> 0, end |-> 0]
             c == CutOf(n, 0, k)
  <1>1. Pieces(0, k) = 1
    <2>1. Pieces(0, k) \in Nat \ {0}
      BY PiecesType
    <2> QED
      BY <2>1, PiecesAre
  <1>2. (1 - 1) * k = 0
    OBVIOUS
  <1>3. /\ c \in Seq(VisualLine) /\ Len(c) = 1
        /\ c[1] = new
    <2>1. /\ c \in Seq(VisualLine) /\ Len(c) = Pieces(0, k)
          /\ c[Pieces(0, k)] = [line_idx |-> n, start |-> (Pieces(0, k) - 1) * k, end |-> 0]
      BY CutEnds
    <2> QED
      BY <1>1, <1>2, <2>1
  <1> HIDE DEF c
  <1>4. c = <<new>>
    BY <1>3
  <1> QED
    BY <1>4 DEF c

\* A line end starts an empty logical line, on a visual line of its own.
LEMMA LineAdded ==
  ASSUME NEW tb, Laid(tb)
  PROVE  LET t == NewLogicalLine(tb) IN
         /\ Laid(t) /\ Rest(t) = Rest(tb) /\ t.buffer = Append(tb.buffer, <<>>)
         /\ Len(t.visual_lines) = Len(tb.visual_lines) + 1
  <1> DEFINE n == Len(tb.buffer)
             k == PerLine(tb)
             v == tb.visual_lines
             new == [line_idx |-> n + 1, start |-> 0, end |-> 0]
             buf == Append(tb.buffer, <<>>)
             w == Append(v, new)
             cuts == [j \in DOMAIN tb.buffer |-> Cut(tb, j)]
             t == NewLogicalLine(tb)
             after == [j \in DOMAIN t.buffer |-> Cut(t, j)]
  <1>1. /\ tb \in Box /\ tb.buffer \in Seq(Seq(Glyph)) /\ n \in Nat /\ n + 1 \in Nat
        /\ v \in Seq(VisualLine) /\ tb.size.x \in Nat /\ k \in Nat \ {0} /\ PADDING \in Nat
    <2>1. /\ tb \in Box /\ tb.buffer \in Seq(Seq(Glyph)) /\ n \in Nat /\ n + 1 \in Nat
          /\ v \in Seq(VisualLine) /\ tb.size.x \in Nat
      BY DEF Laid, Box
    <2>2. k \in Nat \ {0}
      BY <2>1, Fit DEF Laid
    <2> QED
      BY <2>1, <2>2, TextBoxAssumption
  <1>2. new \in VisualLine
    BY <1>1 DEF VisualLine
  <1>3. /\ w \in Seq(VisualLine) /\ w # <<>> /\ Len(w) = Len(v) + 1 /\ Last(w) = new
    <2> HIDE DEF new, v
    <2> QED
      BY <1>1, <1>2, AppendProperties DEF Last
  <1>4. /\ buf \in Seq(Seq(Glyph)) /\ buf # <<>> /\ Len(buf) = n + 1 /\ buf[n + 1] = <<>>
        /\ \A j \in 1 .. n : buf[j] = tb.buffer[j]
    BY <1>1, AppendProperties
  <1>5. t = [tb EXCEPT !.buffer = buf, !.visual_lines = w, !.cursor_x = PADDING]
    BY <1>1 DEF NewLogicalLine, LastLine, Box
  <1>6. /\ t \in Box /\ t.buffer = buf /\ t.visual_lines = w /\ t.cursor_x = PADDING
        /\ t.size = tb.size /\ Rest(t) = Rest(tb)
    <2> HIDE DEF buf, w, t
    <2> QED
      BY <1>1, <1>3, <1>4, <1>5 DEF Box, Rest
  <1> HIDE DEF buf, w, t
  <1>7. PerLine(t) = k /\ t.size.x >= 3 * PADDING + ADVANCE
    BY <1>6 DEF PerLine, LineEnd, Laid
  <1>8. /\ cuts \in Seq(Seq(VisualLine)) /\ Len(cuts) = n
        /\ \A j \in 1 .. n : cuts[j] = CutOf(j, Len(tb.buffer[j]), k)
    BY <1>1, CutsAre DEF Laid
  <1>9. /\ after \in Seq(Seq(VisualLine)) /\ Len(after) = n + 1
        /\ \A j \in 1 .. n + 1 : after[j] = CutOf(j, Len(buf[j]), k)
    BY <1>4, <1>6, <1>7, CutsAre
  <1>10. after[n + 1] = <<new>>
    <2>1. n + 1 \in 1 .. n + 1 /\ Len(buf[n + 1]) = 0
      BY <1>1, <1>4
    <2> HIDE DEF after, n, k, new
    <2>2. after[n + 1] = CutOf(n + 1, 0, k)
      BY <1>9, <2>1
    <2> QED
      BY <1>1, <2>2, CutNothing DEF new
  <1> HIDE DEF cuts, after, new
  <1>11. <<new>> \in Seq(VisualLine)
    BY <1>2
  <1>12. after = Append(cuts, <<new>>)
    <2> DEFINE r == Append(cuts, <<new>>)
    <2>1. /\ r \in Seq(Seq(VisualLine)) /\ Len(r) = n + 1 /\ r[n + 1] = <<new>>
          /\ \A j \in 1 .. n : r[j] = cuts[j]
      BY <1>8, <1>11, AppendProperties
    <2> HIDE DEF r
    <2>2. ASSUME NEW j \in 1 .. Len(after) PROVE after[j] = r[j]
      <3>1. j = n + 1 \/ j \in 1 .. n
        BY <1>1, <1>9
      <3>2. CASE j = n + 1
        BY <1>10, <2>1, <3>2
      <3>3. CASE j \in 1 .. n
        <4>1. j \in 1 .. n + 1
          BY <1>1, <3>3
        <4> QED
          BY <1>4, <1>8, <1>9, <2>1, <3>3, <4>1, Zenon
      <3> QED
        BY <3>1, <3>2, <3>3
    <2>3. Len(after) = Len(r)
      BY <1>9, <2>1
    <2>4. after = r
      BY <1>9, <2>1, <2>2, <2>3, SeqEqual, Zenon
    <2> QED
      BY <2>4 DEF r
  <1>13. FlattenSeq(after) = w
    <2>1. FlattenSeq(after) = FlattenSeq(cuts) \o <<new>>
      BY <1>8, <1>11, <1>12, FlattenAppend
    <2>2. FlattenSeq(cuts) = v
      BY DEF Laid, IsWrapped, cuts
    <2>3. Append(v, new) = v \o <<new>>
      BY <1>1, <1>2, AppendIsConcat
    <2> QED
      BY <2>1, <2>2, <2>3 DEF w
  <1>14. IsWrapped(t)
    BY <1>6, <1>13 DEF IsWrapped, after
  <1>15. PADDING = PADDING + (Last(w).end - Last(w).start) * ADVANCE
    BY <1>1, <1>3, TextBoxAssumption DEF new
  <1>16. Laid(t)
    BY <1>3, <1>4, <1>6, <1>7, <1>14, <1>15 DEF Laid
  <1> QED
    BY <1>3, <1>6, <1>16 DEF t, buf

-----------------------------------------------------------------------------
(* Pushing bytes.                                                          *)

\* What no byte changes, and what grows at most.
Fixed(tb) == <<tb.size, tb.scroll_offset, tb.cursor_idx>>
Extends(t, tb) ==
  /\ Laid(t) /\ Fixed(t) = Fixed(tb)
  /\ Len(t.visual_lines) >= Len(tb.visual_lines)

\* The parser's own fields are no part of the layout.
LEMMA ParserOnly ==
  ASSUME NEW tb, Laid(tb), NEW s \in {"Text", "Escape", "Command"}, NEW c \in Colors,
         NEW cmd \in Seq(Byte)
  PROVE  /\ Extends([tb EXCEPT !.state = s], tb)
         /\ Extends([tb EXCEPT !.color_text = c], tb)
         /\ Extends([tb EXCEPT !.cmd_buffer = cmd], tb)
  <1>1. tb \in Box /\ tb.visual_lines \in Seq(VisualLine)
    BY DEF Laid, Box
  <1>2. ASSUME NEW t, t \in Box, t.buffer = tb.buffer, t.visual_lines = tb.visual_lines,
               t.cursor_x = tb.cursor_x, Fixed(t) = Fixed(tb)
        PROVE  Extends(t, tb)
    <2>1. t.size = tb.size
      BY <1>2 DEF Fixed
    <2>2. IsWrapped(t)
      <3>1. PerLine(t) = PerLine(tb)
        BY <2>1 DEF PerLine, LineEnd
      <3>2. \A j : Cut(t, j) = Cut(tb, j)
        BY <1>2, <3>1 DEF Cut
      <3>3. [j \in DOMAIN t.buffer |-> Cut(t, j)] = [j \in DOMAIN tb.buffer |-> Cut(tb, j)]
        BY <1>2, <3>2, Zenon
      <3> QED
        BY <1>2, <3>3 DEF Laid, IsWrapped
    <2> QED
      BY <1>1, <1>2, <2>1, <2>2 DEF Laid, Extends
  <1>3. Extends([tb EXCEPT !.state = s], tb)
    <2> DEFINE t == [tb EXCEPT !.state = s]
    <2>1. t \in Box /\ t.buffer = tb.buffer /\ t.visual_lines = tb.visual_lines
          /\ t.cursor_x = tb.cursor_x /\ Fixed(t) = Fixed(tb)
      BY <1>1 DEF Box, Fixed
    <2> QED
      BY <1>2, <2>1, Zenon
  <1>4. Extends([tb EXCEPT !.color_text = c], tb)
    <2> DEFINE t == [tb EXCEPT !.color_text = c]
    <2>1. t \in Box /\ t.buffer = tb.buffer /\ t.visual_lines = tb.visual_lines
          /\ t.cursor_x = tb.cursor_x /\ Fixed(t) = Fixed(tb)
      BY <1>1 DEF Box, Fixed
    <2> QED
      BY <1>2, <2>1, Zenon
  <1>5. Extends([tb EXCEPT !.cmd_buffer = cmd], tb)
    <2> DEFINE t == [tb EXCEPT !.cmd_buffer = cmd]
    <2>1. t \in Box /\ t.buffer = tb.buffer /\ t.visual_lines = tb.visual_lines
          /\ t.cursor_x = tb.cursor_x /\ Fixed(t) = Fixed(tb)
      BY <1>1 DEF Box, Fixed
    <2> QED
      BY <1>2, <2>1, Zenon
  <1> QED
    BY <1>3, <1>4, <1>5

LEMMA ExtendsTwice ==
  ASSUME NEW r, NEW s, NEW t, Laid(t), Extends(s, t), Extends(r, s) PROVE Extends(r, t)
  <1>1. \A x : Laid(x) => Len(x.visual_lines) \in Nat
    BY DEF Laid, Box
  <1> QED
    BY <1>1 DEF Extends

\* Whatever byte is pushed in whatever state, the layout stays the wrapping of the text.
LEMMA BytePushed ==
  ASSUME NEW tb, Laid(tb), NEW b \in Byte
  PROVE  Extends(PushByte(tb, b), tb)
  <1>1. \A t : Laid(t) => t \in Box /\ t.visual_lines \in Seq(VisualLine) /\ Extends(t, t)
                          /\ t.cmd_buffer \in Seq(Byte) /\ t.color_text \in Colors
    BY DEF Laid, Box, Extends
  <1>2. ASSUME NEW t, Laid(t) PROVE Extends(TextByte(t, b), t)
    <2>1. CASE b = ESC
      <3>1. TextByte(t, b) = [t EXCEPT !.state = "Escape"]
        BY <2>1 DEF TextByte, ESC, NL
      <3> QED
        BY <1>1, <1>2, <3>1, ParserOnly
    <2>2. CASE b = NL
      <3>1. TextByte(t, b) = NewLogicalLine(t)
        BY <2>2 DEF TextByte, ESC, NL
      <3> QED
        BY <1>1, <1>2, <3>1, LineAdded DEF Extends, Rest, Fixed
    <2>3. CASE b # ESC /\ b # NL /\ b \in Printable
      <3>1. TextByte(t, b) = PushText(t, b)
        BY <2>3 DEF TextByte
      <3>2. /\ Laid(PushText(t, b)) /\ Rest(PushText(t, b)) = Rest(t)
            /\ Len(PushText(t, b).visual_lines) \in {Len(t.visual_lines), Len(t.visual_lines) + 1}
        BY <1>2, <2>3, GlyphPushed
      <3>3. Len(t.visual_lines) \in Nat
        BY <1>1, <1>2
      <3> HIDE DEF PushText
      <3> QED
        BY <3>1, <3>2, <3>3 DEF Extends, Rest, Fixed
    <2>4. CASE b # ESC /\ b # NL /\ b \notin Printable
      <3>1. TextByte(t, b) = t
        BY <2>4 DEF TextByte, PushText
      <3> QED
        BY <1>1, <1>2, <3>1
    <2> QED
      BY <2>1, <2>2, <2>3, <2>4
  <1>3. CASE tb.state = "Text"
    BY <1>2, <1>3 DEF PushByte
  <1>4. CASE tb.state = "Escape"
    <2>1. CASE b = LEADER
      <3>1. PushByte(tb, b) = [tb EXCEPT !.state = "Command"]
        BY <1>4, <2>1 DEF PushByte
      <3> QED
        BY <1>1, <3>1, ParserOnly
    <2>2. CASE b # LEADER
      <3> DEFINE t == [tb EXCEPT !.state = "Text"]
      <3>1. PushByte(tb, b) = TextByte(t, b)
        BY <1>4, <2>2 DEF PushByte
      <3>2. Extends(t, tb)
        BY <1>1, ParserOnly
      <3> HIDE DEF t
      <3>3. Laid(t)
        BY <3>2 DEF Extends
      <3> QED
        BY <1>2, <3>1, <3>2, <3>3, ExtendsTwice
    <2> QED
      BY <2>1, <2>2
  <1>5. CASE tb.state = "Command"
    <2>1. CASE b = BEL
      <3> DEFINE t == [tb EXCEPT !.state = "Text"]
                 c == IF t.cmd_buffer \in {<<x>> : x \in Colors} THEN Head(t.cmd_buffer)
                      ELSE t.color_text
                 u == [t EXCEPT !.color_text = c]
                 w == [u EXCEPT !.cmd_buffer = <<>>]
      <3>1. PushByte(tb, b) = ExecCmd(t)
        BY <1>5, <2>1 DEF PushByte
      <3>2. Extends(t, tb)
        BY <1>1, ParserOnly
      <3> HIDE DEF t
      <3>3. Laid(t) /\ t \in Box
        BY <1>1, <3>2 DEF Extends
      <3>4. ExecCmd(t) = w
        BY <3>3 DEF ExecCmd, Box
      <3>5. c \in Colors
        <4>1. \A x \in Colors : Head(<<x>>) = x
          OBVIOUS
        <4> QED
          BY <1>1, <3>3, <4>1
      <3> HIDE DEF c
      <3>6. Extends(u, t)
        BY <1>1, <3>3, <3>5, ParserOnly
      <3> HIDE DEF u
      <3>7. Laid(u)
        BY <3>6 DEF Extends
      <3>8. <<>> \in Seq(Byte)
        OBVIOUS
      <3>9. Extends(w, u)
        BY <3>7, <3>5, <3>8, ParserOnly
      <3> HIDE DEF w
      <3>10. Extends(w, t)
        BY <3>3, <3>6, <3>9, ExtendsTwice
      <3> QED
        BY <3>1, <3>2, <3>4, <3>10, ExtendsTwice
    <2>2. CASE b # BEL
      <3>1. PushByte(tb, b) = [tb EXCEPT !.cmd_buffer = Append(tb.cmd_buffer, b)]
        BY <1>1, <1>5, <2>2 DEF PushByte, Box
      <3>2. Append(tb.cmd_buffer, b) \in Seq(Byte)
        BY <1>1
      <3> QED
        BY <1>1, <3>1, <3>2, ParserOnly
    <2> QED
      BY <2>1, <2>2
  <1>6. tb.state \in {"Text", "Escape", "Command"}
    BY <1>1 DEF Box
  <1> QED
    BY <1>3, <1>4, <1>5, <1>6

\* So does a string, byte by byte.
Pushes(f, tb, bytes) ==
  f[0] = tb /\ \A i \in 1 .. Len(bytes) : f[i] = PushByte(f[i - 1], bytes[i])

\* The text box after each byte of a string.
LEMMA WrittenBy ==
  ASSUME NEW tb, NEW bytes, Len(bytes) \in Nat
  PROVE  \E f : WriteStr(tb, bytes) = f[Len(bytes)] /\ Pushes(f, tb, bytes)
  <1>1. \E f : /\ WriteStr(tb, bytes) = f[Len(bytes)]
               /\ f[0] = tb
               /\ \A i \in 1 .. Len(bytes) : f[i] = PushByte(f[i - 1], bytes[i])
    BY Written
  <1> QED
    BY <1>1, Zenon DEF Pushes

\* Whatever bytes a string has, the layout is kept and no visual line is lost.
LEMMA StringWritten ==
  ASSUME NEW tb, Laid(tb), NEW bytes \in Seq(Byte)
  PROVE  Extends(WriteStr(tb, bytes), tb)
  <1> DEFINE n == Len(bytes)
  <1>1. n \in Nat
    OBVIOUS
  <1>2. PICK f : WriteStr(tb, bytes) = f[n] /\ Pushes(f, tb, bytes)
    BY <1>1, WrittenBy, Zenon
  <1>3. f[0] = tb /\ \A i \in 1 .. n : f[i] = PushByte(f[i - 1], bytes[i])
    BY <1>2 DEF Pushes
  <1> DEFINE Good == {i \in Nat : i \in 0 .. n => Extends(f[i], tb)}
  <1>4. 0 \in Good
    <2>1. Extends(tb, tb)
      BY DEF Extends, Laid, Box
    <2> QED
      BY <1>3, <2>1
  <1>5. ASSUME NEW i \in Nat \cap Good PROVE i + 1 \in Good
    <2>1. CASE i + 1 \in 0 .. n
      <3>1. i \in 0 .. n /\ i + 1 \in 1 .. n /\ (i + 1) - 1 = i /\ bytes[i + 1] \in Byte
        BY <2>1
      <3>2. f[i + 1] = PushByte(f[i], bytes[i + 1])
        BY <1>3, <3>1
      <3>3. Extends(f[i], tb)
        BY <3>1
      <3>4. Laid(f[i])
        BY <3>3 DEF Extends
      <3>5. Extends(PushByte(f[i], bytes[i + 1]), f[i])
        BY <3>1, <3>4, BytePushed
      <3> QED
        BY <3>2, <3>3, <3>5, ExtendsTwice
    <2> QED
      BY <2>1
  <1>6. n \in Good
    <2> HIDE DEF Good
    <2> QED
      BY <1>1, <1>4, <1>5, Induction, Zenon
  <1> QED
    BY <1>1, <1>2, <1>6

-----------------------------------------------------------------------------
(* The glyphs in a text box.                                               *)

AnyGlyph == Glyph \cup {LineBreak}
Ended(buffer) == [i \in DOMAIN buffer |-> Append(buffer[i], LineBreak)]
Marks(bytes, color) == [i \in DOMAIN bytes |-> Mark(bytes[i], color)]

\* The lines of a box with their ends.
LEMMA EndedType ==
  ASSUME NEW buffer \in Seq(Seq(Glyph))
  PROVE  /\ Ended(buffer) \in Seq(Seq(AnyGlyph)) /\ Len(Ended(buffer)) = Len(buffer)
         /\ \A i \in 1 .. Len(buffer) : Ended(buffer)[i] = Append(buffer[i], LineBreak)
         /\ Glyphs(buffer) = FlattenSeq(Ended(buffer))
  <1>1. DOMAIN buffer = 1 .. Len(buffer) /\ Len(buffer) \in Nat
    OBVIOUS
  <1>2. ASSUME NEW i \in 1 .. Len(buffer) PROVE Append(buffer[i], LineBreak) \in Seq(AnyGlyph)
    <2>1. buffer[i] \in Seq(Glyph)
      BY <1>1, <1>2
    <2>2. buffer[i] \in Seq(AnyGlyph) /\ LineBreak \in AnyGlyph
      BY <2>1, SeqMonotonic DEF AnyGlyph
    <2> QED
      BY <2>2, AppendProperties
  <1>3. Ended(buffer) \in [1 .. Len(buffer) -> Seq(AnyGlyph)]
        /\ \A i \in 1 .. Len(buffer) : Ended(buffer)[i] = Append(buffer[i], LineBreak)
    BY <1>1, <1>2, Zenon DEF Ended
  <1>4. Ended(buffer) \in Seq(Seq(AnyGlyph)) /\ Len(Ended(buffer)) = Len(buffer)
    <2> DEFINE n == Len(buffer)
    <2>1. n \in Nat /\ Ended(buffer) \in [1 .. n -> Seq(AnyGlyph)]
      BY <1>1, <1>3
    <2> HIDE DEF n
    <2>2. \A X : \A e \in [1 .. n -> X] : e \in Seq(X) /\ Len(e) = n
      BY <2>1
    <2>3. Ended(buffer) \in Seq(Seq(AnyGlyph)) /\ Len(Ended(buffer)) = n
      BY <2>1, <2>2, Zenon
    <2> QED
      BY <2>3 DEF n
  <1>5. Glyphs(buffer) = FlattenSeq(Ended(buffer))
    BY DEF Glyphs, Ended
  <1> QED
    BY <1>3, <1>4, <1>5

LEMMA SameFront ==
  ASSUME NEW X, NEW e \in X, NEW s \in Seq(X), NEW t \in Seq(X), Append(s, e) = Append(t, e)
  PROVE  s = t
  BY AppendInjective

\* The last line of a box is what its glyphs end with.
LEMMA LastHeld ==
  ASSUME NEW buffer \in Seq(Seq(Glyph)), buffer # <<>>, NEW s \in Seq(AnyGlyph),
         Glyphs(buffer) = Append(s, LineBreak)
  PROVE  LET f == FlattenSeq(Front(Ended(buffer))) IN
         f \in Seq(AnyGlyph) /\ s = f \o buffer[Len(buffer)]
  <1> DEFINE n == Len(buffer)
             ends == Ended(buffer)
             f == FlattenSeq(Front(ends))
             line == buffer[n]
  <1>1. /\ n \in Nat \ {0} /\ n \in 1 .. n /\ line \in Seq(Glyph)
    OBVIOUS
  <1>2. /\ ends \in Seq(Seq(AnyGlyph)) /\ ends # <<>> /\ Last(ends) = Append(line, LineBreak)
    <2>1. ends \in Seq(Seq(AnyGlyph)) /\ Len(ends) = n
          /\ \A i \in 1 .. n : ends[i] = Append(buffer[i], LineBreak)
      BY EndedType
    <2> HIDE DEF ends, n
    <2>2. Last(ends) = ends[n]
      BY <2>1 DEF Last
    <2> QED
      BY <1>1, <2>1, <2>2 DEF n
  <1>3. line \in Seq(AnyGlyph) /\ LineBreak \in AnyGlyph
    BY <1>1, SeqMonotonic DEF AnyGlyph
  <1> HIDE DEF ends, line
  <1>4. f \in Seq(AnyGlyph) /\ FlattenSeq(ends) = f \o Append(line, LineBreak)
    BY <1>2, FlattenLast
  <1>5. Glyphs(buffer) = FlattenSeq(ends)
    BY EndedType DEF ends
  <1> HIDE DEF f
  <1>6. f \o Append(line, LineBreak) = Append(f \o line, LineBreak) /\ f \o line \in Seq(AnyGlyph)
    <2>1. /\ Append(line, LineBreak) = line \o <<LineBreak>>
          /\ f \o line \in Seq(AnyGlyph)
      BY <1>3, <1>4, AppendIsConcat, ConcatProperties
    <2>2. Append(f \o line, LineBreak) = (f \o line) \o <<LineBreak>>
      BY <1>3, <2>1, AppendIsConcat
    <2>3. (f \o line) \o <<LineBreak>> = f \o (line \o <<LineBreak>>)
      <3>1. <<LineBreak>> \in Seq(AnyGlyph)
        BY <1>3
      <3> QED
        BY <1>3, <1>4, <3>1, ConcatAssociative, SMTT(30)
    <2> QED
      BY <2>1, <2>2, <2>3
  <1>7. s = f \o line
    <2>1. Append(s, LineBreak) = Append(f \o line, LineBreak)
      BY <1>4, <1>5, <1>6, Zenon
    <2> QED
      BY <1>3, <1>6, <2>1, SameFront, Zenon
  <1> QED
    BY <1>4, <1>7 DEF f, ends, line

\* A glyph more in the last line.
LEMMA GlyphHeld ==
  ASSUME NEW buffer \in Seq(Seq(Glyph)), buffer # <<>>, NEW s \in Seq(AnyGlyph),
         Glyphs(buffer) = Append(s, LineBreak), NEW g \in Glyph
  PROVE  Glyphs([buffer EXCEPT ![Len(buffer)] = Append(@, g)])
           = Append(Append(s, g), LineBreak)
  <1> DEFINE n == Len(buffer)
             line == buffer[n]
             more == Append(line, g)
             after == [buffer EXCEPT ![n] = more]
             ends == Ended(buffer)
             f == FlattenSeq(Front(ends))
             d == Append(more, LineBreak)
             changed == [ends EXCEPT ![n] = d]
  <1>1. /\ n \in Nat \ {0} /\ n \in 1 .. n /\ line \in Seq(Glyph) /\ more \in Seq(Glyph)
    BY AppendProperties
  <1>2. /\ ends \in Seq(Seq(AnyGlyph)) /\ Len(ends) = n
        /\ \A i \in 1 .. n : ends[i] = Append(buffer[i], LineBreak)
    BY EndedType
  <1>3. f \in Seq(AnyGlyph) /\ s = f \o line
    BY LastHeld
  <1>4. /\ line \in Seq(AnyGlyph) /\ LineBreak \in AnyGlyph /\ g \in AnyGlyph
        /\ more \in Seq(AnyGlyph) /\ d \in Seq(AnyGlyph)
    <2>1. line \in Seq(AnyGlyph) /\ LineBreak \in AnyGlyph /\ g \in AnyGlyph
      BY <1>1, SeqMonotonic DEF AnyGlyph
    <2>2. more \in Seq(AnyGlyph)
      BY <2>1, AppendProperties
    <2> HIDE DEF more
    <2> QED
      BY <2>1, <2>2, AppendProperties
  <1>5. /\ after \in Seq(Seq(Glyph)) /\ Len(after) = n
        /\ \A j \in 1 .. n : after[j] = IF j = n THEN more ELSE buffer[j]
    <2> HIDE DEF more
    <2> QED
      BY <1>1, ExceptSeq
  <1>6. after = [buffer EXCEPT ![Len(buffer)] = Append(@, g)]
    BY <1>1
  <1> HIDE DEF ends, after, more, line
  <1>7. /\ Ended(after) \in Seq(Seq(AnyGlyph)) /\ Len(Ended(after)) = n
        /\ \A i \in 1 .. n : Ended(after)[i] = Append(after[i], LineBreak)
        /\ Glyphs(after) = FlattenSeq(Ended(after))
    <2> HIDE DEF n
    <2> QED
      BY <1>5, EndedType
  <1> HIDE DEF d
  <1>8. /\ changed \in Seq(Seq(AnyGlyph)) /\ Len(changed) = n
        /\ \A j \in 1 .. n : changed[j] = IF j = n THEN d ELSE ends[j]
    <2>1. n \in 1 .. Len(ends)
      BY <1>1, <1>2
    <2> HIDE DEF n
    <2> QED
      BY <1>2, <1>4, <2>1, ExceptSeq
  <1> HIDE DEF changed
  <1>9. Ended(after) = changed
    <2>1. ASSUME NEW j \in 1 .. Len(Ended(after)) PROVE Ended(after)[j] = changed[j]
      <3>1. j \in 1 .. n
        BY <1>7
      <3>2. CASE j = n
        BY <1>5, <1>7, <1>8, <3>1, <3>2, Zenon DEF d
      <3>3. CASE j # n
        BY <1>2, <1>5, <1>7, <1>8, <3>1, <3>3, Zenon
      <3> QED
        BY <3>2, <3>3
    <2> HIDE DEF Ended
    <2> QED
      BY <1>7, <1>8, <2>1, SeqEqual
  <1>10. FlattenSeq(changed) = f \o d
    <2>1. ends # <<>> /\ [ends EXCEPT ![Len(ends)] = d] = changed
      BY <1>1, <1>2 DEF changed
    <2> HIDE DEF n, changed
    <2>2. FlattenSeq([ends EXCEPT ![Len(ends)] = d]) = FlattenSeq(Front(ends)) \o d
      BY <1>2, <1>4, <2>1, LastChanged
    <2> QED
      BY <2>1, <2>2
  <1> HIDE DEF f
  <1>11. f \o d = Append(Append(s, g), LineBreak)
    <2>1. d = (line \o <<g>>) \o <<LineBreak>>
      <3>1. d = more \o <<LineBreak>>
        BY <1>4, AppendIsConcat DEF d
      <3>2. more = line \o <<g>>
        BY <1>4, AppendIsConcat DEF more
      <3> QED
        BY <3>1, <3>2
    <2>2. /\ s \in Seq(AnyGlyph) /\ Append(s, g) \in Seq(AnyGlyph)
          /\ Append(s, g) = s \o <<g>>
      BY <1>4, AppendIsConcat, AppendProperties
    <2>3. Append(Append(s, g), LineBreak) = (s \o <<g>>) \o <<LineBreak>>
      BY <1>4, <2>2, AppendIsConcat
    <2>4. <<g>> \in Seq(AnyGlyph) /\ <<LineBreak>> \in Seq(AnyGlyph)
          /\ line \o <<g>> \in Seq(AnyGlyph)
      <3>1. <<g>> \in Seq(AnyGlyph) /\ <<LineBreak>> \in Seq(AnyGlyph)
        BY <1>4
      <3> QED
        BY <1>4, <3>1, ConcatProperties
    <2>5. f \o ((line \o <<g>>) \o <<LineBreak>>) = (f \o (line \o <<g>>)) \o <<LineBreak>>
      BY <1>3, <2>4, ConcatAssociative
    <2>6. f \o (line \o <<g>>) = (f \o line) \o <<g>>
      BY <1>3, <1>4, <2>4, ConcatAssociative
    <2> QED
      BY <1>3, <2>1, <2>3, <2>5, <2>6
  <1> QED
    BY <1>6, <1>7, <1>9, <1>10, <1>11

\* A line more.
LEMMA BreakHeld ==
  ASSUME NEW buffer \in Seq(Seq(Glyph)), NEW s \in Seq(AnyGlyph),
         Glyphs(buffer) = Append(s, LineBreak)
  PROVE  Glyphs(Append(buffer, <<>>)) = Append(Append(s, LineBreak), LineBreak)
  <1> DEFINE n == Len(buffer)
             after == Append(buffer, <<>>)
             ends == Ended(buffer)
             r == Append(ends, <<LineBreak>>)
  <1>1. /\ n \in Nat /\ after \in Seq(Seq(Glyph)) /\ Len(after) = n + 1 /\ after[n + 1] = <<>>
        /\ \A i \in 1 .. n : after[i] = buffer[i]
    BY AppendProperties
  <1>2. /\ ends \in Seq(Seq(AnyGlyph)) /\ Len(ends) = n
        /\ \A i \in 1 .. n : ends[i] = Append(buffer[i], LineBreak)
        /\ Glyphs(buffer) = FlattenSeq(ends)
    BY EndedType
  <1> HIDE DEF n, after, ends
  <1>3. /\ Ended(after) \in Seq(Seq(AnyGlyph)) /\ Len(Ended(after)) = n + 1
        /\ \A i \in 1 .. n + 1 : Ended(after)[i] = Append(after[i], LineBreak)
        /\ Glyphs(after) = FlattenSeq(Ended(after))
    BY <1>1, EndedType
  <1>4. LineBreak \in AnyGlyph /\ <<LineBreak>> \in Seq(AnyGlyph)
    BY DEF AnyGlyph
  <1>5. /\ r \in Seq(Seq(AnyGlyph)) /\ Len(r) = n + 1 /\ r[n + 1] = <<LineBreak>>
        /\ \A i \in 1 .. n : r[i] = ends[i]
    BY <1>2, <1>4, AppendProperties
  <1> HIDE DEF r
  <1>6. Ended(after) = r
    <2>1. ASSUME NEW j \in 1 .. Len(Ended(after)) PROVE Ended(after)[j] = r[j]
      <3>1. j \in 1 .. n + 1 /\ (j = n + 1 \/ j \in 1 .. n)
        BY <1>1, <1>3
      <3>2. CASE j = n + 1
        <4>1. Append(<<>>, LineBreak) = <<LineBreak>>
          OBVIOUS
        <4> QED
          BY <1>1, <1>3, <1>5, <3>1, <3>2, <4>1, Zenon
      <3>3. CASE j \in 1 .. n
        BY <1>1, <1>2, <1>3, <1>5, <3>1, <3>3, Zenon
      <3> QED
        BY <3>1, <3>2, <3>3
    <2>2. Len(Ended(after)) = Len(r)
      BY <1>3, <1>5
    <2> QED
      BY <1>3, <1>5, <2>1, <2>2, SeqEqual, Zenon
  <1>7. FlattenSeq(r) = FlattenSeq(ends) \o <<LineBreak>>
    BY <1>2, <1>4, FlattenAppend DEF r
  <1>8. Append(s, LineBreak) \o <<LineBreak>> = Append(Append(s, LineBreak), LineBreak)
    <2>1. Append(s, LineBreak) \in Seq(AnyGlyph)
      BY <1>4, AppendProperties
    <2> QED
      BY <1>4, <2>1, AppendIsConcat
  <1> QED
    BY <1>2, <1>3, <1>6, <1>7, <1>8 DEF after

-----------------------------------------------------------------------------
(* What text and colors do to a box that is between commands.              *)

Clean(tb) == tb.state = "Text" /\ tb.cmd_buffer = <<>>
TextByteSet == Printable \cup {NL} \cup Dropped

\* The box t is the box tb with the bytes pushed as text: nothing else has changed.
Typed(t, tb, s, bytes) ==
  /\ Laid(t) /\ Rest(t) = Rest(tb)
  /\ Len(t.visual_lines) >= Len(tb.visual_lines)
  /\ Glyphs(t.buffer) = Append(s \o Marked(bytes, tb.color_text), LineBreak)
  /\ bytes \in Seq(Printable) => Len(t.buffer) = Len(tb.buffer)

\* What is between commands stays so.
LEMMA SameRest ==
  ASSUME NEW t, NEW tb, Rest(t) = Rest(tb)
  PROVE  /\ t.state = tb.state /\ t.color_text = tb.color_text /\ t.cmd_buffer = tb.cmd_buffer
         /\ Fixed(t) = Fixed(tb) /\ t.size = tb.size /\ t.scroll_offset = tb.scroll_offset
         /\ t.cursor_idx = tb.cursor_idx /\ (Clean(tb) => Clean(t))
  BY DEF Rest, Fixed, Clean

\* A byte of text pushed is the next glyph, or line break, of the box, in its color,
\* or nothing.
LEMMA ByteHeld ==
  ASSUME NEW tb, Laid(tb), Clean(tb), NEW s \in Seq(AnyGlyph),
         Glyphs(tb.buffer) = Append(s, LineBreak), NEW b \in TextByteSet
  PROVE  LET t == PushByte(tb, b) IN
         /\ Laid(t) /\ Rest(t) = Rest(tb)
         /\ Len(t.visual_lines) >= Len(tb.visual_lines)
         /\ Glyphs(t.buffer) = Append(s \o Mark(b, tb.color_text), LineBreak)
         /\ b \in Printable => Len(t.buffer) = Len(tb.buffer)
  <1>1. /\ tb \in Box /\ tb.buffer \in Seq(Seq(Glyph)) /\ tb.buffer # <<>>
        /\ tb.color_text \in Colors /\ Len(tb.visual_lines) \in Nat
    BY DEF Laid, Box
  <1>2. ESC \notin Printable /\ NL \notin Printable /\ ESC # NL
    BY TextBoxAssumption DEF ESC, NL
  <1>3. CASE b = NL
    <2>1. PushByte(tb, b) = NewLogicalLine(tb)
      BY <1>2, <1>3 DEF PushByte, TextByte, Clean
    <2>2. /\ Laid(NewLogicalLine(tb)) /\ Rest(NewLogicalLine(tb)) = Rest(tb)
          /\ NewLogicalLine(tb).buffer = Append(tb.buffer, <<>>)
          /\ Len(NewLogicalLine(tb).visual_lines) = Len(tb.visual_lines) + 1
      BY LineAdded
    <2>3. Glyphs(Append(tb.buffer, <<>>)) = Append(Append(s, LineBreak), LineBreak)
      BY <1>1, BreakHeld
    <2>4. Mark(b, tb.color_text) = <<LineBreak>> /\ LineBreak \in AnyGlyph
      BY <1>2, <1>3 DEF Mark, AnyGlyph
    <2>5. s \o <<LineBreak>> = Append(s, LineBreak)
      BY <2>4, AppendIsConcat
    <2> HIDE DEF NewLogicalLine
    <2> QED
      BY <1>1, <1>2, <1>3, <2>1, <2>2, <2>3, <2>4, <2>5
  <1>4. CASE b \in Printable
    <2> DEFINE g == [b |-> b, color |-> tb.color_text]
               t == PushText(tb, b)
    <2>1. b # ESC /\ b # NL
      BY <1>2, <1>4
    <2>2. PushByte(tb, b) = t
      BY <2>1 DEF PushByte, TextByte, Clean
    <2>3. /\ Laid(t) /\ Rest(t) = Rest(tb)
          /\ t.buffer = [tb.buffer EXCEPT ![Len(tb.buffer)] = Append(@, g)]
          /\ Len(t.visual_lines) \in {Len(tb.visual_lines), Len(tb.visual_lines) + 1}
      BY <1>4, GlyphPushed
    <2> HIDE DEF t
    <2>4. g \in Glyph
      BY <1>1, <1>4 DEF Glyph
    <2>5. Mark(b, tb.color_text) = <<g>> /\ g \in AnyGlyph
      BY <1>4, <2>1, <2>4 DEF Mark, AnyGlyph
    <2> HIDE DEF g
    <2>6. Glyphs(t.buffer) = Append(s \o <<g>>, LineBreak)
      <3>1. Glyphs(t.buffer) = Append(Append(s, g), LineBreak)
        BY <1>1, <2>3, <2>4, GlyphHeld
      <3>2. Append(s, g) = s \o <<g>>
        BY <2>5, AppendIsConcat
      <3> QED
        BY <3>1, <3>2
    <2>7. Len(t.buffer) = Len(tb.buffer)
      BY <1>1, <2>3
    <2>8. Len(t.visual_lines) >= Len(tb.visual_lines)
      BY <1>1, <2>3
    <2> QED
      BY <2>2, <2>3, <2>5, <2>6, <2>7, <2>8
  <1>5. CASE b # NL /\ b \notin Printable
    <2>1. b # ESC
      <3>1. b \in Dropped
        BY <1>5 DEF TextByteSet
      <3> QED
        BY <3>1, ConsoleAssumption
    <2>2. PushByte(tb, b) = tb
      BY <1>5, <2>1 DEF PushByte, TextByte, PushText, Clean
    <2>3. Mark(b, tb.color_text) = <<>>
      BY <1>5 DEF Mark
    <2>4. s \o <<>> = s
      BY ConcatEmptySeq
    <2> QED
      BY <1>1, <2>2, <2>3, <2>4
  <1> QED
    BY <1>3, <1>4, <1>5

\* What a byte is shown as.
LEMMA MarkType ==
  ASSUME NEW b \in TextByteSet, NEW color \in Colors
  PROVE  Mark(b, color) \in Seq(AnyGlyph)
  <1>1. CASE b = NL
    <2>1. Mark(b, color) = <<LineBreak>> /\ LineBreak \in AnyGlyph
      BY <1>1, TextBoxAssumption DEF Mark, AnyGlyph
    <2> QED
      BY <2>1
  <1>2. CASE b # NL /\ b \in Printable
    <2>1. [b |-> b, color |-> color] \in AnyGlyph
      BY <1>2 DEF AnyGlyph, Glyph
    <2> QED
      BY <1>2, <2>1 DEF Mark
  <1>3. CASE b # NL /\ b \notin Printable
    BY <1>3 DEF Mark
  <1> QED
    BY <1>1, <1>2, <1>3

LEMMA MarksType ==
  ASSUME NEW bytes \in Seq(TextByteSet), NEW color \in Colors
  PROVE  /\ Marks(bytes, color) \in Seq(Seq(AnyGlyph)) /\ Len(Marks(bytes, color)) = Len(bytes)
         /\ \A i \in 1 .. Len(bytes) : Marks(bytes, color)[i] = Mark(bytes[i], color)
  <1> DEFINE n == Len(bytes)
  <1>1. n \in Nat /\ DOMAIN bytes = 1 .. n /\ \A i \in 1 .. n : bytes[i] \in TextByteSet
    OBVIOUS
  <1>2. \A b \in TextByteSet : Mark(b, color) \in Seq(AnyGlyph)
    BY MarkType
  <1>3. Marks(bytes, color) \in [1 .. n -> Seq(AnyGlyph)]
        /\ \A i \in 1 .. n : Marks(bytes, color)[i] = Mark(bytes[i], color)
    BY <1>1, <1>2, Zenon DEF Marks
  <1> HIDE DEF n
  <1>4. \A X : \A e \in [1 .. n -> X] : e \in Seq(X) /\ Len(e) = n
    BY <1>1
  <1>5. Marks(bytes, color) \in Seq(Seq(AnyGlyph)) /\ Len(Marks(bytes, color)) = n
    BY <1>3, <1>4, Zenon
  <1> QED
    BY <1>3, <1>5 DEF n

\* The glyphs of a string in one color, and of one that is a byte longer.
LEMMA MarkedMore ==
  ASSUME NEW bytes \in Seq(TextByteSet), NEW b \in TextByteSet, NEW color \in Colors
  PROVE  /\ Marked(bytes, color) \in Seq(AnyGlyph)
         /\ Marked(Append(bytes, b), color) = Marked(bytes, color) \o Mark(b, color)
  <1> DEFINE more == Append(bytes, b)
             n == Len(bytes)
             e == Mark(b, color)
             r == Append(Marks(bytes, color), e)
  <1>1. /\ more \in Seq(TextByteSet) /\ Len(more) = n + 1 /\ more[n + 1] = b /\ n \in Nat
        /\ \A i \in 1 .. n : more[i] = bytes[i]
    BY AppendProperties
  <1>2. /\ Marks(bytes, color) \in Seq(Seq(AnyGlyph)) /\ Len(Marks(bytes, color)) = n
        /\ \A i \in 1 .. n : Marks(bytes, color)[i] = Mark(bytes[i], color)
    BY MarksType
  <1> HIDE DEF more, n
  <1>3. /\ Marks(more, color) \in Seq(Seq(AnyGlyph)) /\ Len(Marks(more, color)) = n + 1
        /\ \A i \in 1 .. n + 1 : Marks(more, color)[i] = Mark(more[i], color)
    BY <1>1, MarksType
  <1>4. e \in Seq(AnyGlyph) /\ e = Mark(b, color)
    BY MarkType
  <1> HIDE DEF e
  <1>5. /\ r \in Seq(Seq(AnyGlyph)) /\ Len(r) = n + 1 /\ r[n + 1] = e
        /\ \A i \in 1 .. n : r[i] = Marks(bytes, color)[i]
    BY <1>2, <1>4, AppendProperties
  <1> HIDE DEF r
  <1>6. Marks(more, color) = r
    <2>1. ASSUME NEW i \in 1 .. Len(r) PROVE Marks(more, color)[i] = r[i]
      <3>1. i \in 1 .. n + 1 /\ (i = n + 1 \/ i \in 1 .. n)
        BY <1>1, <1>5
      <3>2. CASE i = n + 1
        BY <1>1, <1>3, <1>4, <1>5, <3>1, <3>2, Zenon
      <3>3. CASE i \in 1 .. n
        BY <1>1, <1>2, <1>3, <1>5, <3>1, <3>3, Zenon
      <3> QED
        BY <3>1, <3>2, <3>3
    <2>2. Len(Marks(more, color)) = Len(r)
      BY <1>3, <1>5
    <2>3. \A i \in 1 .. Len(Marks(more, color)) : Marks(more, color)[i] = r[i]
      BY <2>1, <2>2
    <2> QED
      BY <1>3, <1>5, <2>2, <2>3, SeqEqual, Zenon
  <1>7. FlattenSeq(r) = FlattenSeq(Marks(bytes, color)) \o e
        /\ FlattenSeq(Marks(bytes, color)) \in Seq(AnyGlyph)
    BY <1>2, <1>4, FlattenAppend DEF r
  <1>8. \A t : FlattenSeq(Marks(t, color)) = Marked(t, color)
    BY DEF Marks, Marked
  <1> QED
    BY <1>4, <1>6, <1>7, <1>8, Zenon DEF more

LEMMA MarkedType ==
  ASSUME NEW bytes \in Seq(TextByteSet), NEW color \in Colors
  PROVE  Marked(bytes, color) \in Seq(AnyGlyph)
  <1>1. NL \in TextByteSet
    BY DEF TextByteSet
  <1> QED
    BY <1>1, MarkedMore

\* No bytes, no glyphs; a line end is a line break.
LEMMA MarkedNone ==
  ASSUME NEW color \in Colors
  PROVE  Marked(<<>>, color) = <<>> /\ Marked(<<NL>>, color) = <<LineBreak>>
  <1>1. Marks(<<>>, color) = <<>>
    BY DEF Marks
  <1>2. Marked(<<>>, color) = <<>>
    <2>1. Marked(<<>>, color) = FlattenSeq(Marks(<<>>, color))
      BY DEF Marked, Marks
    <2> QED
      BY <1>1, <2>1, FlattenNone
  <1>3. NL \in TextByteSet /\ <<>> \in Seq(TextByteSet) /\ Append(<<>>, NL) = <<NL>>
    BY DEF TextByteSet
  <1>4. Marked(<<NL>>, color) = Marked(<<>>, color) \o Mark(NL, color)
    BY <1>3, MarkedMore
  <1>5. Mark(NL, color) = <<LineBreak>>
    BY TextBoxAssumption DEF Mark
  <1> QED
    BY <1>2, <1>4, <1>5

\* One more of a sequence that is added to another.
LEMMA PrefixGrows ==
  ASSUME NEW X, NEW s \in Seq(X), NEW m \in Seq(X), NEW i \in 0 .. Len(m) - 1
  PROVE  /\ s \o SubSeq(m, 1, i) \in Seq(X)
         /\ s \o SubSeq(m, 1, i + 1) = Append(s \o SubSeq(m, 1, i), m[i + 1])
  <1> DEFINE p == SubSeq(m, 1, i)
             e == m[i + 1]
  <1>1. i \in Nat /\ i + 1 \in 1 .. Len(m) /\ 1 \in 1 .. Len(m) /\ (i + 1) - 1 = i
        /\ \A j \in 1 .. i : j \in 1 .. Len(m)
    OBVIOUS
  <1>2. p \in Seq(X) /\ e \in X
    <2>1. \A j \in 1 .. i : m[j] \in X
      BY <1>1
    <2> QED
      BY <1>1, <2>1, SubSeqProperties
  <1>3. SubSeq(m, 1, i + 1) = p \o <<e>>
    <2>1. i + 1 \in 1 .. Len(m)
      BY <1>1
    <2>2. SubSeq(m, 1, i + 1) = SubSeq(m, 1, (i + 1) - 1) \o <<m[i + 1]>>
      BY <1>1, <2>1, SubSeqRecursiveSecond
    <2> QED
      BY <1>1, <2>2
  <1> HIDE DEF p, e
  <1>4. s \o p \in Seq(X) /\ <<e>> \in Seq(X)
    BY <1>2, ConcatProperties
  <1>5. s \o (p \o <<e>>) = (s \o p) \o <<e>>
    BY <1>2, <1>4, ConcatAssociative
  <1>6. Append(s \o p, e) = (s \o p) \o <<e>>
    BY <1>2, <1>4, AppendIsConcat
  <1> QED
    BY <1>3, <1>4, <1>5, <1>6 DEF p, e

LEMMA PrefixOf ==
  ASSUME NEW X, NEW m \in Seq(X), NEW i \in 0 .. Len(m) - 1
  PROVE  /\ SubSeq(m, 1, i) \in Seq(X) /\ m[i + 1] \in X
         /\ SubSeq(m, 1, i + 1) = Append(SubSeq(m, 1, i), m[i + 1])
  <1> DEFINE p == SubSeq(m, 1, i)
             q == SubSeq(m, 1, i + 1)
  <1>1. i + 1 \in 1 .. Len(m) /\ i \in Nat /\ \A j \in 1 .. i + 1 : m[j] \in X
    OBVIOUS
  <1>2. p \in Seq(X) /\ q \in Seq(X)
    BY <1>1, SubSeqProperties
  <1>3. <<>> \o p \in Seq(X) /\ <<>> \o q = Append(<<>> \o p, m[i + 1])
    BY PrefixGrows
  <1> HIDE DEF p, q
  <1>4. <<>> \o p = p /\ <<>> \o q = q
    BY <1>2, ConcatEmptySeq
  <1> QED
    BY <1>1, <1>2, <1>3, <1>4 DEF p, q

LEMMA PositionBefore ==
  ASSUME NEW n \in Nat, NEW i \in Nat, i + 1 \in 0 .. n
  PROVE  i \in 0 .. n /\ i + 1 \in 1 .. n /\ (i + 1) - 1 = i
  OBVIOUS

\* The glyphs are those of the box and then those of the text, in the color it has.
LEMMA TextHeld ==
  ASSUME NEW tb, Laid(tb), Clean(tb), NEW s \in Seq(AnyGlyph),
         Glyphs(tb.buffer) = Append(s, LineBreak), NEW bytes \in Seq(TextByteSet)
  PROVE  Typed(WriteStr(tb, bytes), tb, s, bytes)
  <1> DEFINE n == Len(bytes)
             color == tb.color_text
             p(i) == SubSeq(bytes, 1, i)
             r(i) == s \o Marked(p(i), color)
  <1>1. n \in Nat /\ color \in Colors /\ Len(tb.visual_lines) \in Nat
    BY DEF Laid, Box
  <1>2. PICK f : WriteStr(tb, bytes) = f[n] /\ Pushes(f, tb, bytes)
    BY <1>1, WrittenBy, Zenon
  <1>3. f[0] = tb /\ \A i \in 1 .. n : f[i] = PushByte(f[i - 1], bytes[i])
    BY <1>2 DEF Pushes
  <1>4. p(n) = bytes
    BY SubSeqFull
  <1> DEFINE Good(i) == /\ Laid(f[i]) /\ Rest(f[i]) = Rest(tb)
                        /\ Len(f[i].visual_lines) >= Len(tb.visual_lines)
                        /\ Glyphs(f[i].buffer) = Append(r(i), LineBreak)
                        /\ bytes \in Seq(Printable) => Len(f[i].buffer) = Len(tb.buffer)
             Reached == {i \in Nat : i \in 0 .. n => Good(i)}
  <1>5. 0 \in Reached
    <2>1. p(0) = <<>>
      BY SubSeqEmpty
    <2>2. r(0) = s
      BY <1>1, <2>1, MarkedNone, ConcatEmptySeq
    <2>3. Good(0)
      BY <1>1, <1>3, <2>2
    <2> QED
      BY <2>3
  <1>6. ASSUME NEW i \in Nat \cap Reached PROVE i + 1 \in Reached
    <2>1. ASSUME i + 1 \in 0 .. n PROVE Good(i + 1)
      <3>1. i \in 0 .. n /\ i + 1 \in 1 .. n /\ (i + 1) - 1 = i
        BY <1>1, <2>1, PositionBefore, Zenon
      <3>2. Good(i)
        BY <3>1
      <3> DEFINE t == f[i]
                 u == f[i + 1]
                 b == bytes[i + 1]
      <3>3. u = PushByte(t, b) /\ b \in TextByteSet
        BY <1>3, <3>1
      <3>4. /\ r(i) \in Seq(AnyGlyph)
            /\ r(i + 1) = r(i) \o Mark(b, color)
        <4>1. p(i) \in Seq(TextByteSet) /\ p(i + 1) = Append(p(i), b)
          <5>1. i \in 0 .. Len(bytes) - 1
            BY <1>1, <3>1
          <5> QED
            BY <5>1, PrefixOf
        <4> HIDE DEF p, b
        <4>2. /\ Marked(p(i), color) \in Seq(AnyGlyph)
              /\ Marked(p(i + 1), color) = Marked(p(i), color) \o Mark(b, color)
          BY <1>1, <3>3, <4>1, MarkedMore
        <4>3. Mark(b, color) \in Seq(AnyGlyph)
          BY <1>1, <3>3, MarkType
        <4>4. s \o (Marked(p(i), color) \o Mark(b, color)) = (s \o Marked(p(i), color)) \o Mark(b, color)
          <5> DEFINE y == Marked(p(i), color)
                     z == Mark(b, color)
          <5>1. y \in Seq(AnyGlyph) /\ z \in Seq(AnyGlyph)
            BY <4>2, <4>3
          <5> HIDE DEF y, z
          <5>2. s \o (y \o z) = (s \o y) \o z
            BY <5>1, ConcatAssociative
          <5> QED
            BY <5>2 DEF y, z
        <4> QED
          BY <4>2, <4>4, ConcatProperties
      <3> HIDE DEF r, t, u, b
      <3>5. /\ Laid(t) /\ Rest(t) = Rest(tb) /\ Len(t.visual_lines) >= Len(tb.visual_lines)
            /\ Glyphs(t.buffer) = Append(r(i), LineBreak)
            /\ bytes \in Seq(Printable) => Len(t.buffer) = Len(tb.buffer)
        BY <3>2 DEF t
      <3>6. Clean(t) /\ t.color_text = color /\ Len(t.visual_lines) \in Nat
        <4>1. t \in Box
          BY <3>5 DEF Laid
        <4>2. Len(t.visual_lines) \in Nat
          BY <4>1 DEF Box
        <4> QED
          BY <3>5, <4>1, <4>2, SameRest
      <3>7. /\ Laid(u) /\ Rest(u) = Rest(t) /\ Len(u.visual_lines) >= Len(t.visual_lines)
            /\ Glyphs(u.buffer) = Append(r(i) \o Mark(b, color), LineBreak)
            /\ b \in Printable => Len(u.buffer) = Len(t.buffer)
        BY <3>3, <3>4, <3>5, <3>6, ByteHeld
      <3>8. Len(u.visual_lines) \in Nat
        BY <3>7 DEF Laid, Box
      <3>9. bytes \in Seq(Printable) => b \in Printable
        BY <3>1 DEF b
      <3>10. Len(u.visual_lines) >= Len(tb.visual_lines)
        <4>1. Len(tb.visual_lines) \in Nat
          BY <1>1 DEF Laid, Box
        <4> QED
          BY <3>5, <3>6, <3>7, <3>8, <4>1
      <3>11. /\ Laid(u) /\ Rest(u) = Rest(tb)
             /\ Glyphs(u.buffer) = Append(r(i + 1), LineBreak)
             /\ bytes \in Seq(Printable) => Len(u.buffer) = Len(tb.buffer)
        BY <3>4, <3>5, <3>7, <3>9, Zenon
      <3> QED
        BY <3>10, <3>11 DEF u
    <2> HIDE DEF Good
    <2> QED
      BY <2>1
  <1>7. n \in Reached
    <2> HIDE DEF Reached
    <2> QED
      BY <1>1, <1>5, <1>6, Induction, Zenon
  <1>8. Good(n)
    BY <1>1, <1>7
  <1> QED
    BY <1>2, <1>4, <1>8 DEF Typed

\* A color command changes the color.
LEMMA ColorSet ==
  ASSUME NEW tb, Laid(tb), Clean(tb), NEW c \in Colors
  PROVE  WriteStr(tb, Fg(c)) = [tb EXCEPT !.color_text = c]
  <1> DEFINE t1 == [tb EXCEPT !.state = "Escape"]
             t2 == [tb EXCEPT !.state = "Command"]
             t3 == [t2 EXCEPT !.cmd_buffer = <<c>>]
             t4 == [tb EXCEPT !.color_text = c]
  <1>1. tb \in Box /\ tb.state = "Text" /\ tb.cmd_buffer = <<>>
    BY DEF Laid, Clean
  <1>2. /\ Fg(c) = <<ESC, LEADER, c, BEL>> /\ Len(Fg(c)) = 4 /\ Len(Fg(c)) \in Nat
        /\ Fg(c)[1] = ESC /\ Fg(c)[2] = LEADER /\ Fg(c)[3] = c /\ Fg(c)[4] = BEL
    BY DEF Fg
  <1>3. PICK f : WriteStr(tb, Fg(c)) = f[4] /\ Pushes(f, tb, Fg(c))
    BY <1>2, WrittenBy, Zenon
  <1>4. /\ f[0] = tb /\ f[1] = PushByte(tb, ESC) /\ f[2] = PushByte(f[1], LEADER)
        /\ f[3] = PushByte(f[2], c) /\ f[4] = PushByte(f[3], BEL)
    <2>1. 1 \in 1 .. 4 /\ 2 \in 1 .. 4 /\ 3 \in 1 .. 4 /\ 4 \in 1 .. 4
          /\ 1 - 1 = 0 /\ 2 - 1 = 1 /\ 3 - 1 = 2 /\ 4 - 1 = 3
      OBVIOUS
    <2>2. f[0] = tb /\ \A i \in 1 .. 4 : f[i] = PushByte(f[i - 1], Fg(c)[i])
      BY <1>2, <1>3 DEF Pushes
    <2> HIDE DEF PushByte
    <2>3. f[1] = PushByte(f[0], Fg(c)[1]) /\ f[2] = PushByte(f[1], Fg(c)[2])
          /\ f[3] = PushByte(f[2], Fg(c)[3]) /\ f[4] = PushByte(f[3], Fg(c)[4])
      BY <2>1, <2>2
    <2> QED
      BY <1>2, <2>2, <2>3
  <1>5. ESC # NL /\ c # BEL
    BY TextBoxAssumption DEF ESC, NL
  <1>6. PushByte(tb, ESC) = t1
    BY <1>1, <1>5 DEF PushByte, TextByte
  <1>7. PushByte(t1, LEADER) = t2
    <2>1. t1.state = "Escape" /\ [t1 EXCEPT !.state = "Command"] = t2
      BY <1>1 DEF Box
    <2> HIDE DEF t1, t2
    <2> QED
      BY <2>1 DEF PushByte
  <1>8. PushByte(t2, c) = t3
    <2>1. t2.state = "Command" /\ t2.cmd_buffer = <<>>
          /\ [t2 EXCEPT !.cmd_buffer = Append(@, c)] = t3
      <3>1. t2 \in Box /\ t2.state = "Command" /\ t2.cmd_buffer = <<>>
        BY <1>1 DEF Box
      <3>2. Append(<<>>, c) = <<c>>
        OBVIOUS
      <3>3. \A r \in Box : [r EXCEPT !.cmd_buffer = Append(@, c)]
                            = [r EXCEPT !.cmd_buffer = Append(r.cmd_buffer, c)]
        BY DEF Box
      <3> HIDE DEF t2
      <3> QED
        BY <3>1, <3>2, <3>3
    <2> HIDE DEF t2, t3
    <2> QED
      BY <1>5, <2>1 DEF PushByte
  <1>9. PushByte(t3, BEL) = t4
    <2> DEFINE t == [t3 EXCEPT !.state = "Text"]
               u == [[t EXCEPT !.color_text = c] EXCEPT !.cmd_buffer = <<>>]
    <2>1. t3.state = "Command" /\ t.cmd_buffer = <<c>>
      BY <1>1 DEF Box
    <2>3. u = t4
      <3>1. \A r \in Box : r.state = "Text" /\ r.cmd_buffer = <<>> =>
              [[[[[r EXCEPT !.state = "Command"] EXCEPT !.cmd_buffer = <<c>>] EXCEPT !.state = "Text"]
                 EXCEPT !.color_text = c] EXCEPT !.cmd_buffer = <<>>] = [r EXCEPT !.color_text = c]
        BY DEF Box
      <3> QED
        BY <1>1, <3>1, Zenon
    <2>2. PushByte(t3, BEL) = ExecCmd(t)
      <3> HIDE DEF t3
      <3> QED
        BY <2>1 DEF PushByte
    <2> HIDE DEF t, t4
    <2>4. ExecCmd(t) = u
      <3>1. t.cmd_buffer \in {<<x>> : x \in Colors} /\ Head(t.cmd_buffer) = c
        BY <2>1
      <3> QED
        BY <3>1 DEF ExecCmd
    <2> QED
      BY <2>2, <2>3, <2>4
  <1> QED
    BY <1>3, <1>4, <1>6, <1>7, <1>8, <1>9

\* A string is written part by part.
LEMMA WrittenBoth ==
  ASSUME NEW tb, NEW a \in Seq(Byte), NEW b \in Seq(Byte)
  PROVE  WriteStr(tb, a \o b) = WriteStr(WriteStr(tb, a), b)
  <1> DEFINE m == Len(a)
             n == Len(b)
             c == a \o b
             mid == WriteStr(tb, a)
  <1>1. /\ m \in Nat /\ n \in Nat /\ Len(c) = m + n /\ Len(c) \in Nat
        /\ \A i \in 1 .. m : c[i] = a[i]
        /\ \A j \in 1 .. n : c[m + j] = b[j]
    <2>1. \A i \in 1 .. m + n : c[i] = IF i <= m THEN a[i] ELSE b[i - m]
      BY ConcatProperties
    <2>2. m \in Nat /\ n \in Nat /\ Len(c) = m + n
      BY ConcatProperties
    <2> HIDE DEF c, m, n
    <2>3. \A i \in 1 .. m : c[i] = a[i]
      BY <2>1, <2>2
    <2>4. ASSUME NEW j \in 1 .. n PROVE c[m + j] = b[j]
      <3>1. m + j \in 1 .. m + n /\ ~(m + j <= m) /\ (m + j) - m = j
        BY <2>2
      <3> QED
        BY <2>1, <3>1
    <2> QED
      BY <2>2, <2>3, <2>4
  <1>2. PICK f : WriteStr(tb, c) = f[Len(c)] /\ Pushes(f, tb, c)
    BY <1>1, WrittenBy, Zenon
  <1>3. PICK g : WriteStr(tb, a) = g[m] /\ Pushes(g, tb, a)
    BY <1>1, WrittenBy, Zenon
  <1>4. PICK h : WriteStr(mid, b) = h[n] /\ Pushes(h, mid, b)
    BY <1>1, WrittenBy, Zenon
  <1>5. /\ f[0] = tb /\ \A i \in 1 .. m + n : f[i] = PushByte(f[i - 1], c[i])
        /\ g[0] = tb /\ \A i \in 1 .. m : g[i] = PushByte(g[i - 1], a[i])
        /\ h[0] = mid /\ \A i \in 1 .. n : h[i] = PushByte(h[i - 1], b[i])
    <2> HIDE DEF c, mid
    <2> QED
      BY <1>1, <1>2, <1>3, <1>4 DEF Pushes
  <1> HIDE DEF c, m, n
  <1> DEFINE First == {i \in Nat : i \in 0 .. m => f[i] = g[i]}
             Second == {j \in Nat : j \in 0 .. n => f[m + j] = h[j]}
  <1>6. 0 \in First
    BY <1>5
  <1>7. ASSUME NEW i \in Nat \cap First PROVE i + 1 \in First
    <2>1. ASSUME i + 1 \in 0 .. m PROVE f[i + 1] = g[i + 1]
      <3>1. i + 1 \in 1 .. m + n /\ i + 1 \in 1 .. m /\ i \in 0 .. m /\ (i + 1) - 1 = i
        BY <1>1, <2>1
      <3>2. f[i + 1] = PushByte(f[i], c[i + 1]) /\ g[i + 1] = PushByte(g[i], a[i + 1])
        BY <1>5, <3>1
      <3>3. f[i] = g[i] /\ c[i + 1] = a[i + 1]
        BY <1>1, <3>1
      <3> QED
        BY <3>2, <3>3, Zenon
    <2> QED
      BY <2>1
  <1>8. f[m] = mid
    <2>1. m \in First
      <3> HIDE DEF First
      <3> QED
        BY <1>1, <1>6, <1>7, Induction, Zenon
    <2>2. m \in 0 .. m
      BY <1>1
    <2> HIDE DEF mid
    <2>3. f[m] = g[m]
      BY <2>1, <2>2
    <2> QED
      BY <1>3, <2>3 DEF mid
  <1> HIDE DEF mid
  <1>9. 0 \in Second
    BY <1>1, <1>5, <1>8
  <1>10. ASSUME NEW j \in Nat \cap Second PROVE j + 1 \in Second
    <2>1. ASSUME j + 1 \in 0 .. n PROVE f[m + (j + 1)] = h[j + 1]
      <3>1. m + (j + 1) \in 1 .. m + n /\ j + 1 \in 1 .. n /\ j \in 0 .. n /\ (j + 1) - 1 = j
            /\ (m + (j + 1)) - 1 = m + j
        BY <1>1, <2>1
      <3>2. f[m + (j + 1)] = PushByte(f[m + j], c[m + (j + 1)]) /\ h[j + 1] = PushByte(h[j], b[j + 1])
        BY <1>5, <3>1
      <3>3. f[m + j] = h[j] /\ c[m + (j + 1)] = b[j + 1]
        BY <1>1, <3>1
      <3> QED
        BY <3>2, <3>3, Zenon
    <2> QED
      BY <2>1
  <1>11. f[m + n] = h[n]
    <2>1. n \in Second
      <3> HIDE DEF Second
      <3> QED
        BY <1>1, <1>9, <1>10, Induction, Zenon
    <2>2. n \in 0 .. n
      BY <1>1
    <2> QED
      BY <2>1, <2>2
  <1> QED
    BY <1>1, <1>2, <1>4, <1>11 DEF c, mid

\* The colors of levels are colors a command can set.
LEMMA ColorsAre == "WHITE" \in Colors /\ \A level \in DOMAIN LevelColor : LevelColor[level] \in Colors
  BY TextBoxAssumption, ConsoleAssumption

\* Text, and commands, are bytes.
LEMMA BytesAre ==
  /\ \A s \in Seq(Printable) : s \in Seq(TextByteSet) /\ s \in Seq(Byte)
  /\ \A s \in Seq(TextByteSet) : s \in Seq(Byte)
  /\ \A c \in Colors : Fg(c) \in Seq(Byte)
  /\ <<NL>> \in Seq(TextByteSet)
  <1>1. Printable \subseteq TextByteSet /\ TextByteSet \subseteq Byte
        /\ Printable \subseteq Byte
    BY DEF TextByteSet, Byte
  <1>2. ASSUME NEW c \in Colors PROVE Fg(c) \in Seq(Byte)
    <2>1. ESC \in Byte /\ LEADER \in Byte /\ BEL \in Byte /\ c \in Byte
      BY DEF Byte
    <2> QED
      BY <2>1 DEF Fg
  <1>3. <<NL>> \in Seq(TextByteSet)
    BY DEF TextByteSet
  <1> QED
    BY <1>1, <1>2, <1>3, SeqMonotonic

\* A box whose color is set has the same text.
LEMMA Recolored ==
  ASSUME NEW tb, Laid(tb), Clean(tb), NEW c \in Colors
  PROVE  LET t == [tb EXCEPT !.color_text = c] IN
         /\ Laid(t) /\ Clean(t) /\ t.color_text = c /\ t.buffer = tb.buffer
         /\ t.visual_lines = tb.visual_lines /\ Fixed(t) = Fixed(tb)
  <1> DEFINE t == [tb EXCEPT !.color_text = c]
  <1>1. tb \in Box /\ "Text" \in {"Text", "Escape", "Command"} /\ <<>> \in Seq(Byte)
    BY DEF Laid
  <1>2. Extends(t, tb)
    BY <1>1, ParserOnly
  <1>3. Clean(t) /\ t.color_text = c /\ t.buffer = tb.buffer /\ t.visual_lines = tb.visual_lines
        /\ Fixed(t) = Fixed(tb)
    BY <1>1 DEF Box, Clean, Fixed
  <1> QED
    BY <1>2, <1>3 DEF Extends

\* What is shown of a logged line is its text in its color, and a line end.
LEMMA ShownIs ==
  ASSUME NEW l \in Lines
  PROVE  LET c == LevelColor[l.level] IN
         /\ l.args \in Seq(TextByteSet) /\ c \in Colors
         /\ Shown(l) = Append(Marked(l.args, c), LineBreak) /\ Shown(l) \in Seq(AnyGlyph)
  <1> DEFINE c == LevelColor[l.level]
             M == Marked(l.args, c)
  <1>1. l.args \in Seq(TextByteSet) /\ c \in Colors
    <2>1. l.args \in Seq(TextByteSet) /\ l.level \in DOMAIN LevelColor
      BY DEF Lines, TextByteSet
    <2> QED
      BY <2>1, ColorsAre
  <1>2. NL \in TextByteSet /\ Mark(NL, c) = <<LineBreak>> /\ LineBreak \in AnyGlyph
    BY TextBoxAssumption DEF TextByteSet, Mark, AnyGlyph
  <1>3. Shown(l) = Marked(Append(l.args, NL), c)
    BY DEF Shown
  <1> HIDE DEF c
  <1>4. M \in Seq(AnyGlyph) /\ Marked(Append(l.args, NL), c) = M \o Mark(NL, c)
    BY <1>1, <1>2, MarkedMore
  <1> HIDE DEF M
  <1>5. M \o <<LineBreak>> = Append(M, LineBreak) /\ Append(M, LineBreak) \in Seq(AnyGlyph)
    BY <1>2, <1>4, AppendIsConcat, AppendProperties
  <1> QED
    BY <1>1, <1>2, <1>3, <1>4, <1>5 DEF M, c

\* The log between two lines: s is what it shows.
LogHolds(t, s) ==
  /\ Laid(t) /\ Clean(t) /\ t.color_text = "WHITE"
  /\ Glyphs(t.buffer) = Append(s, LineBreak)

\* A line logged adds its own glyphs in its own color, and leaves the parser as it was.
LEMMA LineHeld ==
  ASSUME NEW tb, NEW s \in Seq(AnyGlyph), LogHolds(tb, s), NEW l \in Lines
  PROVE  LET t == LogLine(tb, l) IN
         /\ LogHolds(t, s \o Shown(l)) /\ Fixed(t) = Fixed(tb)
         /\ Len(t.visual_lines) >= Len(tb.visual_lines)
  <1> DEFINE c == LevelColor[l.level]
             args == l.args
             t1 == [tb EXCEPT !.color_text = c]
             t2 == WriteStr(t1, args)
             t3 == [t2 EXCEPT !.color_text = "WHITE"]
             t4 == WriteStr(t3, <<NL>>)
             M == Marked(args, c)
  <1>1. /\ args \in Seq(TextByteSet) /\ c \in Colors /\ "WHITE" \in Colors
        /\ Shown(l) = Append(M, LineBreak) /\ M \in Seq(AnyGlyph) /\ LineBreak \in AnyGlyph
    BY ShownIs, MarkedType, ColorsAre DEF AnyGlyph
  <1>2. Laid(tb) /\ Clean(tb) /\ tb.color_text = "WHITE"
        /\ Glyphs(tb.buffer) = Append(s, LineBreak)
    BY DEF LogHolds
  <1> HIDE DEF c, args, M
  <1>3. LogLine(tb, l) = t4
    <2> DEFINE a == Fg(c)
               b == a \o args
               d == b \o Fg("WHITE")
    <2>1. a \in Seq(Byte) /\ args \in Seq(Byte) /\ Fg("WHITE") \in Seq(Byte) /\ <<NL>> \in Seq(Byte)
      BY <1>1, BytesAre
    <2>2. LogLine(tb, l) = WriteStr(tb, d \o <<NL>>)
      BY <1>2 DEF LogLine, c, args
    <2> HIDE DEF a
    <2>3. b \in Seq(Byte)
      BY <2>1, ConcatProperties
    <2> HIDE DEF b
    <2>4. d \in Seq(Byte)
      BY <2>1, <2>3, ConcatProperties
    <2> HIDE DEF d
    <2>5. WriteStr(tb, d \o <<NL>>) = WriteStr(WriteStr(tb, d), <<NL>>)
      BY <2>1, <2>4, WrittenBoth
    <2>6. WriteStr(tb, d) = WriteStr(WriteStr(tb, b), Fg("WHITE"))
      BY <2>1, <2>3, WrittenBoth DEF d
    <2>7. WriteStr(tb, b) = WriteStr(WriteStr(tb, a), args)
      BY <2>1, WrittenBoth DEF b
    <2>8. WriteStr(tb, a) = t1
      BY <1>1, <1>2, ColorSet DEF a
    <2>9. WriteStr(t2, Fg("WHITE")) = t3
      <3> HIDE DEF t1
      <3>1. Laid(t1) /\ Clean(t1) /\ t1.color_text = c /\ t1.buffer = tb.buffer
        BY <1>1, <1>2, Recolored DEF t1
      <3>2. Typed(t2, t1, s, args)
        BY <1>1, <1>2, <3>1, TextHeld
      <3> HIDE DEF t2
      <3>3. Laid(t2) /\ Clean(t2)
        BY <3>1, <3>2, SameRest DEF Typed
      <3> QED
        BY <1>1, <3>3, ColorSet
    <2>10. WriteStr(tb, b) = t2
      BY <2>7, <2>8, Zenon
    <2> HIDE DEF t1, t2, t3
    <2>11. WriteStr(tb, d) = t3
      BY <2>6, <2>9, <2>10, Zenon
    <2> QED
      BY <2>2, <2>5, <2>11, Zenon
  <1>4. /\ Laid(t1) /\ Clean(t1) /\ t1.color_text = c /\ t1.buffer = tb.buffer
        /\ t1.visual_lines = tb.visual_lines /\ Fixed(t1) = Fixed(tb)
    BY <1>1, <1>2, Recolored
  <1> HIDE DEF t1
  <1>5. Typed(t2, t1, s, args)
    BY <1>1, <1>2, <1>4, TextHeld
  <1> HIDE DEF t2
  <1>6. /\ Laid(t2) /\ Clean(t2) /\ Fixed(t2) = Fixed(t1)
        /\ Len(t2.visual_lines) >= Len(t1.visual_lines)
        /\ Glyphs(t2.buffer) = Append(s \o M, LineBreak)
    BY <1>4, <1>5, SameRest DEF Typed, M
  <1>7. /\ Laid(t3) /\ Clean(t3) /\ t3.color_text = "WHITE" /\ t3.buffer = t2.buffer
        /\ t3.visual_lines = t2.visual_lines /\ Fixed(t3) = Fixed(t2)
    BY <1>1, <1>6, Recolored
  <1> HIDE DEF t3
  <1>8. s \o M \in Seq(AnyGlyph)
    BY <1>1, ConcatProperties
  <1>9. Typed(t4, t3, s \o M, <<NL>>)
    <2>1. Glyphs(t3.buffer) = Append(s \o M, LineBreak) /\ <<NL>> \in Seq(TextByteSet)
      BY <1>6, <1>7, BytesAre
    <2> QED
      BY <1>7, <1>8, <2>1, TextHeld
  <1> HIDE DEF t4
  <1>10. (s \o M) \o Marked(<<NL>>, "WHITE") = s \o Shown(l)
    <2>1. Marked(<<NL>>, "WHITE") = <<LineBreak>>
      BY <1>1, MarkedNone
    <2>2. Append(M, LineBreak) = M \o <<LineBreak>> /\ <<LineBreak>> \in Seq(AnyGlyph)
      BY <1>1, AppendIsConcat
    <2>3. (s \o M) \o <<LineBreak>> = s \o (M \o <<LineBreak>>)
      BY <1>1, <2>2, ConcatAssociative
    <2> QED
      BY <1>1, <2>1, <2>2, <2>3
  <1>11. /\ Laid(t4) /\ Clean(t4) /\ t4.color_text = "WHITE" /\ Fixed(t4) = Fixed(t3)
         /\ Len(t4.visual_lines) >= Len(t3.visual_lines)
         /\ Glyphs(t4.buffer) = Append(s \o Shown(l), LineBreak)
    BY <1>7, <1>9, <1>10, SameRest DEF Typed
  <1>12. /\ Len(t4.visual_lines) \in Nat /\ Len(t2.visual_lines) \in Nat
         /\ Len(tb.visual_lines) \in Nat
    <2>1. \A t : Laid(t) => Len(t.visual_lines) \in Nat
      BY DEF Laid, Box
    <2> QED
      BY <1>2, <1>6, <1>11, <2>1, Zenon
  <1>13. LogHolds(t4, s \o Shown(l)) /\ Fixed(t4) = Fixed(tb)
        /\ Len(t4.visual_lines) >= Len(tb.visual_lines)
    BY <1>4, <1>6, <1>7, <1>11, <1>12 DEF LogHolds
  <1> QED
    BY <1>3, <1>13

-----------------------------------------------------------------------------
(* Lines in the log.                                                       *)

AllShown(lines) == [i \in DOMAIN lines |-> Shown(lines[i])]

\* What all logged lines are to show, line by line and when one more is logged.
LEMMA AllShownType ==
  ASSUME NEW lines \in Seq(Lines)
  PROVE  /\ AllShown(lines) \in Seq(Seq(AnyGlyph)) /\ Len(AllShown(lines)) = Len(lines)
         /\ \A i \in 1 .. Len(lines) : AllShown(lines)[i] = Shown(lines[i])
  <1> DEFINE n == Len(lines)
  <1>1. n \in Nat /\ DOMAIN lines = 1 .. n /\ \A i \in 1 .. n : lines[i] \in Lines
    OBVIOUS
  <1>2. \A l \in Lines : Shown(l) \in Seq(AnyGlyph)
    BY ShownIs
  <1>3. AllShown(lines) \in [1 .. n -> Seq(AnyGlyph)]
        /\ \A i \in 1 .. n : AllShown(lines)[i] = Shown(lines[i])
    BY <1>1, <1>2, Zenon DEF AllShown
  <1> HIDE DEF n
  <1>4. \A X : \A e \in [1 .. n -> X] : e \in Seq(X) /\ Len(e) = n
    BY <1>1
  <1>5. AllShown(lines) \in Seq(Seq(AnyGlyph)) /\ Len(AllShown(lines)) = n
    BY <1>3, <1>4, Zenon
  <1> QED
    BY <1>3, <1>5 DEF n

LEMMA ShownMore ==
  ASSUME NEW lines \in Seq(Lines), NEW l \in Lines
  PROVE  /\ FlattenSeq(AllShown(lines)) \in Seq(AnyGlyph)
         /\ FlattenSeq(AllShown(Append(lines, l))) = FlattenSeq(AllShown(lines)) \o Shown(l)
  <1> DEFINE more == Append(lines, l)
             n == Len(lines)
             r == Append(AllShown(lines), Shown(l))
  <1>1. /\ more \in Seq(Lines) /\ Len(more) = n + 1 /\ more[n + 1] = l /\ n \in Nat
        /\ \A i \in 1 .. n : more[i] = lines[i]
    BY AppendProperties
  <1>2. /\ AllShown(lines) \in Seq(Seq(AnyGlyph)) /\ Len(AllShown(lines)) = n
        /\ \A i \in 1 .. n : AllShown(lines)[i] = Shown(lines[i])
    BY AllShownType
  <1> HIDE DEF more, n
  <1>3. /\ AllShown(more) \in Seq(Seq(AnyGlyph)) /\ Len(AllShown(more)) = n + 1
        /\ \A i \in 1 .. n + 1 : AllShown(more)[i] = Shown(more[i])
    BY <1>1, AllShownType
  <1>4. Shown(l) \in Seq(AnyGlyph)
    BY ShownIs
  <1>5. /\ r \in Seq(Seq(AnyGlyph)) /\ Len(r) = n + 1 /\ r[n + 1] = Shown(l)
        /\ \A i \in 1 .. n : r[i] = AllShown(lines)[i]
    BY <1>2, <1>4, AppendProperties
  <1> HIDE DEF r
  <1>6. AllShown(more) = r
    <2>1. ASSUME NEW i \in 1 .. Len(r) PROVE AllShown(more)[i] = r[i]
      <3>1. i \in 1 .. n + 1 /\ (i = n + 1 \/ i \in 1 .. n)
        BY <1>1, <1>5
      <3>2. CASE i = n + 1
        BY <1>1, <1>3, <1>5, <3>1, <3>2, Zenon
      <3>3. CASE i \in 1 .. n
        BY <1>1, <1>2, <1>3, <1>5, <3>1, <3>3, Zenon
      <3> QED
        BY <3>1, <3>2, <3>3
    <2>2. Len(AllShown(more)) = Len(r)
      BY <1>3, <1>5
    <2>3. \A i \in 1 .. Len(AllShown(more)) : AllShown(more)[i] = r[i]
      BY <2>1, <2>2
    <2> QED
      BY <1>3, <1>5, <2>2, <2>3, SeqEqual, Zenon
  <1>7. FlattenSeq(r) = FlattenSeq(AllShown(lines)) \o Shown(l)
        /\ FlattenSeq(AllShown(lines)) \in Seq(AnyGlyph)
    BY <1>2, <1>4, FlattenAppend DEF r
  <1> QED
    BY <1>6, <1>7 DEF more

Logs(f, tb, lines) ==
  f[0] = tb /\ \A i \in 1 .. Len(lines) : f[i] = LogLine(f[i - 1], lines[i])

\* The log after each of several lines.
LEMMA LoggedBy ==
  ASSUME NEW tb, NEW lines, Len(lines) \in Nat
  PROVE  \E f : LogLines(tb, lines) = f[Len(lines)] /\ Logs(f, tb, lines)
  <1>1. \E f : /\ LogLines(tb, lines) = f[Len(lines)]
               /\ f[0] = tb
               /\ \A i \in 1 .. Len(lines) : f[i] = LogLine(f[i - 1], lines[i])
    BY LinesLogged
  <1> QED
    BY <1>1, Zenon DEF Logs

\* The log holds what was logged, after what it held.
LEMMA LinesHeld ==
  ASSUME NEW tb, NEW old \in Seq(Lines), LogHolds(tb, FlattenSeq(AllShown(old))),
         NEW lines \in Seq(Lines)
  PROVE  LET t == LogLines(tb, lines) IN
         /\ LogHolds(t, FlattenSeq(AllShown(old \o lines))) /\ Fixed(t) = Fixed(tb)
         /\ Len(t.visual_lines) >= Len(tb.visual_lines)
  <1> DEFINE n == Len(lines)
             r(i) == old \o SubSeq(lines, 1, i)
  <1>1. n \in Nat /\ \A t : Laid(t) => Len(t.visual_lines) \in Nat
    BY DEF Laid, Box
  <1>2. PICK f : LogLines(tb, lines) = f[n] /\ Logs(f, tb, lines)
    BY <1>1, LoggedBy, Zenon
  <1>3. f[0] = tb /\ \A i \in 1 .. n : f[i] = LogLine(f[i - 1], lines[i])
    BY <1>2 DEF Logs
  <1> DEFINE Good(i) == /\ LogHolds(f[i], FlattenSeq(AllShown(r(i)))) /\ Fixed(f[i]) = Fixed(tb)
                        /\ Len(f[i].visual_lines) >= Len(tb.visual_lines)
             Reached == {i \in Nat : i \in 0 .. n => Good(i)}
  <1>5. 0 \in Reached
    <2>1. SubSeq(lines, 1, 0) = <<>>
      BY SubSeqEmpty
    <2>2. r(0) = old
      BY <2>1, ConcatEmptySeq
    <2>3. Len(tb.visual_lines) \in Nat
      BY <1>1 DEF LogHolds
    <2> HIDE DEF r
    <2>4. Good(0)
      BY <1>3, <2>2, <2>3
    <2> HIDE DEF Good
    <2> QED
      BY <2>4
  <1>6. ASSUME NEW i \in Nat \cap Reached PROVE i + 1 \in Reached
    <2>1. ASSUME i + 1 \in 0 .. n PROVE Good(i + 1)
      <3> DEFINE t == f[i]
                 u == f[i + 1]
                 l == lines[i + 1]
                 s == FlattenSeq(AllShown(r(i)))
      <3>1. i \in 0 .. n /\ i \in 0 .. n - 1 /\ i + 1 \in 1 .. n /\ (i + 1) - 1 = i
        BY <2>1
      <3>2. Good(i)
        BY <3>1
      <3>3. u = LogLine(t, l) /\ l \in Lines
        <4>1. f[i + 1] = LogLine(f[(i + 1) - 1], lines[i + 1])
          BY <1>3, <3>1, Zenon
        <4> QED
          BY <3>1, <4>1
      <3>4. r(i) \in Seq(Lines) /\ r(i + 1) = Append(r(i), l)
        BY <3>1, PrefixGrows
      <3> HIDE DEF r, l
      <3>5. s \in Seq(AnyGlyph) /\ FlattenSeq(AllShown(r(i + 1))) = s \o Shown(l)
        BY <3>3, <3>4, ShownMore
      <3>6. LogHolds(t, s) /\ Fixed(t) = Fixed(tb) /\ Len(t.visual_lines) >= Len(tb.visual_lines)
        BY <3>2 DEF t, s
      <3> HIDE DEF t, u, s
      <3>7. /\ LogHolds(u, s \o Shown(l)) /\ Fixed(u) = Fixed(t)
            /\ Len(u.visual_lines) >= Len(t.visual_lines)
        BY <3>3, <3>5, <3>6, LineHeld
      <3>8. /\ Len(u.visual_lines) \in Nat /\ Len(t.visual_lines) \in Nat
            /\ Len(tb.visual_lines) \in Nat
        BY <1>1, <3>6, <3>7 DEF LogHolds
      <3>9. Len(u.visual_lines) >= Len(tb.visual_lines)
        BY <3>6, <3>7, <3>8
      <3> QED
        BY <3>5, <3>6, <3>7, <3>9 DEF u
    <2> HIDE DEF Good
    <2> QED
      BY <2>1
  <1>7. n \in Reached
    <2> HIDE DEF Reached
    <2> QED
      BY <1>1, <1>5, <1>6, Induction, Zenon
  <1>8. SubSeq(lines, 1, n) = lines
    BY SubSeqFull
  <1>9. Good(n)
    BY <1>1, <1>7
  <1> QED
    BY <1>2, <1>8, <1>9

-----------------------------------------------------------------------------
(* The line of the console.                                                *)

\* The bytes of glyphs, and of glyphs one after the other.
LEMMA BytesType ==
  ASSUME NEW s \in Seq(Glyph)
  PROVE  /\ Bytes(s) \in Seq(Printable) /\ Len(Bytes(s)) = Len(s)
         /\ \A i \in 1 .. Len(s) : Bytes(s)[i] = s[i].b
  <1> DEFINE n == Len(s)
  <1>1. n \in Nat /\ DOMAIN s = 1 .. n /\ \A i \in 1 .. n : s[i] \in Glyph
    OBVIOUS
  <1>2. \A g \in Glyph : g.b \in Printable
    BY DEF Glyph
  <1>3. Bytes(s) \in [1 .. n -> Printable] /\ \A i \in 1 .. n : Bytes(s)[i] = s[i].b
    BY <1>1, <1>2, Zenon DEF Bytes
  <1> HIDE DEF n
  <1>4. \A X : \A e \in [1 .. n -> X] : e \in Seq(X) /\ Len(e) = n
    BY <1>1
  <1>5. Bytes(s) \in Seq(Printable) /\ Len(Bytes(s)) = n
    BY <1>3, <1>4, Zenon
  <1> QED
    BY <1>3, <1>5 DEF n

\* A string of printable bytes has a glyph for each.
LEMMA PlainMarked ==
  ASSUME NEW bytes \in Seq(Printable), NEW color \in Colors
  PROVE  Marked(bytes, color) = [i \in DOMAIN bytes |-> [b |-> bytes[i], color |-> color]]
  <1> DEFINE n == Len(bytes)
             G == [i \in DOMAIN bytes |-> [b |-> bytes[i], color |-> color]]
             p(i) == SubSeq(bytes, 1, i)
             q(i) == SubSeq(G, 1, i)
             Reached == {i \in Nat : i \in 0 .. n => Marked(p(i), color) = q(i)}
  <1>1. n \in Nat /\ DOMAIN bytes = 1 .. n /\ \A i \in 1 .. n : bytes[i] \in Printable
    OBVIOUS
  <1>2. NL \notin Printable /\ bytes \in Seq(TextByteSet)
    BY TextBoxAssumption, BytesAre
  <1>3. G \in [1 .. n -> Glyph] /\ \A i \in 1 .. n : G[i] = [b |-> bytes[i], color |-> color]
    BY <1>1 DEF Glyph
  <1> HIDE DEF G
  <1>4. G \in Seq(Glyph) /\ Len(G) = n
    <2> HIDE DEF n
    <2>1. \A X : \A e \in [1 .. n -> X] : e \in Seq(X) /\ Len(e) = n
      BY <1>1
    <2> QED
      BY <1>3, <2>1, Zenon
  <1>5. 0 \in Reached
    <2>1. p(0) = <<>> /\ q(0) = <<>>
      BY SubSeqEmpty
    <2> QED
      BY <2>1, MarkedNone
  <1>6. ASSUME NEW i \in Nat \cap Reached PROVE i + 1 \in Reached
    <2>1. ASSUME i + 1 \in 0 .. n PROVE Marked(p(i + 1), color) = q(i + 1)
      <3>1. i \in 0 .. Len(bytes) - 1 /\ i \in 0 .. Len(G) - 1 /\ i + 1 \in 1 .. n
            /\ Marked(p(i), color) = q(i)
        BY <1>1, <1>4, <2>1
      <3>2. /\ p(i) \in Seq(TextByteSet) /\ bytes[i + 1] \in TextByteSet
            /\ p(i + 1) = Append(p(i), bytes[i + 1])
        BY <1>2, <3>1, PrefixOf
      <3>3. /\ q(i) \in Seq(Glyph) /\ G[i + 1] \in Glyph
            /\ q(i + 1) = Append(q(i), G[i + 1])
        BY <1>4, <3>1, PrefixOf
      <3>4. Mark(bytes[i + 1], color) = <<G[i + 1]>>
        BY <1>1, <1>2, <1>3, <3>1 DEF Mark
      <3> HIDE DEF p, q
      <3>5. Marked(p(i + 1), color) = Marked(p(i), color) \o Mark(bytes[i + 1], color)
        BY <3>2, MarkedMore
      <3>6. q(i) \o <<G[i + 1]>> = Append(q(i), G[i + 1])
        BY <3>3, AppendIsConcat
      <3> QED
        BY <3>1, <3>3, <3>4, <3>5, <3>6
    <2> QED
      BY <2>1
  <1>7. n \in Reached
    <2> HIDE DEF Reached
    <2> QED
      BY <1>1, <1>5, <1>6, Induction, Zenon
  <1>8. p(n) = bytes /\ q(n) = G
    BY <1>4, SubSeqFull
  <1>9. Marked(p(n), color) = q(n)
    BY <1>1, <1>7
  <1> HIDE DEF p, q
  <1> QED
    BY <1>8, <1>9 DEF G

\* The text of glyphs followed by a string in one color.
LEMMA BytesOfBoth ==
  ASSUME NEW s \in Seq(Glyph), NEW bytes \in Seq(Printable), NEW color \in Colors
  PROVE  /\ Marked(bytes, color) \in Seq(Glyph)
         /\ Bytes(s \o Marked(bytes, color)) = Bytes(s) \o bytes
  <1> DEFINE M == Marked(bytes, color)
             m == Len(s)
             n == Len(bytes)
             v == s \o M
             r == Bytes(s) \o bytes
  <1>1. /\ n \in Nat /\ m \in Nat /\ DOMAIN bytes = 1 .. n
        /\ \A i \in 1 .. n : bytes[i] \in Printable
    OBVIOUS
  <1>2. NL \notin Printable
    BY TextBoxAssumption
  <1>3. M = [i \in 1 .. n |-> [b |-> bytes[i], color |-> color]]
    BY <1>1, PlainMarked
  <1>4. M \in [1 .. n -> Glyph] /\ \A i \in 1 .. n : M[i].b = bytes[i]
    BY <1>1, <1>3 DEF Glyph
  <1> HIDE DEF M
  <1>5. M \in Seq(Glyph) /\ Len(M) = n
    <2> HIDE DEF n
    <2>1. \A X : \A e \in [1 .. n -> X] : e \in Seq(X) /\ Len(e) = n
      BY <1>1
    <2> QED
      BY <1>4, <2>1, Zenon
  <1>6. /\ v \in Seq(Glyph) /\ Len(v) = m + n
        /\ \A i \in 1 .. m + n : v[i] = IF i <= m THEN s[i] ELSE M[i - m]
    <2>1. /\ v \in Seq(Glyph) /\ Len(v) = Len(s) + Len(M)
          /\ \A i \in 1 .. Len(s) + Len(M) : v[i] = IF i <= Len(s) THEN s[i] ELSE M[i - Len(s)]
      BY <1>5, ConcatProperties
    <2> HIDE DEF v
    <2> QED
      BY <1>5, <2>1
  <1> HIDE DEF v
  <1>7. /\ Bytes(v) \in Seq(Printable) /\ Len(Bytes(v)) = m + n
        /\ \A i \in 1 .. m + n : Bytes(v)[i] = v[i].b
    <2>1. /\ Bytes(v) \in Seq(Printable) /\ Len(Bytes(v)) = Len(v)
          /\ \A i \in 1 .. Len(v) : Bytes(v)[i] = v[i].b
      BY <1>6, BytesType
    <2> QED
      BY <1>6, <2>1
  <1>8. /\ Bytes(s) \in Seq(Printable) /\ Len(Bytes(s)) = m
        /\ \A i \in 1 .. m : Bytes(s)[i] = s[i].b
    BY BytesType
  <1>9. /\ r \in Seq(Printable) /\ Len(r) = m + n
        /\ \A i \in 1 .. m + n : r[i] = IF i <= m THEN Bytes(s)[i] ELSE bytes[i - m]
    <2> DEFINE p == Bytes(s)
    <2>1. p \in Seq(Printable) /\ Len(p) = m
      BY <1>8
    <2> HIDE DEF p
    <2>2. /\ p \o bytes \in Seq(Printable) /\ Len(p \o bytes) = Len(p) + n
          /\ \A i \in 1 .. Len(p) + n : (p \o bytes)[i] = IF i <= Len(p) THEN p[i] ELSE bytes[i - Len(p)]
      BY <2>1, ConcatProperties
    <2> QED
      BY <2>1, <2>2 DEF p
  <1> HIDE DEF r, m, n
  <1>10. ASSUME NEW i \in 1 .. m + n PROVE Bytes(v)[i] = r[i]
    <2>1. CASE i <= m
      <3>1. i \in 1 .. m
        BY <1>1, <2>1
      <3> QED
        BY <1>6, <1>7, <1>8, <1>9, <2>1, <3>1, Zenon
    <2>2. CASE ~(i <= m)
      <3>1. i - m \in 1 .. n
        BY <1>1, <2>2
      <3> QED
        BY <1>1, <1>3, <1>4, <1>6, <1>7, <1>9, <2>2, <3>1, Zenon
    <2> QED
      BY <2>1, <2>2
  <1>11. Bytes(v) = r
    BY <1>7, <1>9, <1>10, SeqEqual
  <1> QED
    BY <1>5, <1>11 DEF v, r, M

\* A box of one logical line holds that line's glyphs and a break.
LEMMA OneLine ==
  ASSUME NEW buffer \in Seq(Seq(Glyph)), Len(buffer) = 1
  PROVE  /\ Glyphs(buffer) = Append(buffer[1], LineBreak)
         /\ buffer[1] \in Seq(Glyph) /\ buffer[1] \in Seq(AnyGlyph)
  <1>1. buffer[1] \in Seq(Glyph)
    OBVIOUS
  <1>2. buffer[1] \in Seq(AnyGlyph) /\ LineBreak \in AnyGlyph
    BY <1>1, SeqMonotonic DEF AnyGlyph
  <1> DEFINE e == Append(buffer[1], LineBreak)
  <1>3. e \in Seq(AnyGlyph)
    BY <1>2, AppendProperties
  <1>4. /\ Ended(buffer) \in Seq(Seq(AnyGlyph)) /\ Len(Ended(buffer)) = 1
        /\ Ended(buffer)[1] = e
        /\ Glyphs(buffer) = FlattenSeq(Ended(buffer))
    BY EndedType
  <1> HIDE DEF e
  <1>5. Ended(buffer) = <<e>>
    BY <1>4
  <1>6. FlattenSeq(<<e>>) = e
    BY <1>3, FlattenOne
  <1> QED
    BY <1>1, <1>2, <1>4, <1>5, <1>6 DEF e

\* Text that is typed into a box of one line makes it longer.
LEMMA LineTyped ==
  ASSUME NEW tb, Laid(tb), Clean(tb), Len(tb.buffer) = 1, NEW bytes \in Seq(Printable)
  PROVE  LET t == WriteStr(tb, bytes) IN
         /\ Laid(t) /\ Rest(t) = Rest(tb) /\ Len(t.buffer) = 1
         /\ Bytes(t.buffer[1]) = Bytes(tb.buffer[1]) \o bytes
  <1> DEFINE t == WriteStr(tb, bytes)
             s == tb.buffer[1]
             M == Marked(bytes, tb.color_text)
  <1>1. tb.buffer \in Seq(Seq(Glyph)) /\ tb.color_text \in Colors
    BY DEF Laid, Box
  <1>2. Glyphs(tb.buffer) = Append(s, LineBreak) /\ s \in Seq(Glyph) /\ s \in Seq(AnyGlyph)
    BY <1>1, OneLine
  <1>3. bytes \in Seq(TextByteSet)
    BY BytesAre
  <1>4. Typed(t, tb, s, bytes)
    BY <1>2, <1>3, TextHeld
  <1> HIDE DEF t
  <1>5. /\ Laid(t) /\ Rest(t) = Rest(tb) /\ Len(t.buffer) = 1
        /\ Glyphs(t.buffer) = Append(s \o M, LineBreak)
    BY <1>4 DEF Typed
  <1>6. t.buffer \in Seq(Seq(Glyph))
    BY <1>5 DEF Laid, Box
  <1>7. Glyphs(t.buffer) = Append(t.buffer[1], LineBreak) /\ t.buffer[1] \in Seq(AnyGlyph)
    BY <1>5, <1>6, OneLine
  <1>8. M \in Seq(Glyph) /\ Bytes(s \o M) = Bytes(s) \o bytes
    BY <1>1, <1>2, BytesOfBoth
  <1> HIDE DEF M, s
  <1>9. s \o M \in Seq(AnyGlyph) /\ LineBreak \in AnyGlyph
    <2>1. M \in Seq(AnyGlyph) /\ LineBreak \in AnyGlyph
      BY <1>8, SeqMonotonic DEF AnyGlyph
    <2> QED
      BY <1>2, <2>1, ConcatProperties
  <1>10. t.buffer[1] = s \o M
    <2>1. Append(t.buffer[1], LineBreak) = Append(s \o M, LineBreak)
      BY <1>5, <1>7, Zenon
    <2> QED
      BY <1>7, <1>9, <2>1, SameFront, Zenon
  <1> QED
    BY <1>5, <1>8, <1>10 DEF t, s

\* An empty box.
LEMMA Fresh ==
  ASSUME NEW tb, tb.size \in [x : Nat, y : Nat], tb.size.x >= 3 * PADDING + ADVANCE
  PROVE  LET t == Reset(tb) IN
         /\ Laid(t) /\ Clean(t) /\ t.color_text = "WHITE" /\ t.size = tb.size
         /\ t.scroll_offset = 0 /\ t.cursor_idx = -1
         /\ Len(t.buffer) = 1 /\ t.buffer[1] = <<>> /\ Len(t.visual_lines) = 1
         /\ LogHolds(t, <<>>)
  <1> DEFINE t == Reset(tb)
             e == [line_idx |-> 1, start |-> 0, end |-> 0]
             k == PerLine(t)
             cuts == [j \in DOMAIN t.buffer |-> Cut(t, j)]
  <1>1. /\ t.size = tb.size /\ t.buffer = << <<>> >> /\ t.visual_lines = <<e>>
        /\ t.scroll_offset = 0 /\ t.cursor_idx = -1 /\ t.color_text = "WHITE"
        /\ t.cursor_x = PADDING /\ t.state = "Text" /\ t.cmd_buffer = <<>>
    BY DEF Reset
  <1>2. << <<>> >> \in Seq(Seq(Glyph)) /\ e \in VisualLine /\ <<e>> \in Seq(VisualLine)
    BY DEF VisualLine
  <1>3. t \in Box
    <2>1. <<>> \in Seq(Byte) /\ PADDING \in Nat /\ "WHITE" \in Colors /\ -1 \in Int /\ 0 \in Nat
      BY TextBoxAssumption
    <2> HIDE DEF e
    <2> QED
      BY <1>2, <2>1 DEF Reset, Box, e
  <1> HIDE DEF t
  <1>4. t.size.x \in Nat /\ t.size.x >= 3 * PADDING + ADVANCE
    BY <1>1
  <1>5. k \in Nat \ {0}
    BY <1>4, Fit
  <1>6. cuts \in Seq(Seq(VisualLine)) /\ Len(cuts) = 1 /\ cuts[1] = <<e>>
    <2>1. Len(t.buffer) = 1 /\ Len(t.buffer[1]) = 0 /\ t.buffer[1] = <<>>
      BY <1>1
    <2>2. /\ cuts \in Seq(Seq(VisualLine)) /\ Len(cuts) = 1 /\ cuts[1] = CutOf(1, Len(t.buffer[1]), k)
      <3>1. /\ cuts \in Seq(Seq(VisualLine)) /\ Len(cuts) = Len(t.buffer)
            /\ \A n \in 1 .. Len(t.buffer) : cuts[n] = CutOf(n, Len(t.buffer[n]), k)
        BY <1>3, <1>4, CutsAre
      <3> HIDE DEF cuts, k
      <3> QED
        BY <2>1, <3>1
    <2>3. CutOf(1, 0, k) = <<e>>
      BY <1>5, CutNothing
    <2> HIDE DEF cuts, k, e
    <2> QED
      BY <2>1, <2>2, <2>3
  <1>7. IsWrapped(t)
    <2> HIDE DEF cuts, e
    <2>1. cuts = << <<e>> >>
      BY <1>6
    <2>2. FlattenSeq(<< <<e>> >>) = <<e>>
      BY <1>2, FlattenOne
    <2> QED
      BY <1>1, <2>1, <2>2 DEF IsWrapped, cuts
  <1>8. PADDING = PADDING + (e.end - e.start) * ADVANCE /\ Last(<<e>>) = e
    BY TextBoxAssumption DEF Last
  <1>9. Len(t.buffer) = 1 /\ t.buffer[1] = <<>> /\ Len(t.visual_lines) = 1
        /\ t.buffer # <<>> /\ t.visual_lines # <<>>
    BY <1>1
  <1>10. Laid(t)
    <2> HIDE DEF e
    <2> QED
      BY <1>1, <1>3, <1>4, <1>7, <1>8, <1>9 DEF Laid
  <1>11. Clean(t)
    BY <1>1 DEF Clean
  <1>12. Glyphs(t.buffer) = Append(<<>>, LineBreak)
    <2>1. t.buffer \in Seq(Seq(Glyph))
      BY <1>3 DEF Box
    <2> QED
      BY <1>9, <2>1, OneLine
  <1> QED
    BY <1>1, <1>9, <1>10, <1>11, <1>12 DEF t, LogHolds

\* What the console shows.
ShownText(text, on) == PROMPT \o (IF on \/ text # <<>> THEN text ELSE PLACEHOLDER_TEXT)

\* What update_text writes is the prompt and the input, or the placeholder.
LEMMA ContentShown ==
  ASSUME NEW tb, tb.size \in [x : Nat, y : Nat], tb.size.x >= 3 * PADDING + ADVANCE,
         NEW text \in Seq(Printable), NEW on \in BOOLEAN
  PROVE  LET t == SetText(tb, Content(text, on)) IN
         /\ Laid(t) /\ Fixed(t) = <<tb.size, 0, -1>>
         /\ Len(t.buffer) = 1 /\ Bytes(t.buffer[1]) = ShownText(text, on)
  <1> DEFINE t0 == Reset(tb)
             t == WriteStr(t0, Content(text, on))
  <1>1. /\ Laid(t0) /\ Clean(t0) /\ t0.size = tb.size /\ t0.scroll_offset = 0
        /\ t0.cursor_idx = -1 /\ t0.color_text = "WHITE" /\ Len(t0.buffer) = 1 /\ t0.buffer[1] = <<>>
    BY Fresh
  <1>2. SetText(tb, Content(text, on)) = t
    BY DEF SetText
  <1> HIDE DEF t0
  <1>3. PROMPT \in Seq(Printable) /\ PLACEHOLDER_TEXT \in Seq(Printable)
        /\ "LIGHT_GRAY" \in Colors /\ "WHITE" \in Colors
    <2>1. LevelColor["DEBUG"] = "LIGHT_GRAY" /\ "DEBUG" \in DOMAIN LevelColor
      BY DEF LevelColor
    <2> QED
      BY <2>1, ColorsAre, ConsoleAssumption
  <1>4. Fixed(t0) = <<tb.size, 0, -1>>
    BY <1>1 DEF Fixed
  <1>5. ASSUME NEW s \in Seq(Printable) PROVE Bytes(t0.buffer[1]) \o s = s
    <2>1. Bytes(<<>>) = <<>>
      <3>1. <<>> \in Seq(Glyph)
        OBVIOUS
      <3>2. Bytes(<<>>) \in Seq(Printable) /\ Len(Bytes(<<>>)) = 0
        BY <3>1, BytesType
      <3> QED
        BY <3>2
    <2> QED
      BY <1>1, <2>1, ConcatEmptySeq
  <1>6. CASE text = <<>> /\ ~on
    <2> DEFINE g == Fg("LIGHT_GRAY")
               w == Fg("WHITE")
               a == PROMPT \o g
               b == a \o PLACEHOLDER_TEXT
               t1 == WriteStr(t0, PROMPT)
               t2 == [t1 EXCEPT !.color_text = "LIGHT_GRAY"]
               t3 == WriteStr(t2, PLACEHOLDER_TEXT)
               t4 == [t3 EXCEPT !.color_text = "WHITE"]
    <2>1. PROMPT \in Seq(Byte) /\ PLACEHOLDER_TEXT \in Seq(Byte) /\ g \in Seq(Byte) /\ w \in Seq(Byte)
      BY <1>3, BytesAre
    <2>2. Content(text, on) = b \o w
      BY <1>6 DEF Content
    <2>3. ShownText(text, on) = PROMPT \o PLACEHOLDER_TEXT
      BY <1>6 DEF ShownText
    <2> HIDE DEF t1
    <2>4. /\ Laid(t1) /\ Rest(t1) = Rest(t0) /\ Len(t1.buffer) = 1
          /\ Bytes(t1.buffer[1]) = PROMPT
      BY <1>1, <1>3, <1>5, LineTyped DEF t1
    <2>5. Clean(t1) /\ Fixed(t1) = Fixed(t0)
      BY <1>1, <2>4, SameRest
    <2>6. WriteStr(t1, g) = t2
      BY <1>3, <2>4, <2>5, ColorSet
    <2>7. /\ Laid(t2) /\ Clean(t2) /\ t2.buffer = t1.buffer /\ Fixed(t2) = Fixed(t1)
      BY <1>3, <2>4, <2>5, Recolored
    <2> HIDE DEF t2, t3
    <2>8. /\ Laid(t3) /\ Rest(t3) = Rest(t2) /\ Len(t3.buffer) = 1
          /\ Bytes(t3.buffer[1]) = PROMPT \o PLACEHOLDER_TEXT
      BY <1>3, <2>4, <2>7, LineTyped DEF t3
    <2>9. Clean(t3) /\ Fixed(t3) = Fixed(t2)
      BY <2>7, <2>8, SameRest
    <2>10. WriteStr(t3, w) = t4
      BY <1>3, <2>8, <2>9, ColorSet
    <2>11. /\ Laid(t4) /\ t4.buffer = t3.buffer /\ Fixed(t4) = Fixed(t3)
      BY <1>3, <2>8, <2>9, Recolored
    <2> HIDE DEF t4, t, g, w
    <2>12. a \in Seq(Byte)
      BY <2>1, ConcatProperties
    <2>13. WriteStr(t0, a) = t2
      BY <2>1, <2>6, WrittenBoth DEF t1
    <2> HIDE DEF a
    <2>14. b \in Seq(Byte)
      BY <2>1, <2>12, ConcatProperties
    <2>15. WriteStr(t0, b) = t3
      BY <2>1, <2>12, <2>13, WrittenBoth DEF t3
    <2> HIDE DEF b
    <2>16. WriteStr(t0, b \o w) = t4
      BY <2>1, <2>10, <2>14, <2>15, WrittenBoth
    <2>17. t = t4
      BY <2>2, <2>16 DEF t
    <2> QED
      BY <1>2, <1>4, <2>3, <2>5, <2>7, <2>8, <2>9, <2>11, <2>17
  <1>7. CASE ~(text = <<>> /\ ~on)
    <2> DEFINE s == PROMPT \o text
    <2>1. Content(text, on) = s /\ ShownText(text, on) = s
      BY <1>7 DEF Content, ShownText
    <2>2. s \in Seq(Printable)
      BY <1>3, ConcatProperties
    <2> HIDE DEF s, t
    <2>3. t = WriteStr(t0, s)
      BY <2>1 DEF t
    <2>4. /\ Laid(t) /\ Rest(t) = Rest(t0) /\ Len(t.buffer) = 1 /\ Bytes(t.buffer[1]) = s
      BY <1>1, <1>5, <2>2, <2>3, LineTyped
    <2>5. Fixed(t) = Fixed(t0)
      BY <2>4, SameRest
    <2> QED
      BY <1>2, <1>4, <2>1, <2>4, <2>5
  <1> QED
    BY <1>6, <1>7

-----------------------------------------------------------------------------
(* The invariant.                                                          *)

ConsoleSize == [x |-> LOG_WIDTH, y |-> 2 * PADDING + LINE_HEIGHT]
LogSize == [x |-> LOG_WIDTH, y |-> LOG_HEIGHT]

LineInv ==
  /\ input \in Seq(Printable) /\ Len(input) <= MAX_INPUT_LEN
  /\ cursor_pos \in 0 .. Len(input) /\ active \in BOOLEAN

\* The console is one line, of what it is to show, and never scrolled.
ConsoleInv ==
  /\ Laid(console) /\ Fixed(console) =
       <<ConsoleSize, 0, IF active THEN Len(PROMPT) + cursor_pos ELSE -1>>
  /\ Len(console.buffer) = 1 /\ Bytes(console.buffer[1]) = ShownText(input, active)

\* The log holds what was logged, and is scrolled no higher than its first line.
LogInv ==
  /\ logged \in Seq(Lines) /\ LogHolds(log, FlattenSeq(AllShown(logged)))
  /\ log.size = LogSize /\ log.scroll_offset <= MaxScrollOffset(log)

Inv == LineInv /\ ConsoleInv /\ LogInv

\* The panels have room for a glyph.
LEMMA Sizes ==
  /\ ConsoleSize \in [x : Nat, y : Nat] /\ ConsoleSize.x >= 3 * PADDING + ADVANCE
  /\ LogSize \in [x : Nat, y : Nat] /\ LogSize.x >= 3 * PADDING + ADVANCE
  /\ ConsolePanel.size = ConsoleSize /\ LogPanel.size = LogSize
  /\ PADDING \in Nat /\ ADVANCE \in Nat \ {0} /\ LINE_HEIGHT \in Nat \ {0}
  /\ MAX_INPUT_LEN \in Nat
  <1>1. PADDING \in Nat /\ ADVANCE \in Nat \ {0} /\ LINE_HEIGHT \in Nat \ {0}
        /\ LOG_WIDTH \in Nat /\ LOG_WIDTH >= 3 * PADDING + ADVANCE /\ LOG_HEIGHT \in Nat
        /\ MAX_INPUT_LEN \in Nat
    BY TextBoxAssumption, ConsoleAssumption
  <1>2. 2 * PADDING + 1 * LINE_HEIGHT = 2 * PADDING + LINE_HEIGHT
    BY <1>1
  <1>3. ConsolePanel.size = ConsoleSize /\ LogPanel.size = LogSize
    BY <1>2 DEF ConsolePanel, LogPanel, New, Reset, MinDimensions, ConsoleSize, LogSize
  <1> QED
    BY <1>1, <1>3 DEF ConsoleSize, LogSize

\* Neither the cursor nor scrolling is part of the layout.
LEMMA ViewOnly ==
  ASSUME NEW tb, Laid(tb), NEW i \in Int, NEW n \in Nat
  PROVE  /\ LET t == [tb EXCEPT !.cursor_idx = i] IN
            Laid(t) /\ t.buffer = tb.buffer /\ Fixed(t) = <<tb.size, tb.scroll_offset, i>>
         /\ LET t == [tb EXCEPT !.scroll_offset = n] IN
            Laid(t) /\ t.buffer = tb.buffer /\ t.visual_lines = tb.visual_lines /\ t.size = tb.size
            /\ t.scroll_offset = n /\ (Clean(tb) => Clean(t)) /\ t.color_text = tb.color_text
  <1>1. tb \in Box
    BY DEF Laid
  <1>2. ASSUME NEW t, t \in Box, t.buffer = tb.buffer, t.visual_lines = tb.visual_lines,
               t.cursor_x = tb.cursor_x, t.size = tb.size
        PROVE  Laid(t)
    <2>1. IsWrapped(t)
      <3>1. PerLine(t) = PerLine(tb)
        BY <1>2 DEF PerLine, LineEnd
      <3>2. \A j : Cut(t, j) = Cut(tb, j)
        BY <1>2, <3>1 DEF Cut
      <3>3. [j \in DOMAIN t.buffer |-> Cut(t, j)] = [j \in DOMAIN tb.buffer |-> Cut(tb, j)]
        BY <1>2, <3>2, Zenon
      <3> QED
        BY <1>2, <3>3 DEF Laid, IsWrapped
    <2> QED
      BY <1>1, <1>2, <2>1 DEF Laid
  <1>3. LET t == [tb EXCEPT !.cursor_idx = i] IN
        Laid(t) /\ t.buffer = tb.buffer /\ Fixed(t) = <<tb.size, tb.scroll_offset, i>>
    <2> DEFINE t == [tb EXCEPT !.cursor_idx = i]
    <2>1. t \in Box /\ t.buffer = tb.buffer /\ t.visual_lines = tb.visual_lines
          /\ t.cursor_x = tb.cursor_x /\ t.size = tb.size
          /\ Fixed(t) = <<tb.size, tb.scroll_offset, i>>
      BY <1>1 DEF Box, Fixed
    <2> HIDE DEF t
    <2>2. Laid(t)
      BY <1>2, <2>1
    <2> QED
      BY <2>1, <2>2 DEF t
  <1>4. LET t == [tb EXCEPT !.scroll_offset = n] IN
        Laid(t) /\ t.buffer = tb.buffer /\ t.visual_lines = tb.visual_lines /\ t.size = tb.size
        /\ t.scroll_offset = n /\ (Clean(tb) => Clean(t)) /\ t.color_text = tb.color_text
    <2> DEFINE t == [tb EXCEPT !.scroll_offset = n]
    <2>1. t \in Box /\ t.buffer = tb.buffer /\ t.visual_lines = tb.visual_lines
          /\ t.cursor_x = tb.cursor_x /\ t.size = tb.size
          /\ t.scroll_offset = n /\ (Clean(tb) => Clean(t)) /\ t.color_text = tb.color_text
      BY <1>1 DEF Box, Clean
    <2> HIDE DEF t
    <2>2. Laid(t)
      BY <1>2, <2>1
    <2> QED
      BY <2>1, <2>2 DEF t
  <1> QED
    BY <1>3, <1>4

\* The console after its text is updated, whatever it showed.
LEMMA ConsoleSet ==
  ASSUME NEW tb, tb.size = ConsoleSize, NEW text \in Seq(Printable), NEW on \in BOOLEAN,
         NEW i \in Int
  PROVE  LET t == SetCursorIndex(SetText(tb, Content(text, on)), i) IN
         /\ Laid(t) /\ Fixed(t) = <<ConsoleSize, 0, i>>
         /\ Len(t.buffer) = 1 /\ Bytes(t.buffer[1]) = ShownText(text, on)
  <1> DEFINE u == SetText(tb, Content(text, on))
             t == [u EXCEPT !.cursor_idx = i]
  <1>1. tb.size \in [x : Nat, y : Nat] /\ tb.size.x >= 3 * PADDING + ADVANCE
    BY Sizes
  <1>2. /\ Laid(u) /\ Fixed(u) = <<tb.size, 0, -1>>
        /\ Len(u.buffer) = 1 /\ Bytes(u.buffer[1]) = ShownText(text, on)
    BY <1>1, ContentShown
  <1>3. SetCursorIndex(u, i) = t
    BY DEF SetCursorIndex
  <1> HIDE DEF u
  <1>4. Laid(t) /\ t.buffer = u.buffer /\ Fixed(t) = <<u.size, u.scroll_offset, i>>
    BY <1>2, ViewOnly
  <1>5. u.size = ConsoleSize /\ u.scroll_offset = 0
    BY <1>2 DEF Fixed
  <1> HIDE DEF t
  <1>6. Laid(t) /\ Fixed(t) = <<ConsoleSize, 0, i>> /\ Len(t.buffer) = 1
        /\ Bytes(t.buffer[1]) = ShownText(text, on)
    BY <1>2, <1>4, <1>5
  <1> QED
    BY <1>3, <1>6 DEF u

\* update_text makes the console show the line as it is now.
LEMMA TextUpdated ==
  ASSUME ConsoleInv, LineInv', UpdateText
  PROVE  ConsoleInv'
  <1> DEFINE i == IF active' THEN Len(PROMPT) + cursor_pos' ELSE -1
  <1>1. console.size = ConsoleSize
    BY DEF ConsoleInv, Fixed
  <1>2. i \in Int /\ input' \in Seq(Printable) /\ active' \in BOOLEAN
    BY ConsoleAssumption DEF LineInv
  <1>3. console' = SetCursorIndex(SetText(console, Content(input', active')), i)
    BY DEF UpdateText
  <1> HIDE DEF i
  <1>4. /\ Laid(console') /\ Fixed(console') = <<ConsoleSize, 0, i>>
        /\ Len(console'.buffer) = 1
        /\ Bytes(console'.buffer[1]) = ShownText(input', active')
    BY <1>1, <1>2, <1>3, ConsoleSet
  <1>5. Fixed(console)' = Fixed(console') /\ ShownText(input, active)' = ShownText(input', active')
        /\ Laid(console)' = Laid(console') /\ ConsoleSize' = ConsoleSize
        /\ Bytes(console.buffer[1])' = Bytes(console'.buffer[1])
    BY DEF Fixed, ShownText, ConsoleSize, Bytes
  <1> QED
    BY <1>4, <1>5 DEF ConsoleInv, i

\* Lines that arrive are added to the log, which is scrolled as it was.
LEMMA LogWritten ==
  ASSUME LogInv, NEW lines \in Seq(Lines), WriteLog(lines)
  PROVE  LogInv'
  <1> DEFINE s == FlattenSeq(AllShown(logged))
             r == FlattenSeq(AllShown(logged \o lines))
  <1>1. log' = LogLines(log, lines) /\ logged' = logged \o lines
    BY DEF WriteLog
  <1>2. /\ LogHolds(log', r) /\ Fixed(log') = Fixed(log)
        /\ Len(log'.visual_lines) >= Len(log.visual_lines)
    BY <1>1, LinesHeld DEF LogInv
  <1>3. logged' \in Seq(Lines)
    BY <1>1, ConcatProperties DEF LogInv
  <1>4. log'.size = LogSize /\ log'.scroll_offset = log.scroll_offset
    BY <1>2 DEF Fixed, LogInv
  <1>5. MaxVisibleLines(log') = MaxVisibleLines(log) /\ MaxVisibleLines(log) \in Int
    <2>1. log.size = LogSize
      BY DEF LogInv
    <2>2. \A n \in Int : n \div LINE_HEIGHT \in Int
      BY Sizes
    <2>3. LogSize.y - 2 * PADDING \in Int
      BY Sizes
    <2> QED
      BY <1>4, <2>1, <2>2, <2>3 DEF MaxVisibleLines
  <1>6. /\ Len(log.visual_lines) \in Nat /\ Len(log'.visual_lines) \in Nat
        /\ log.scroll_offset \in Nat
    <2>1. \A t : Laid(t) => Len(t.visual_lines) \in Nat /\ t.scroll_offset \in Nat
      BY DEF Laid, Box
    <2> QED
      BY <1>2, <2>1 DEF LogHolds, LogInv
  <1>7. log'.scroll_offset <= MaxScrollOffset(log')
    BY <1>2, <1>4, <1>5, <1>6 DEF LogInv, MaxScrollOffset, Larger
  <1>8. LogHolds(log', FlattenSeq(AllShown(logged')))
    BY <1>1, <1>2
  <1> QED
    BY <1>3, <1>4, <1>7, <1>8 DEF LogInv

\* A bounded set of numbers has a least one and a greatest one.
LEMMA Bounded ==
  ASSUME NEW n \in Nat, NEW K, K \subseteq 1 .. n, K # {}
  PROVE  /\ \E i \in K : \A j \in K : i <= j
         /\ \E i \in K : \A j \in K : i >= j
  <1>1. \E i \in K : \A j \in K : i <= j
    <2>1. K \subseteq Nat
      OBVIOUS
    <2>2. PICK i \in K : \A j \in K : ~(j < i)
      BY <2>1, LeastNumber, Zenon
    <2> QED
      BY <2>1, <2>2
  <1>2. \E i \in K : \A j \in K : i >= j
    <2> DEFINE D == {d \in Nat : \E i \in K : d = n - i}
    <2>1. D \subseteq Nat /\ D # {}
      <3>1. PICK i \in K : TRUE
        OBVIOUS
      <3>2. n - i \in D
        BY <3>1
      <3> QED
        BY <3>2
    <2> HIDE DEF D
    <2>2. PICK d \in D : \A e \in D : ~(e < d)
      BY <2>1, LeastNumber, Zenon
    <2>3. PICK i \in K : d = n - i
      BY <2>2 DEF D
    <2>4. ASSUME NEW j \in K PROVE i >= j
      <3>1. n - j \in D
        BY DEF D
      <3>2. ~(n - j < n - i)
        BY <2>2, <2>3, <3>1
      <3> QED
        BY <3>2
    <2> QED
      BY <2>4
  <1> QED
    BY <1>1, <1>2

\* A command is no longer than the line it is trimmed from.
LEMMA Trimmed ==
  ASSUME NEW text \in Seq(Printable), Len(text) <= MAX_INPUT_LEN
  PROVE  Trim(text) \in BoundedSeq(Printable, MAX_INPUT_LEN)
  <1> DEFINE n == Len(text)
             K == {i \in DOMAIN text : text[i] # SPACE}
             a == CHOOSE i \in K : \A j \in K : i <= j
             z == CHOOSE i \in K : \A j \in K : i >= j
  <1>1. n \in Nat /\ DOMAIN text = 1 .. n /\ MAX_INPUT_LEN \in Nat
        /\ \A i \in 1 .. n : text[i] \in Printable
    BY Sizes
  <1>2. ASSUME NEW s \in Seq(Printable), Len(s) <= MAX_INPUT_LEN
        PROVE  s \in BoundedSeq(Printable, MAX_INPUT_LEN)
    <2>1. s \in [1 .. Len(s) -> Printable] /\ Len(s) \in 0 .. MAX_INPUT_LEN
      BY <1>1, <1>2
    <2> QED
      BY <2>1, Zenon DEF BoundedSeq, SeqOf
  <1>3. CASE K = {}
    <2>1. Trim(text) = <<>>
      BY <1>3 DEF Trim
    <2>2. <<>> \in Seq(Printable) /\ Len(<<>>) <= MAX_INPUT_LEN
      BY <1>1
    <2> QED
      BY <1>2, <2>1, <2>2
  <1>4. CASE K # {}
    <2>1. Trim(text) = SubSeq(text, a, z)
      BY <1>4 DEF Trim
    <2>2. K \subseteq 1 .. n
      BY <1>1
    <2> HIDE DEF K, n
    <2>3. a \in K /\ z \in K
      <3>1. (\E i \in K : \A j \in K : i <= j) /\ (\E i \in K : \A j \in K : i >= j)
        BY <1>1, <1>4, <2>2, Bounded
      <3>2. a \in K
        BY <3>1, Zenon
      <3>3. z \in K
        BY <3>1, Zenon
      <3> QED
        BY <3>2, <3>3
    <2> HIDE DEF a, z
    <2>4. a \in 1 .. n /\ z \in 1 .. n
      BY <2>2, <2>3
    <2>5. SubSeq(text, a, z) \in Seq(Printable)
          /\ Len(SubSeq(text, a, z)) = IF a <= z THEN z - a + 1 ELSE 0
      <3>1. \A i \in a .. z : text[i] \in Printable
        BY <1>1, <2>4
      <3> QED
        BY <2>4, <3>1, SubSeqProperties
    <2>6. Len(SubSeq(text, a, z)) <= MAX_INPUT_LEN
      BY <1>1, <2>4, <2>5 DEF n
    <2> QED
      BY <1>2, <2>1, <2>5, <2>6
  <1> QED
    BY <1>3, <1>4

\* So the reply to it is lines.
LEMMA Replied ==
  ASSUME NEW text \in Seq(Printable), Len(text) <= MAX_INPUT_LEN
  PROVE  Reply(Trim(text)) \in Seq(Lines)
  <1> DEFINE c == Trim(text)
  <1>1. c \in BoundedSeq(Printable, MAX_INPUT_LEN)
    BY Trimmed
  <1> HIDE DEF c
  <1>2. /\ \A d \in DOMAIN Replies : Replies[d] \in Seq(Lines)
        /\ Unknown(c) \in Lines
    BY <1>1, ConsoleAssumption
  <1>3. <<>> \in Seq(Lines) /\ \A l \in Lines : <<l>> \in Seq(Lines)
    OBVIOUS
  <1>4. Reply(c) \in Seq(Lines)
    BY <1>2, <1>3 DEF Reply
  <1> QED
    BY <1>4 DEF c

\* A character put into a line, or taken out.
LEMMA Edited ==
  ASSUME NEW X, NEW s \in Seq(X)
  PROVE  /\ \A i \in 1 .. Len(s) : RemoveAt(s, i) \in Seq(X) /\ Len(RemoveAt(s, i)) = Len(s) - 1
         /\ \A i \in 1 .. Len(s) + 1, e \in X :
              InsertAt(s, i, e) \in Seq(X) /\ Len(InsertAt(s, i, e)) = Len(s) + 1
  <1> DEFINE n == Len(s)
  <1>1. n \in Nat /\ \A i \in 1 .. n : s[i] \in X
    OBVIOUS
  <1>2. ASSUME NEW i \in 1 .. n + 1
        PROVE  /\ SubSeq(s, 1, i - 1) \in Seq(X) /\ Len(SubSeq(s, 1, i - 1)) = i - 1
               /\ SubSeq(s, i, n) \in Seq(X) /\ Len(SubSeq(s, i, n)) = n - i + 1
               /\ SubSeq(s, i + 1, n) \in Seq(X)
               /\ i <= n => Len(SubSeq(s, i + 1, n)) = n - i
    <2> HIDE DEF n
    <2>1. /\ \A j \in 1 .. i - 1 : s[j] \in X
          /\ \A j \in i .. n : s[j] \in X
          /\ \A j \in i + 1 .. n : s[j] \in X
          /\ i \in Int /\ i - 1 \in Int /\ n \in Int /\ i + 1 \in Int /\ 1 \in Int
      BY <1>1
    <2>2. SubSeq(s, 1, i - 1) \in Seq(X)
          /\ Len(SubSeq(s, 1, i - 1)) = IF 1 <= i - 1 THEN (i - 1) - 1 + 1 ELSE 0
      BY <2>1, SubSeqProperties
    <2>3. SubSeq(s, i, n) \in Seq(X)
          /\ Len(SubSeq(s, i, n)) = IF i <= n THEN n - i + 1 ELSE 0
      BY <2>1, SubSeqProperties
    <2>4. SubSeq(s, i + 1, n) \in Seq(X)
          /\ Len(SubSeq(s, i + 1, n)) = IF i + 1 <= n THEN n - (i + 1) + 1 ELSE 0
      BY <2>1, SubSeqProperties
    <2> QED
      BY <1>1, <2>2, <2>3, <2>4
  <1>3. ASSUME NEW i \in 1 .. n
        PROVE  RemoveAt(s, i) \in Seq(X) /\ Len(RemoveAt(s, i)) = n - 1
    <2> DEFINE p == SubSeq(s, 1, i - 1)
               q == SubSeq(s, i + 1, n)
    <2>1. i \in 1 .. n + 1 /\ i <= n
      BY <1>1
    <2>2. p \in Seq(X) /\ q \in Seq(X) /\ Len(p) = i - 1 /\ Len(q) = n - i
      BY <1>2, <2>1
    <2>3. RemoveAt(s, i) = p \o q
      BY DEF RemoveAt
    <2> HIDE DEF p, q
    <2>4. p \o q \in Seq(X) /\ Len(p \o q) = Len(p) + Len(q)
      BY <2>2, ConcatProperties
    <2> QED
      BY <1>1, <2>2, <2>3, <2>4
  <1>4. ASSUME NEW i \in 1 .. n + 1, NEW e \in X
        PROVE  InsertAt(s, i, e) \in Seq(X) /\ Len(InsertAt(s, i, e)) = n + 1
    <2> DEFINE p == SubSeq(s, 1, i - 1)
               q == SubSeq(s, i, n)
               m == <<e>>
    <2>1. p \in Seq(X) /\ q \in Seq(X) /\ Len(p) = i - 1 /\ Len(q) = n - i + 1
          /\ m \in Seq(X) /\ Len(m) = 1
      BY <1>2
    <2>2. InsertAt(s, i, e) = p \o m \o q
      BY DEF InsertAt
    <2> HIDE DEF p, q, m
    <2>3. p \o m \in Seq(X) /\ Len(p \o m) = Len(p) + Len(m)
      BY <2>1, ConcatProperties
    <2>4. (p \o m) \o q \in Seq(X) /\ Len((p \o m) \o q) = Len(p \o m) + Len(q)
      BY <2>1, <2>3, ConcatProperties
    <2> QED
      BY <1>1, <2>1, <2>2, <2>3, <2>4
  <1> QED
    BY <1>3, <1>4

\* The invariant holds at first.
LEMMA InvInit == Init => Inv
  <1> SUFFICES ASSUME Init
               PROVE  Inv
    OBVIOUS
  <1>1. LineInv
    <2>1. input = <<>> /\ cursor_pos = 0 /\ active = FALSE
      BY DEF Init
    <2>2. <<>> \in Seq(Printable) /\ Len(<<>>) <= MAX_INPUT_LEN /\ 0 \in 0 .. Len(<<>>)
          /\ FALSE \in BOOLEAN
      BY Sizes
    <2> QED
      BY <2>1, <2>2, Zenon DEF LineInv
  <1>2. ConsoleInv
    <2> DEFINE t == SetText(ConsolePanel, Content(<<>>, FALSE))
    <2>1. ConsolePanel.size \in [x : Nat, y : Nat] /\ ConsolePanel.size.x >= 3 * PADDING + ADVANCE
          /\ ConsolePanel.size = ConsoleSize /\ <<>> \in Seq(Printable) /\ FALSE \in BOOLEAN
      BY Sizes
    <2>2. /\ Laid(t) /\ Fixed(t) = <<ConsolePanel.size, 0, -1>>
          /\ Len(t.buffer) = 1 /\ Bytes(t.buffer[1]) = ShownText(<<>>, FALSE)
      <3> HIDE DEF Content, ConsolePanel
      <3> QED
        BY <2>1, ContentShown
    <2>3. console = t /\ input = <<>> /\ active = FALSE
      BY DEF Init
    <2> HIDE DEF t
    <2> QED
      BY <2>1, <2>2, <2>3 DEF ConsoleInv
  <1>3. LogInv
    <2> DEFINE r == [size |-> [x |-> LOG_WIDTH, y |-> LOG_HEIGHT]]
    <2>1. log = Reset(r) /\ logged = <<>> /\ r.size = LogSize
      BY DEF Init, LogPanel, New, LogSize
    <2>2. r.size \in [x : Nat, y : Nat] /\ r.size.x >= 3 * PADDING + ADVANCE
      BY <2>1, Sizes
    <2> HIDE DEF r
    <2>3. LogHolds(log, <<>>) /\ log.size = LogSize /\ log.scroll_offset = 0
          /\ Len(log.visual_lines) = 1
      BY <2>1, <2>2, Fresh
    <2>4. FlattenSeq(AllShown(<<>>)) = <<>> /\ <<>> \in Seq(Lines)
      <3>1. AllShown(<<>>) \in Seq(Seq(AnyGlyph)) /\ Len(AllShown(<<>>)) = 0
        <4>1. <<>> \in Seq(Lines) /\ Len(<<>>) = 0
          OBVIOUS
        <4> QED
          BY <4>1, AllShownType
      <3>2. AllShown(<<>>) = <<>>
        BY <3>1
      <3> QED
        BY <3>2, FlattenNone
    <2>5. log.scroll_offset <= MaxScrollOffset(log)
      <3>1. LINE_HEIGHT \in Nat \ {0} /\ LogSize.y - 2 * PADDING \in Int
        BY Sizes
      <3>2. (LogSize.y - 2 * PADDING) \div LINE_HEIGHT \in Int
        BY <3>1
      <3> QED
        BY <2>3, <3>2 DEF MaxScrollOffset, MaxVisibleLines, Larger
    <2> QED
      BY <2>1, <2>3, <2>4, <2>5 DEF LogInv
  <1> QED
    BY <1>1, <1>2, <1>3 DEF Inv

\* Each way the main loop treats an event keeps the invariant.
LEMMA InvNext == Inv /\ [Next]_vars => Inv'
  <1> SUFFICES ASSUME Inv, [Next]_vars
               PROVE  Inv'
    OBVIOUS
  <1>1. /\ input \in Seq(Printable) /\ Len(input) \in Nat /\ Len(input) <= MAX_INPUT_LEN
        /\ cursor_pos \in 0 .. Len(input) /\ active \in BOOLEAN /\ MAX_INPUT_LEN \in Nat
        /\ cursor_pos \in Nat
    BY Sizes DEF Inv, LineInv
  <1>2. ASSUME UNCHANGED line_vars PROVE LineInv'
    BY <1>2 DEF Inv, LineInv, line_vars
  <1>3. ASSUME UNCHANGED <<line_vars, console>> PROVE LineInv' /\ ConsoleInv'
    <2>1. input' = input /\ cursor_pos' = cursor_pos /\ active' = active /\ console' = console
      BY <1>3 DEF line_vars
    <2>2. LineInv'
      BY <2>1 DEF Inv, LineInv
    <2>3. ConsoleInv'
      BY <2>1 DEF Inv, ConsoleInv, Laid, IsWrapped, Cut, PerLine, LineEnd, Fixed, ShownText, Bytes
    <2> QED
      BY <2>2, <2>3
  <1>4. ASSUME UNCHANGED log_vars PROVE LogInv'
    BY <1>4 DEF Inv, LogInv, log_vars, LogHolds, Laid, IsWrapped, Cut, PerLine, LineEnd, Clean,
       AllShown, MaxScrollOffset, MaxVisibleLines
  <1>5. ASSUME LineInv', UpdateText PROVE LineInv' /\ ConsoleInv'
    BY <1>5, TextUpdated DEF Inv
  <1>6. ASSUME NEW key, ScrollLog(key) PROVE Inv'
    <2> DEFINE d == IF key.code = "ArrowUp" THEN 1 ELSE -1
               n == IF d < 0 THEN Larger(0, log.scroll_offset + d)
                    ELSE Smaller(log.scroll_offset + d, MaxScrollOffset(log))
               t == [log EXCEPT !.scroll_offset = n]
    <2>1. /\ log.scroll_offset \in Nat /\ log.scroll_offset <= MaxScrollOffset(log)
          /\ MaxScrollOffset(log) \in Nat /\ log \in Box /\ Laid(log)
      <3>1. log \in Box /\ Laid(log) /\ log.size = LogSize
        BY DEF Inv, LogInv, LogHolds, Laid
      <3>2. log.scroll_offset \in Nat /\ Len(log.visual_lines) \in Nat
        BY <3>1 DEF Box
      <3>3. LINE_HEIGHT \in Nat \ {0} /\ LogSize.y - 2 * PADDING \in Int
        BY Sizes
      <3>4. (LogSize.y - 2 * PADDING) \div LINE_HEIGHT \in Int
        BY <3>3
      <3>5. MaxScrollOffset(log) \in Nat
        BY <3>1, <3>2, <3>4 DEF MaxScrollOffset, MaxVisibleLines, Larger
      <3> QED
        BY <3>1, <3>2, <3>5 DEF Inv, LogInv
    <2>2. n \in Nat /\ n <= MaxScrollOffset(log)
      <3> HIDE DEF MaxScrollOffset
      <3> QED
        BY <2>1 DEF Larger, Smaller
    <2>3. log' = t
      BY <1>6, <2>1 DEF ScrollLog, Scroll, Box
    <2> HIDE DEF n
    <2>4. /\ Laid(t) /\ t.buffer = log.buffer /\ t.visual_lines = log.visual_lines
          /\ t.size = log.size /\ t.scroll_offset = n /\ (Clean(log) => Clean(t))
          /\ t.color_text = log.color_text
      <3>1. 0 \in Int
        OBVIOUS
      <3> QED
        BY <2>1, <2>2, <3>1, ViewOnly, Zenon
    <2> HIDE DEF t
    <2>5. MaxScrollOffset(t) = MaxScrollOffset(log)
      BY <2>4 DEF MaxScrollOffset, MaxVisibleLines
    <2>6. logged' = logged /\ UNCHANGED <<line_vars, console>>
      BY <1>6 DEF ScrollLog
    <2>7. LogHolds(t, FlattenSeq(AllShown(logged)))
      BY <2>4 DEF Inv, LogInv, LogHolds
    <2>8. LogInv'
      <3>1. /\ logged' \in Seq(Lines) /\ LogHolds(log', FlattenSeq(AllShown(logged')))
            /\ log'.size = LogSize /\ log'.scroll_offset <= MaxScrollOffset(log')
        BY <2>2, <2>3, <2>4, <2>5, <2>6, <2>7 DEF Inv, LogInv
      <3> QED
        BY <3>1 DEF LogInv
    <2> QED
      BY <1>3, <2>6, <2>8 DEF Inv
  <1>7. ASSUME NEW key, OpenConsole(key) PROVE Inv'
    <2>1. LineInv'
      BY <1>1, <1>7 DEF OpenConsole, LineInv
    <2> QED
      BY <1>4, <1>5, <1>7, <2>1 DEF OpenConsole, Inv
  <1>8. ASSUME NEW key, ToggleLogs(key) PROVE Inv'
    BY <1>3, <1>4, <1>8 DEF ToggleLogs, Inv
  <1>9. ASSUME NEW key, Submit(key) PROVE Inv'
    <2>1. LineInv'
      <3>1. input' = <<>> /\ cursor_pos' = 0 /\ active' = FALSE
        BY <1>9 DEF Submit
      <3>2. <<>> \in Seq(Printable) /\ Len(<<>>) <= MAX_INPUT_LEN /\ 0 \in 0 .. Len(<<>>)
            /\ FALSE \in BOOLEAN
        BY <1>1
      <3> QED
        BY <3>1, <3>2, Zenon DEF LineInv
    <2>2. Reply(Trim(input)) \in Seq(Lines)
      BY <1>1, Replied
    <2>3. LogInv'
      BY <1>9, <2>2, LogWritten DEF Submit, Inv
    <2> QED
      BY <1>5, <1>9, <2>1, <2>3 DEF Submit, Inv
  <1>10. ASSUME NEW key, Backspace(key) PROVE Inv'
    <2>1. CASE cursor_pos > 0
      <3>1. cursor_pos \in 1 .. Len(input)
        BY <1>1, <2>1
      <3>2. RemoveAt(input, cursor_pos) \in Seq(Printable)
            /\ Len(RemoveAt(input, cursor_pos)) = Len(input) - 1
        BY <1>1, <3>1, Edited
      <3>3. /\ input' = RemoveAt(input, cursor_pos) /\ cursor_pos' = cursor_pos - 1
            /\ active' = active /\ UpdateText /\ UNCHANGED log_vars
        BY <1>10, <2>1 DEF Backspace
      <3> HIDE DEF RemoveAt
      <3>4. LineInv'
        BY <1>1, <3>1, <3>2, <3>3 DEF LineInv
      <3> QED
        BY <1>4, <1>5, <3>3, <3>4 DEF Inv
    <2>2. CASE ~(cursor_pos > 0)
      BY <1>3, <1>4, <1>10, <2>2 DEF Backspace, Inv
    <2> QED
      BY <2>1, <2>2
  <1>11. ASSUME NEW key, Escape(key) PROVE Inv'
    <2>1. LineInv'
      BY <1>1, <1>11 DEF Escape, LineInv
    <2> QED
      BY <1>4, <1>5, <1>11, <2>1 DEF Escape, Inv
  <1>12. ASSUME NEW key, Arrow(key) PROVE Inv'
    <2>1. LineInv'
      <3>1. cursor_pos' \in 0 .. Len(input)
        BY <1>1, <1>12 DEF Arrow, Larger, Smaller
      <3> QED
        BY <1>1, <1>12, <3>1 DEF Arrow, LineInv
    <2> QED
      BY <1>4, <1>5, <1>12, <2>1 DEF Arrow, Inv
  <1>13. ASSUME NEW key, Insert(key) PROVE Inv'
    <2>1. CASE Accepts(key)
      <3>1. cursor_pos + 1 \in 1 .. Len(input) + 1 /\ key.character \in Printable
            /\ Len(input) < MAX_INPUT_LEN
        BY <1>1, <2>1 DEF Accepts
      <3> DEFINE s == InsertAt(input, cursor_pos + 1, key.character)
      <3>2. s \in Seq(Printable) /\ Len(s) = Len(input) + 1
        BY <1>1, <3>1, Edited
      <3>3. /\ input' = s /\ cursor_pos' = cursor_pos + 1
            /\ active' = active /\ UpdateText /\ UNCHANGED log_vars
        BY <1>13, <2>1 DEF Insert
      <3> HIDE DEF s
      <3>4. LineInv'
        BY <1>1, <3>1, <3>2, <3>3 DEF LineInv
      <3> QED
        BY <1>4, <1>5, <3>3, <3>4 DEF Inv
    <2>2. CASE ~Accepts(key)
      BY <1>3, <1>4, <1>13, <2>2 DEF Insert, Inv
    <2> QED
      BY <2>1, <2>2
  <1>14. ASSUME Notice PROVE Inv'
    <2>1. PICK l \in Notices : WriteLog(<<l>>)
      BY <1>14 DEF Notice
    <2>2. <<l>> \in Seq(Lines)
      BY <2>1, ConsoleAssumption
    <2>3. LogInv'
      BY <2>1, <2>2, LogWritten DEF Inv
    <2> QED
      BY <1>3, <1>14, <2>3 DEF Notice, Inv
  <1>15. CASE UNCHANGED vars
    BY <1>3, <1>4, <1>15 DEF vars, Inv, line_vars, log_vars
  <1> QED
    BY <1>6, <1>7, <1>8, <1>9, <1>10, <1>11, <1>12, <1>13, <1>14, <1>15 DEF Next, Event

\* The console holds the line that is edited, and the log what was logged.
THEOREM ConsoleInvariant == Spec => []Inv
  <1>1. Init => Inv
    BY InvInit
  <1>2. Inv /\ [Next]_vars => Inv'
    BY InvNext
  <1> QED
    BY <1>1, <1>2, PTL DEF Spec

-----------------------------------------------------------------------------
(* What the invariant says of the panels.                                  *)

\* The numbers of a panel's view.
LEMMA ViewNumbers ==
  ASSUME Inv
  PROVE  /\ Len(log.visual_lines) \in Nat /\ log.visual_lines \in Seq(VisualLine)
         /\ log.scroll_offset \in Nat /\ log.scroll_offset <= MaxScrollOffset(log)
         /\ MaxVisibleLines(log) \in Nat /\ MaxVisibleLines(console) = 1
  <1>1. Laid(log) /\ log.size = LogSize /\ console.size = ConsoleSize
        /\ log.scroll_offset <= MaxScrollOffset(log)
    BY DEF Inv, LogInv, LogHolds, ConsoleInv, Fixed
  <1>2. Len(log.visual_lines) \in Nat /\ log.visual_lines \in Seq(VisualLine)
        /\ log.scroll_offset \in Nat
    BY <1>1 DEF Laid, Box
  <1>3. MaxVisibleLines(log) \in Nat
    <2>1. LogSize.y - 2 * PADDING \in Nat /\ LINE_HEIGHT \in Nat \ {0}
      BY Sizes, ConsoleAssumption DEF LogSize
    <2>2. (LogSize.y - 2 * PADDING) \div LINE_HEIGHT \in Nat
      BY <2>1
    <2> QED
      BY <1>1, <2>2 DEF MaxVisibleLines
  <1>4. MaxVisibleLines(console) = 1
    <2>1. ConsoleSize.y - 2 * PADDING = LINE_HEIGHT /\ LINE_HEIGHT \in Nat \ {0}
      BY Sizes DEF ConsoleSize
    <2>2. LINE_HEIGHT \div LINE_HEIGHT = 1
      <3>1. 1 * LINE_HEIGHT = LINE_HEIGHT
        BY <2>1
      <3> QED
        BY <2>1, <3>1
    <2> QED
      BY <1>1, <2>1, <2>2 DEF MaxVisibleLines
  <1> QED
    BY <1>1, <1>2, <1>3, <1>4

\* However the log is scrolled, its view is as full as it can be.
LEMMA Full == Inv => ViewIsFull
  <1> SUFFICES ASSUME Inv
               PROVE  ViewIsFull
    OBVIOUS
  <1> DEFINE v == log.visual_lines
             n == Len(v)
             m == MaxVisibleLines(log)
             end == n - log.scroll_offset
             start == Larger(0, end - m)
  <1>1. n \in Nat /\ v \in Seq(VisualLine) /\ log.scroll_offset \in Nat /\ m \in Nat
        /\ log.scroll_offset <= Larger(0, n - m)
    BY ViewNumbers DEF MaxScrollOffset
  <1>2. LinesToRender(log) = SubSeq(v, start + 1, end)
    BY DEF LinesToRender
  <1> HIDE DEF m
  <1>3. end \in Nat /\ start \in Nat /\ start <= end /\ end <= n
        /\ end - start = Smaller(n, m)
    BY <1>1 DEF Larger, Smaller
  <1>4. \A i \in start + 1 .. end : v[i] \in VisualLine
    <2>1. \A i \in 1 .. n : v[i] \in VisualLine
      BY <1>1
    <2> QED
      BY <1>1, <1>3, <2>1
  <1> HIDE DEF start, end, v, n
  <1>5. Len(SubSeq(v, start + 1, end)) = IF start + 1 <= end THEN end - (start + 1) + 1 ELSE 0
    BY <1>3, <1>4, SubSeqProperties
  <1>6. Len(LinesToRender(log)) = Smaller(n, m)
    BY <1>2, <1>3, <1>5
  <1> QED
    BY <1>6 DEF ViewIsFull, n, v, m

\* What the console's box and cursor are.
LEMMA ConsoleLine ==
  ASSUME Inv
  PROVE  LET line == console.buffer[1] IN
         /\ console.buffer \in Seq(Seq(Glyph)) /\ Len(console.buffer) = 1 /\ line \in Seq(Glyph)
         /\ Bytes(line) = ShownText(input, active)
         /\ PROMPT \in Seq(Printable) /\ input \in Seq(Printable) /\ active \in BOOLEAN
         /\ cursor_pos \in 0 .. Len(input)
         /\ active => Len(line) = Len(PROMPT) + Len(input)
         /\ console.cursor_idx = IF active THEN Len(PROMPT) + cursor_pos ELSE -1
         /\ console.scroll_offset = 0
  <1> DEFINE line == console.buffer[1]
  <1>1. /\ Len(console.buffer) = 1 /\ Bytes(line) = ShownText(input, active)
        /\ console.cursor_idx = IF active THEN Len(PROMPT) + cursor_pos ELSE -1
        /\ console.scroll_offset = 0
    BY DEF Inv, ConsoleInv, Fixed
  <1>2. console.buffer \in Seq(Seq(Glyph))
    BY DEF Inv, ConsoleInv, Laid, Box
  <1>3. line \in Seq(Glyph)
    BY <1>1, <1>2
  <1>4. PROMPT \in Seq(Printable) /\ input \in Seq(Printable) /\ active \in BOOLEAN
        /\ cursor_pos \in 0 .. Len(input)
    BY ConsoleAssumption DEF Inv, LineInv
  <1>5. ASSUME active PROVE Len(line) = Len(PROMPT) + Len(input)
    <2>1. ShownText(input, active) = PROMPT \o input
      BY <1>5 DEF ShownText
    <2>2. Len(PROMPT \o input) = Len(PROMPT) + Len(input)
      BY <1>4, ConcatProperties
    <2>3. Len(Bytes(line)) = Len(line)
      BY <1>3, BytesType
    <2> QED
      BY <1>1, <2>1, <2>2, <2>3
  <1> QED
    BY <1>1, <1>2, <1>3, <1>4, <1>5

\* ConsoleShowsInput follows: the glyphs from the cursor on are the rest of the input.
LEMMA Shows == Inv => ConsoleShowsInput
  <1> SUFFICES ASSUME Inv
               PROVE  ConsoleShowsInput
    OBVIOUS
  <1> DEFINE line == console.buffer[1]
  <1>1. /\ Len(console.buffer) = 1 /\ Bytes(line) = ShownText(input, active)
        /\ active => Len(line) = Len(PROMPT) + Len(input)
        /\ active => console.cursor_idx = Len(PROMPT) + cursor_pos
    BY ConsoleLine
  <1>2. Bytes(line) = [i \in DOMAIN line |-> line[i].b]
    BY DEF Bytes
  <1>3. ShownText(input, active)
          = PROMPT \o (IF active \/ input # <<>> THEN input ELSE PLACEHOLDER_TEXT)
    BY DEF ShownText
  <1>4. active => SubSeq(line, console.cursor_idx + 1, Len(line))
                 = SubSeq(line, Len(PROMPT) + cursor_pos + 1, Len(PROMPT) + Len(input))
    BY <1>1, Zenon
  <1> QED
    BY <1>1, <1>2, <1>3, <1>4, Zenon DEF ConsoleShowsInput

\* The line the console shows at the bottom ends with the last glyph, and is all of
\* them when it is the only one.
LEMMA Bottom ==
  ASSUME Inv
  PROVE  LET v == console.visual_lines
             e == v[Len(v)]
             len == Len(console.buffer[1])
         IN /\ Len(v) \in Nat \ {0} /\ LinesToRender(console) = <<e>>
            /\ len \in Nat /\ TotalGlyphs(console) = len
            /\ e.end = len /\ e.start \in Nat /\ e.start <= len
            /\ Len(v) = 1 => e.start = 0
  <1> DEFINE v == console.visual_lines
             line == console.buffer[1]
             len == Len(line)
             k == PerLine(console)
             c == CutOf(1, len, k)
             m == Len(c)
             e == v[Len(v)]
             cuts == [j \in DOMAIN console.buffer |-> Cut(console, j)]
  <1>1. /\ console.buffer \in Seq(Seq(Glyph)) /\ Len(console.buffer) = 1 /\ line \in Seq(Glyph)
        /\ console.scroll_offset = 0
    BY ConsoleLine
  <1>2. Laid(console) /\ console \in Box
    BY DEF Inv, ConsoleInv, Laid
  <1>3. len \in Nat /\ k \in Nat \ {0}
    <2>1. console.size.x \in Nat /\ console.size.x >= 3 * PADDING + ADVANCE
      BY <1>2 DEF Laid, Box
    <2> QED
      BY <1>1, <2>1, Fit
  <1>4. c \in Seq(VisualLine) /\ EndsAt(c, 1, len, k) /\ Len(c) = Pieces(len, k)
    <2> HIDE DEF len, k
    <2>1. 1 \in Nat
      OBVIOUS
    <2> QED
      BY <1>3, <2>1, CutEnd, CutType
  <1>5. v = c
    <2>1. /\ cuts \in Seq(Seq(VisualLine)) /\ Len(cuts) = Len(console.buffer)
          /\ \A n \in 1 .. Len(console.buffer) : cuts[n] = CutOf(n, Len(console.buffer[n]), k)
      <3>1. console.size.x >= 3 * PADDING + ADVANCE
        BY <1>2 DEF Laid
      <3> QED
        BY <1>2, <3>1, CutsAre
    <2>2. v = FlattenSeq(cuts)
      BY <1>2 DEF Laid, IsWrapped
    <2> HIDE DEF cuts, k
    <2>3. cuts = <<c>>
      BY <1>1, <2>1
    <2>4. FlattenSeq(<<c>>) = c
      BY <1>4, FlattenOne
    <2> QED
      BY <2>2, <2>3, <2>4
  <1> HIDE DEF c, v
  <1>6. /\ Len(v) \in Nat \ {0} /\ Len(v) = m /\ e = c[m] /\ e.end = len /\ e.start \in Nat
        /\ e.start <= len
    <2> HIDE DEF len, k
    <2>1. /\ m \in Nat \ {0} /\ c[m].start \in Nat /\ len - c[m].start \in 0 .. k
          /\ c[m] = [line_idx |-> 1, start |-> c[m].start, end |-> len]
      BY <1>4 DEF EndsAt
    <2>2. c[m].end = len
      BY <2>1
    <2> QED
      BY <1>3, <1>5, <2>1, <2>2
  <1>7. LinesToRender(console) = <<e>>
    <2>1. MaxVisibleLines(console) = 1
      BY ViewNumbers
    <2> DEFINE end == Len(v) - console.scroll_offset
               start == Larger(0, end - MaxVisibleLines(console))
    <2>2. LinesToRender(console) = SubSeq(v, start + 1, end)
      BY DEF LinesToRender, v
    <2>3. end = Len(v) /\ start + 1 = Len(v)
      BY <1>1, <1>6, <2>1 DEF Larger
    <2> HIDE DEF start, end
    <2>4. \A i \in Len(v) .. Len(v) : v[i] \in VisualLine
      BY <1>4, <1>5, <1>6
    <2> DEFINE s == SubSeq(v, Len(v), Len(v))
    <2>5. s \in Seq(VisualLine) /\ Len(s) = 1 /\ s[1] = v[Len(v)]
      <3> DEFINE n == Len(v)
      <3>1. n \in Int /\ n <= n /\ n - n + 1 = 1 /\ n + 1 - 1 = n
        BY <1>6
      <3>2. \A i \in n .. n : v[i] \in VisualLine
        BY <2>4
      <3> HIDE DEF n
      <3>3. /\ SubSeq(v, n, n) \in Seq(VisualLine) /\ Len(SubSeq(v, n, n)) = 1
            /\ \A i \in 1 .. 1 : SubSeq(v, n, n)[i] = v[n + i - 1]
        BY <3>1, <3>2, SubSeqProperties
      <3> QED
        BY <3>1, <3>3 DEF n
    <2> HIDE DEF s
    <2>6. s = <<e>>
      BY <2>5
    <2> QED
      BY <2>2, <2>3, <2>6 DEF s
  <1>8. TotalGlyphs(console) = len
    <2>1. console.buffer = <<line>>
      BY <1>1
    <2>2. FlattenSeq(<<line>>) = line
      BY <1>1, FlattenOne
    <2> QED
      BY <2>1, <2>2, Zenon DEF TotalGlyphs
  <1>9. Len(v) = 1 => e.start = 0
    <2> HIDE DEF len, k
    <2>1. ASSUME m = 1 PROVE c[m].start = 0
      <3>1. Pieces(len, k) = 1 /\ 1 \in Nat
        BY <1>4, <2>1
      <3>2. CutOf(1, len, k)[1].start = 0
        BY <1>3, <3>1, CutOnce, Zenon
      <3> QED
        BY <2>1, <3>2 DEF c
    <2> QED
      BY <1>6, <2>1
  <1> QED
    BY <1>3, <1>6, <1>7, <1>8, <1>9 DEF v

\* One cursor is drawn, or none.
LEMMA OneCursor == Inv => CursorDrawnOnce
  <1> SUFFICES ASSUME Inv
               PROVE  CursorDrawnOnce
    OBVIOUS
  <1> DEFINE v == console.visual_lines
             e == v[Len(v)]
             len == Len(console.buffer[1])
             idx == console.cursor_idx
  <1>1. /\ Len(v) \in Nat \ {0} /\ LinesToRender(console) = <<e>>
        /\ len \in Nat /\ TotalGlyphs(console) = len
        /\ e.end = len /\ e.start \in Nat /\ e.start <= len
        /\ Len(v) = 1 => e.start = 0
    BY Bottom
  <1>2. /\ active => len = Len(PROMPT) + Len(input) /\ idx = Len(PROMPT) + cursor_pos
        /\ ~active => idx = -1
        /\ Len(PROMPT) \in Nat /\ Len(input) \in Nat /\ cursor_pos \in 0 .. Len(input)
    BY ConsoleLine
  <1> HIDE DEF e, len, idx
  <1>3. Cursors(console) = {<<1, x>> : x \in CursorAt(console, e)}
    <2>1. DOMAIN <<e>> = {1} /\ <<e>>[1] = e
      OBVIOUS
    <2>2. Cursors(console) = UNION {{<<n, x>> : x \in CursorAt(console, <<e>>[n])} : n \in {1}}
      BY <1>1, <2>1 DEF Cursors
    <2> QED
      BY <2>1, <2>2, Zenon
  <1>4. CursorAt(console, e) =
          {x \in e.start .. len - 1 : idx = x} \cup {x \in {len} : idx = len /\ x = len}
    BY <1>1 DEF CursorAt, idx
  <1>5. ASSUME ~active PROVE Cursors(console) = {}
    <2>1. CursorAt(console, e) = {}
      BY <1>1, <1>2, <1>4, <1>5
    <2> QED
      BY <1>3, <2>1, Zenon
  <1>6. ASSUME active,
               \/ cursor_pos = Len(input)
               \/ Len(LinesToRender(console)) = Len(console.visual_lines)
        PROVE  \E n \in 1 .. MaxVisibleLines(console) :
                 Cursors(console) = {<<n, Len(PROMPT) + cursor_pos>>}
    <2>1. idx \in Nat /\ idx <= len /\ (idx = len \/ e.start = 0)
      <3>1. Len(<<e>>) = 1
        OBVIOUS
      <3> QED
        BY <1>1, <1>2, <1>6, <3>1
    <2>2. CursorAt(console, e) = {idx}
      BY <1>1, <1>4, <2>1
    <2>3. Cursors(console) = {<<1, idx>>}
      BY <1>3, <2>2
    <2>4. 1 \in 1 .. MaxVisibleLines(console)
      BY ViewNumbers
    <2> QED
      BY <1>2, <1>6, <2>3, <2>4
  <1> QED
    BY <1>5, <1>6 DEF CursorDrawnOnce

\* The visual lines are the logical lines cut where the width ends, in every state.
THEOREM WrappedText == Spec => []LayoutIsWrapped
  <1>1. Inv => LayoutIsWrapped
    BY DEF Inv, ConsoleInv, LogInv, LogHolds, Laid, LayoutIsWrapped
  <1> QED
    BY <1>1, ConsoleInvariant, PTL

\* The log shows the text and the color of each line that was logged, and no more.
THEOREM LogIsShown == Spec => []LogShowsWhatWasLogged
  <1>1. Inv => LogShowsWhatWasLogged
    BY DEF Inv, LogInv, LogHolds, AllShown, LogShowsWhatWasLogged
  <1> QED
    BY <1>1, ConsoleInvariant, PTL

\* The view of the log is as full as it can be, however it is scrolled.
THEOREM FullView == Spec => []ViewIsFull
  BY Full, ConsoleInvariant, PTL

\* The console shows the prompt and what is typed, or the placeholder.
THEOREM InputIsShown == Spec => []ConsoleShowsInput
  BY Shows, ConsoleInvariant, PTL

\* The cursor is drawn once, where the next character goes.
THEOREM CursorIsDrawn == Spec => []CursorDrawnOnce
  BY OneCursor, ConsoleInvariant, PTL

-----------------------------------------------------------------------------
(* The refinement: what is before and after the cursor.                    *)

Before(s, c) == SubSeq(s, 1, c)
After(s, c) == SubSeq(s, c + 1, Len(s))

\* A line is what is before its cursor and what is after it.
LEMMA Halves ==
  ASSUME NEW X, NEW s \in Seq(X), NEW c \in 0 .. Len(s)
  PROVE  /\ Before(s, c) \in Seq(X) /\ Len(Before(s, c)) = c
         /\ After(s, c) \in Seq(X) /\ Len(After(s, c)) = Len(s) - c
         /\ Before(s, c) \o After(s, c) = s
  <1> DEFINE n == Len(s)
  <1>1. n \in Nat /\ c \in Int /\ c + 1 \in Int /\ n \in Int /\ 1 \in Int
        /\ (\A i \in 1 .. c : s[i] \in X) /\ (\A i \in c + 1 .. n : s[i] \in X)
    OBVIOUS
  <1>2. SubSeq(s, 1, c) \in Seq(X) /\ Len(SubSeq(s, 1, c)) = IF 1 <= c THEN c - 1 + 1 ELSE 0
    BY <1>1, SubSeqProperties
  <1>3. SubSeq(s, c + 1, n) \in Seq(X)
        /\ Len(SubSeq(s, c + 1, n)) = IF c + 1 <= n THEN n - (c + 1) + 1 ELSE 0
    <2> HIDE DEF n
    <2> QED
      BY <1>1, SubSeqProperties
  <1>4. SubSeq(s, 1, c) \o SubSeq(s, c + 1, n) = SubSeq(s, 1, n)
    <2>1. 1 \in 1 .. Len(s) + 1 /\ c \in 1 - 1 .. Len(s) /\ n \in c .. Len(s)
      BY <1>1
    <2> QED
      BY <2>1, ConcatAdjacentSubSeq
  <1>5. SubSeq(s, 1, n) = s
    BY SubSeqFull
  <1> QED
    <2>1. Len(SubSeq(s, 1, c)) = c
      BY <1>1, <1>2
    <2>2. Len(SubSeq(s, c + 1, n)) = n - c
      <3>1. (IF c + 1 <= n THEN n - (c + 1) + 1 ELSE 0) = n - c
        BY <1>1
      <3> QED
        BY <1>3, <3>1
    <2> QED
      BY <1>2, <1>3, <1>4, <1>5, <2>1, <2>2, Zenon DEF Before, After, n

\* Two parts are what is before and after the cursor between them.
LEMMA HalvesOf ==
  ASSUME NEW X, NEW p \in Seq(X), NEW q \in Seq(X)
  PROVE  Before(p \o q, Len(p)) = p /\ After(p \o q, Len(p)) = q
  <1> DEFINE s == p \o q
             c == Len(p)
             b == Before(s, c)
             a == After(s, c)
  <1>1. /\ s \in Seq(X) /\ Len(s) = c + Len(q) /\ c \in Nat /\ Len(q) \in Nat
        /\ \A i \in 1 .. c + Len(q) : s[i] = IF i <= c THEN p[i] ELSE q[i - c]
    BY ConcatProperties
  <1>2. c \in 0 .. Len(s)
    BY <1>1
  <1>3. b \in Seq(X) /\ Len(b) = c /\ a \in Seq(X) /\ Len(a) = Len(s) - c
    <2> HIDE DEF s, c
    <2> QED
      BY <1>1, <1>2, Halves
  <1>4. (\A i \in 1 .. c : s[i] \in X) /\ (\A i \in c + 1 .. Len(s) : s[i] \in X)
        /\ c + 1 \in Int /\ Len(s) \in Int /\ 1 \in Int /\ c \in Int
    <2> HIDE DEF s, c
    <2> QED
      BY <1>1, <1>2
  <1>5. \A i \in 1 .. c - 1 + 1 : SubSeq(s, 1, c)[i] = s[1 + i - 1]
    BY <1>4, SubSeqProperties
  <1>6. \A i \in 1 .. Len(s) - (c + 1) + 1 : SubSeq(s, c + 1, Len(s))[i] = s[(c + 1) + i - 1]
    <2> HIDE DEF s, c
    <2> QED
      BY <1>4, SubSeqProperties
  <1>7. b = p
    <2>1. \A i \in 1 .. Len(b) : b[i] = p[i]
      BY <1>1, <1>3, <1>5 DEF Before
    <2> HIDE DEF b
    <2> QED
      BY <1>3, <2>1, SeqEqual
  <1>8. a = q
    <2>1. Len(a) = Len(q)
      BY <1>1, <1>3
    <2>2. \A i \in 1 .. Len(a) : a[i] = q[i]
      <3> SUFFICES ASSUME NEW i \in 1 .. Len(a)
                   PROVE  a[i] = q[i]
        OBVIOUS
      <3>1. i \in 1 .. Len(s) - (c + 1) + 1 /\ i \in 1 .. Len(q) /\ (c + 1) + i - 1 = c + i
        BY <1>1, <2>1
      <3>2. a[i] = s[c + i]
        BY <1>6, <3>1 DEF After
      <3>3. c + i \in 1 .. c + Len(q) /\ ~(c + i <= c) /\ (c + i) - c = i
        BY <1>1, <3>1
      <3> HIDE DEF a, s, c
      <3> QED
        BY <1>1, <3>2, <3>3
    <2> HIDE DEF a
    <2> QED
      BY <1>3, <2>1, <2>2, SeqEqual
  <1> QED
    BY <1>7, <1>8 DEF b, a, s, c

\* What a cursor has before and after it when it moves over a character.
LEMMA MovedOver ==
  ASSUME NEW X, NEW s \in Seq(X), NEW c \in 1 .. Len(s)
  PROVE  /\ Before(s, c) = Append(Before(s, c - 1), s[c]) /\ Before(s, c) # <<>>
         /\ Front(Before(s, c)) = Before(s, c - 1) /\ Last(Before(s, c)) = s[c]
         /\ After(s, c - 1) = <<s[c]>> \o After(s, c) /\ After(s, c - 1) # <<>>
         /\ Head(After(s, c - 1)) = s[c] /\ Tail(After(s, c - 1)) = After(s, c)
  <1> DEFINE n == Len(s)
             p == Before(s, c - 1)
  <1>1. /\ n \in Nat /\ s[c] \in X /\ c - 1 \in 0 .. n /\ c \in 0 .. n /\ (c - 1) + 1 = c
        /\ c \in 1 .. n /\ 1 \in 1 .. n /\ n \in c .. n /\ c \in 1 .. n
    OBVIOUS
  <1>2. p \in Seq(X) /\ Len(p) = c - 1 /\ <<s[c]>> \in Seq(X)
        /\ Len(Before(s, c)) = c /\ Len(After(s, c - 1)) = n - (c - 1)
    <2>1. <<s[c]>> \in Seq(X)
      BY <1>1
    <2>2. Before(s, c - 1) \in Seq(X) /\ Len(Before(s, c - 1)) = c - 1
          /\ Len(After(s, c - 1)) = n - (c - 1)
      BY <1>1, Halves
    <2>3. Len(Before(s, c)) = c
      BY <1>1, Halves
    <2> QED
      BY <2>1, <2>2, <2>3
  <1>3. Before(s, c) = p \o <<s[c]>>
    BY <1>1, SubSeqRecursiveSecond DEF Before
  <1>4. Append(p, s[c]) = p \o <<s[c]>>
    <2> HIDE DEF p
    <2> QED
      BY <1>1, <1>2, AppendIsConcat
  <1>5. Before(p \o <<s[c]>>, Len(p)) = p
    <2> HIDE DEF p
    <2> QED
      BY <1>2, HalvesOf
  <1>6. Front(Before(s, c)) = p /\ Last(Before(s, c)) = s[c]
    <2>1. Front(Before(s, c)) = SubSeq(p \o <<s[c]>>, 1, c - 1)
      BY <1>2, <1>3 DEF Front
    <2>2. SubSeq(p \o <<s[c]>>, 1, c - 1) = p
      BY <1>2, <1>5 DEF Before
    <2>3. Append(p, s[c])[Len(p) + 1] = s[c]
      <3> HIDE DEF p
      <3> QED
        BY <1>1, <1>2, AppendProperties
    <2>4. Last(Before(s, c)) = Append(p, s[c])[c]
      BY <1>2, <1>3, <1>4 DEF Last
    <2> QED
      BY <1>1, <1>2, <2>1, <2>2, <2>3, <2>4
  <1>7. After(s, c - 1) = <<s[c]>> \o After(s, c)
    BY <1>1, SubSeqRecursiveFirst DEF After
  <1>8. Head(After(s, c - 1)) = s[c] /\ Tail(After(s, c - 1)) = After(s, c)
    BY <1>1, HeadTailOfSubSeq DEF After
  <1>9. Before(s, c) # <<>> /\ After(s, c - 1) # <<>>
    <2>1. Len(<<>>) = 0 /\ c # 0 /\ n - (c - 1) # 0
      BY <1>1
    <2> QED
      BY <1>2, <2>1
  <1> QED
    BY <1>3, <1>4, <1>6, <1>7, <1>8, <1>9

\* The same, told from the position the cursor moves on from.
LEMMA MovedOn ==
  ASSUME NEW X, NEW s \in Seq(X), NEW c \in Nat, c + 1 \in 1 .. Len(s)
  PROVE  /\ After(s, c) # <<>> /\ After(s, c + 1) = Tail(After(s, c))
         /\ Before(s, c + 1) = Append(Before(s, c), Head(After(s, c)))
  <1> DEFINE d == c + 1
  <1>1. d \in 1 .. Len(s) /\ d - 1 = c
    OBVIOUS
  <1> HIDE DEF d
  <1>2. /\ After(s, d - 1) # <<>> /\ After(s, d) = Tail(After(s, d - 1))
        /\ Before(s, d) = Append(Before(s, d - 1), Head(After(s, d - 1)))
    BY <1>1, MovedOver, Zenon
  <1> QED
    BY <1>1, <1>2, Zenon DEF d

\* Inserting and removing a character at the cursor.
LEMMA TypedAt ==
  ASSUME NEW X, NEW s \in Seq(X), NEW c \in 0 .. Len(s), NEW e \in X
  PROVE  /\ Before(InsertAt(s, c + 1, e), c + 1) = Append(Before(s, c), e)
         /\ After(InsertAt(s, c + 1, e), c + 1) = After(s, c)
  <1> DEFINE p == Append(Before(s, c), e)
             q == After(s, c)
  <1>1. Before(s, c) \in Seq(X) /\ Len(Before(s, c)) = c /\ q \in Seq(X)
    BY Halves
  <1>2. p \in Seq(X) /\ Len(p) = c + 1 /\ p = Before(s, c) \o <<e>>
    BY <1>1, AppendProperties, AppendIsConcat
  <1>3. (c + 1) - 1 = c /\ InsertAt(s, c + 1, e)
          = SubSeq(s, 1, (c + 1) - 1) \o <<e>> \o SubSeq(s, c + 1, Len(s))
    BY DEF InsertAt
  <1>4. InsertAt(s, c + 1, e) = p \o q
    BY <1>2, <1>3 DEF Before, After
  <1>5. Before(p \o q, Len(p)) = p /\ After(p \o q, Len(p)) = q
    <2> HIDE DEF p, q
    <2> QED
      BY <1>1, <1>2, HalvesOf
  <1>6. /\ Before(InsertAt(s, c + 1, e), c + 1) = p
        /\ After(InsertAt(s, c + 1, e), c + 1) = q
    <2> HIDE DEF p, q
    <2> QED
      BY <1>2, <1>4, <1>5, Zenon
  <1> QED
    BY <1>6

LEMMA RemovedAt ==
  ASSUME NEW X, NEW s \in Seq(X), NEW c \in 1 .. Len(s)
  PROVE  /\ Before(RemoveAt(s, c), c - 1) = Front(Before(s, c))
         /\ After(RemoveAt(s, c), c - 1) = After(s, c)
  <1> DEFINE p == Before(s, c - 1)
             q == After(s, c)
  <1>1. c - 1 \in 0 .. Len(s) /\ c \in 0 .. Len(s)
    OBVIOUS
  <1>2. p \in Seq(X) /\ Len(p) = c - 1 /\ q \in Seq(X)
    BY <1>1, Halves
  <1>3. RemoveAt(s, c) = p \o q
    BY DEF RemoveAt, Before, After
  <1>4. Before(p \o q, Len(p)) = p /\ After(p \o q, Len(p)) = q
    <2> HIDE DEF p, q
    <2> QED
      BY <1>2, HalvesOf
  <1>5. Front(Before(s, c)) = p
    BY MovedOver
  <1> QED
    BY <1>2, <1>3, <1>4, <1>5

\* The ends of a line, and a line with nothing in it.
LEMMA AtTheEnd ==
  /\ \A X : \A s \in Seq(X) : Before(s, Len(s)) = s /\ After(s, Len(s)) = <<>>
  /\ Before(<<>>, 0) = <<>> /\ After(<<>>, 0) = <<>>
  <1>1. ASSUME NEW X, NEW s \in Seq(X) PROVE Before(s, Len(s)) = s /\ After(s, Len(s)) = <<>>
    <2>1. Len(s) + 1 \in Int /\ Len(s) \in Int /\ Len(s) < Len(s) + 1
      OBVIOUS
    <2> QED
      BY <2>1, SubSeqFull, SubSeqEmpty DEF Before, After
  <1>2. <<>> \in Seq({}) /\ Len(<<>>) = 0
    OBVIOUS
  <1> QED
    BY <1>1, <1>2

-----------------------------------------------------------------------------
(* Each step of the console is a step of the editor, or none.              *)

\* The state of the editor the console's stands for.
LEMMA EditorIs ==
  ASSUME Inv
  PROVE  /\ input \in Seq(Printable) /\ cursor_pos \in 0 .. Len(input)
         /\ Editor!line = input
         /\ Before(input, cursor_pos) = SubSeq(input, 1, cursor_pos)
         /\ After(input, cursor_pos) = SubSeq(input, cursor_pos + 1, Len(input))
  <1>1. input \in Seq(Printable) /\ cursor_pos \in 0 .. Len(input)
    BY DEF Inv, LineInv
  <1>2. Before(input, cursor_pos) \o After(input, cursor_pos) = input
    BY <1>1, Halves
  <1> QED
    BY <1>1, <1>2 DEF Before, After, Editor!line

LEMMA StepRefines == Inv /\ [Next]_vars => [Editor!Next]_(Editor!vars)
  <1> SUFFICES ASSUME Inv, [Next]_vars
               PROVE  [Editor!Next]_(Editor!vars)
    OBVIOUS
  <1> DEFINE b == Before(input, cursor_pos)
             a == After(input, cursor_pos)
             n == Len(input)
             c == cursor_pos
  <1>1. input \in Seq(Printable) /\ c \in 0 .. n /\ n \in Nat
    BY EditorIs
  <1>2. Editor!line = input
    BY EditorIs
  <1>3. /\ b = SubSeq(input, 1, cursor_pos) /\ a = SubSeq(input, cursor_pos + 1, Len(input))
        /\ b' = SubSeq(input, 1, cursor_pos)'
        /\ a' = SubSeq(input, cursor_pos + 1, Len(input))'
    BY DEF Before, After
  <1>4. ASSUME UNCHANGED line_vars PROVE UNCHANGED Editor!vars
    BY <1>4 DEF line_vars, Editor!vars
  <1>5. ASSUME NEW key, OpenConsole(key) PROVE Editor!Open
    <2>1. ~active /\ active' = TRUE /\ input' = input /\ cursor_pos' = Len(input)
      BY <1>5 DEF OpenConsole
    <2>2. b' = input /\ a' = <<>>
      BY <1>1, <2>1, AtTheEnd
    <2> QED
      BY <1>2, <1>3, <2>1, <2>2 DEF Editor!Open
  <1>6. ASSUME NEW key, Submit(key) PROVE Editor!Submit
    <2>1. active /\ active' = FALSE /\ input' = <<>> /\ cursor_pos' = 0
      BY <1>6 DEF Submit
    <2>2. b' = <<>> /\ a' = <<>>
      BY <2>1, AtTheEnd
    <2> QED
      BY <1>3, <2>1, <2>2 DEF Editor!Submit
  <1>7. ASSUME NEW key, Escape(key) PROVE Editor!Close
    <2>1. active /\ active' = FALSE /\ input' = input /\ cursor_pos' = cursor_pos
      BY <1>7 DEF Escape
    <2> QED
      BY <2>1 DEF Editor!Close
  <1>8. ASSUME NEW key, Backspace(key) PROVE [Editor!Next]_(Editor!vars)
    <2>1. CASE ~(cursor_pos > 0)
      <3>1. UNCHANGED line_vars
        BY <1>8, <2>1 DEF Backspace
      <3> QED
        BY <1>4, <3>1
    <2>2. CASE cursor_pos > 0
      <3>1. /\ active /\ active' = active /\ input' = RemoveAt(input, cursor_pos)
            /\ cursor_pos' = cursor_pos - 1 /\ c \in 1 .. n
        BY <1>1, <1>8, <2>2 DEF Backspace
      <3>2. b' = Front(b) /\ a' = a /\ b # <<>>
        BY <1>1, <3>1, RemovedAt, MovedOver
      <3>3. Editor!Backspace
        BY <1>3, <3>1, <3>2 DEF Editor!Backspace, Editor!Front, Front
      <3> QED
        BY <3>3 DEF Editor!Next
    <2> QED
      BY <2>1, <2>2
  <1>9. ASSUME NEW key, Insert(key) PROVE [Editor!Next]_(Editor!vars)
    <2>1. CASE ~Accepts(key)
      <3>1. UNCHANGED line_vars
        BY <1>9, <2>1 DEF Insert
      <3> QED
        BY <1>4, <3>1
    <2>2. CASE Accepts(key)
      <3>1. /\ active /\ active' = active
            /\ input' = InsertAt(input, cursor_pos + 1, key.character)
            /\ cursor_pos' = cursor_pos + 1
        BY <1>9, <2>2 DEF Insert
      <3>2. key.character \in Printable /\ Len(input) < MAX_INPUT_LEN
        BY <2>2 DEF Accepts
      <3>3. b' = Append(b, key.character) /\ a' = a
        <4>1. /\ Before(InsertAt(input, c + 1, key.character), c + 1) = Append(b, key.character)
              /\ After(InsertAt(input, c + 1, key.character), c + 1) = a
          BY <1>1, <3>2, TypedAt, Zenon
        <4> QED
          BY <3>1, <4>1
      <3>4. Editor!Insert(key.character)
        BY <1>2, <1>3, <3>1, <3>2, <3>3 DEF Editor!Insert
      <3> QED
        BY <3>2, <3>4 DEF Editor!Next
    <2> QED
      BY <2>1, <2>2
  <1>10. ASSUME NEW key, Arrow(key) PROVE [Editor!Next]_(Editor!vars)
    <2>1. /\ active /\ active' = active /\ input' = input
          /\ cursor_pos' = IF key.code = "ArrowLeft" THEN Larger(0, cursor_pos - 1)
                           ELSE Smaller(cursor_pos + 1, Len(input))
      BY <1>10 DEF Arrow
    <2>2. CASE cursor_pos' = cursor_pos
      <3>1. UNCHANGED line_vars
        BY <2>1, <2>2 DEF line_vars
      <3> QED
        BY <1>4, <3>1
    <2>3. CASE c \in 1 .. n /\ cursor_pos' = cursor_pos - 1
      <3>1. b # <<>> /\ b' = Front(b) /\ a' = <<Last(b)>> \o a
        BY <1>1, <2>1, <2>3, MovedOver
      <3>2. Editor!Left
        BY <1>3, <2>1, <3>1 DEF Editor!Left, Editor!Front, Editor!Last, Front, Last
      <3> QED
        BY <3>2 DEF Editor!Next
    <2>4. CASE c + 1 \in 1 .. n /\ cursor_pos' = cursor_pos + 1
      <3>1. a # <<>> /\ b' = Append(b, Head(a)) /\ a' = Tail(a)
        BY <1>1, <2>1, <2>4, MovedOn
      <3>2. Editor!Right
        BY <1>3, <2>1, <3>1 DEF Editor!Right
      <3> QED
        BY <3>2 DEF Editor!Next
    <2> QED
      BY <1>1, <2>1, <2>2, <2>3, <2>4 DEF Larger, Smaller
  <1>11. CASE UNCHANGED vars
    BY <1>4, <1>11 DEF vars
  <1>12. ASSUME NEW key, ScrollLog(key) PROVE UNCHANGED line_vars
    BY <1>12 DEF ScrollLog
  <1>13. ASSUME NEW key, ToggleLogs(key) PROVE UNCHANGED line_vars
    BY <1>13 DEF ToggleLogs
  <1>14. CASE Notice
    BY <1>4, <1>14 DEF Notice
  <1>15. ASSUME NEW key \in Keys, Event(key) PROVE [Editor!Next]_(Editor!vars)
    BY <1>4, <1>5, <1>6, <1>7, <1>8, <1>9, <1>10, <1>12, <1>13, <1>15, Zenon DEF Event, Editor!Next
  <1> QED
    BY <1>11, <1>14, <1>15 DEF Next

LEMMA InitRefines == Init => Editor!Init
  <1> SUFFICES ASSUME Init
               PROVE  Editor!Init
    OBVIOUS
  <1>1. input = <<>> /\ cursor_pos = 0 /\ active = FALSE
    BY DEF Init
  <1>2. Before(input, cursor_pos) = <<>> /\ After(input, cursor_pos) = <<>>
    BY <1>1, AtTheEnd
  <1> QED
    BY <1>1, <1>2 DEF Before, After, Editor!Init

\* The console edits its line as the line editor does: for any prompt, any bound on
\* the line and any keys, its input split at the cursor changes by the editor's steps
\* only, whatever is scrolled, toggled, logged and submitted.
THEOREM EditorRefinement == Spec => ImplementsEditor
  <1>1. Inv /\ [Next]_vars => [Editor!Next]_(Editor!vars)
    BY StepRefines
  <1> QED
    BY <1>1, InitRefines, ConsoleInvariant, PTL DEF Spec, ImplementsEditor, Editor!Spec

-----------------------------------------------------------------------------
(* The cache of glyphs.                                                    *)

LEMMA FunctionIsSeq ==
  ASSUME NEW X, NEW n \in Nat, NEW e \in [1 .. n -> X]
  PROVE  e \in Seq(X) /\ Len(e) = n
  OBVIOUS

\* A sequence that repeats nothing is as long as its set is large.
LEMMA OrderCounts ==
  ASSUME NEW X, NEW s \in Seq(X), IsInjective(s)
  PROVE  Cardinality(ToSet(s)) = Len(s)
  <1> DEFINE n == Len(s)
             T == ToSet(s)
  <1>1. n \in Nat /\ DOMAIN s = 1 .. n /\ s \in [1 .. n -> X]
    OBVIOUS
  <1>2. s \in [1 .. n -> T] /\ \A t \in T : \E i \in 1 .. n : s[i] = t
    BY <1>1, Zenon DEF ToSet
  <1> HIDE DEF n, T
  <1>3. s \in Bijection(1 .. n, T)
    BY <1>2 DEF Bijection, Injection, Surjection
  <1>4. ExistsBijection(1 .. n, T)
    BY <1>3 DEF ExistsBijection
  <1>5. Cardinality(T) = n
    BY <1>1, <1>4, FS_CountingElements
  <1> QED
    BY <1>5 DEF n, T

\* What a queue without repetition holds when one is put into it or taken out.
LEMMA OrderGrows ==
  ASSUME NEW X, NEW s \in Seq(X), IsInjective(s), NEW g \in X, g \notin ToSet(s)
  PROVE  LET t == Append(s, g) IN
         /\ t \in Seq(X) /\ Len(t) = Len(s) + 1
         /\ IsInjective(t) /\ ToSet(t) = ToSet(s) \cup {g}
  <1> DEFINE t == Append(s, g)
             n == Len(s)
  <1>1. /\ t \in Seq(X) /\ Len(t) = n + 1 /\ n \in Nat
        /\ DOMAIN s = 1 .. n /\ DOMAIN t = 1 .. n + 1
        /\ t[n + 1] = g /\ \A i \in 1 .. n : t[i] = s[i]
    BY AppendProperties
  <1>2. 1 .. n + 1 = (1 .. n) \cup {n + 1} /\ n + 1 \notin 1 .. n
    BY <1>1
  <1>3. \A i \in 1 .. n : s[i] # g
    BY <1>1, Zenon DEF ToSet
  <1> HIDE DEF t, n
  <1>4. IsInjective(t)
    <2>1. \A i, j \in 1 .. n : s[i] = s[j] => i = j
      BY <1>1, Zenon DEF IsInjective
    <2>2. \A i, j \in 1 .. n + 1 : t[i] = t[j] => i = j
      BY <1>1, <1>2, <1>3, <2>1
    <2> QED
      BY <1>1, <2>2, Zenon DEF IsInjective
  <1>5. ToSet(t) = ToSet(s) \cup {g}
    <2>1. \A x : (\E i \in 1 .. n + 1 : x = t[i]) <=> (x = g \/ \E i \in 1 .. n : x = s[i])
      BY <1>1, <1>2
    <2>2. \A x : /\ x \in ToSet(t) <=> \E i \in 1 .. n + 1 : x = t[i]
                 /\ x \in ToSet(s) <=> \E i \in 1 .. n : x = s[i]
      BY <1>1, Zenon DEF ToSet
    <2>3. \A x : x \in ToSet(t) <=> x = g \/ x \in ToSet(s)
      BY <2>1, <2>2, Zenon
    <2> QED
      BY <2>3, Zenon
  <1> QED
    BY <1>1, <1>4, <1>5 DEF t, n

LEMMA OrderShrinks ==
  ASSUME NEW X, NEW s \in Seq(X), IsInjective(s), s # <<>>
  PROVE  LET t == Tail(s) IN
         /\ t \in Seq(X) /\ Len(t) = Len(s) - 1
         /\ IsInjective(t) /\ ToSet(t) = ToSet(s) \ {Head(s)}
  <1> DEFINE t == Tail(s)
             n == Len(s)
  <1>1. /\ n \in Nat /\ n # 0 /\ DOMAIN s = 1 .. n /\ Head(s) = s[1]
        /\ t \in Seq(X) /\ Len(t) = n - 1
    BY HeadTailProperties
  <1>2. DOMAIN t = 1 .. n - 1 /\ \A i \in 1 .. n - 1 : t[i] = s[i + 1]
    BY <1>1, HeadTailProperties
  <1>3. \A i, j \in 1 .. n : s[i] = s[j] => i = j
    BY <1>1, Zenon DEF IsInjective
  <1> HIDE DEF t, n
  <1>4. \A i \in 1 .. n - 1 : i + 1 \in 1 .. n /\ i + 1 # 1
    BY <1>1
  <1>5. IsInjective(t)
    <2>1. \A i, j \in 1 .. n - 1 : i + 1 = j + 1 => i = j
      OBVIOUS
    <2>2. \A i, j \in 1 .. n - 1 : t[i] = t[j] => i = j
      BY <1>2, <1>3, <1>4, <2>1
    <2> QED
      BY <1>2, <2>2, Zenon DEF IsInjective
  <1>6. ToSet(t) = ToSet(s) \ {Head(s)}
    <2>1. \A i \in 1 .. n : i = 1 \/ \E j \in 1 .. n - 1 : i = j + 1
      <3> SUFFICES ASSUME NEW i \in 1 .. n, i # 1
                   PROVE  \E j \in 1 .. n - 1 : i = j + 1
        OBVIOUS
      <3>1. i - 1 \in 1 .. n - 1 /\ i = (i - 1) + 1
        BY <1>1
      <3> QED
        BY <3>1, Zenon
    <2>2. 1 \in 1 .. n
      BY <1>1
    <2>3. \A x : (\E j \in 1 .. n - 1 : x = t[j]) <=> (x # s[1] /\ \E i \in 1 .. n : x = s[i])
      BY <1>2, <1>3, <1>4, <2>1, <2>2
    <2>4. ToSet(t) = {t[i] : i \in 1 .. n - 1} /\ ToSet(s) = {s[i] : i \in 1 .. n}
      BY <1>1, <1>2, Zenon DEF ToSet
    <2>5. \A x : x \in ToSet(t) <=> x \in ToSet(s) /\ x # s[1]
      BY <2>3, <2>4
    <2>6. ToSet(t) = ToSet(s) \ {s[1]}
      BY <2>5, Zenon
    <2> QED
      BY <1>1, <2>6
  <1> QED
    BY <1>1, <1>5, <1>6 DEF t, n

\* The cache holds glyphs of X, and its queue the same ones.
CacheOf(X, c) == c \in [cache : SUBSET X, order : Seq(X)] /\ InStep(c)

\* A request keeps cache and queue in step, whether the glyph is found, is added, or is
\* added in the place of the oldest.
LEMMA OneRequested ==
  ASSUME NEW X, NEW c, CacheOf(X, c), NEW g \in X
  PROVE  CacheOf(X, get_raster(c, g))
  <1> DEFINE room == IF Cardinality(c.cache) >= MAX_CACHE_ENTRIES /\ c.order # <<>>
                     THEN Evict(c) ELSE c
             next == [cache |-> room.cache \cup {g}, order |-> Append(room.order, g)]
  <1>1. /\ c.order \in Seq(X) /\ c.cache \subseteq X /\ IsInjective(c.order)
        /\ ToSet(c.order) = c.cache /\ Len(c.order) <= MAX_CACHE_ENTRIES
        /\ Len(c.order) \in Nat /\ MAX_CACHE_ENTRIES \in Nat \ {0}
    BY CacheAssumption DEF CacheOf, InStep
  <1>2. Cardinality(c.cache) = Len(c.order)
    BY <1>1, OrderCounts
  <1>3. CASE g \in c.cache
    BY <1>3 DEF get_raster
  <1>4. CASE g \notin c.cache
    <2>1. get_raster(c, g) = next
      BY <1>4 DEF get_raster
    <2>2. /\ room.order \in Seq(X) /\ IsInjective(room.order)
          /\ ToSet(room.order) = room.cache /\ room.cache \subseteq c.cache
          /\ Len(room.order) \in Nat /\ Len(room.order) < MAX_CACHE_ENTRIES
      <3>1. CASE ~(Cardinality(c.cache) >= MAX_CACHE_ENTRIES /\ c.order # <<>>)
        <4>1. room = c
          BY <3>1
        <4>2. Len(<<>>) = 0
          OBVIOUS
        <4>3. Len(c.order) < MAX_CACHE_ENTRIES
          BY <1>1, <1>2, <3>1, <4>2
        <4> HIDE DEF room
        <4> QED
          BY <1>1, <4>1, <4>3
      <3>2. CASE Cardinality(c.cache) >= MAX_CACHE_ENTRIES /\ c.order # <<>>
        <4>1. room.cache = c.cache \ {Head(c.order)} /\ room.order = Tail(c.order)
          BY <3>2 DEF Evict
        <4>2. /\ Tail(c.order) \in Seq(X) /\ Len(Tail(c.order)) = Len(c.order) - 1
              /\ IsInjective(Tail(c.order))
              /\ ToSet(Tail(c.order)) = ToSet(c.order) \ {Head(c.order)}
          BY <1>1, <3>2, OrderShrinks
        <4>3. Len(Tail(c.order)) \in Nat
          BY <4>2
        <4> HIDE DEF room
        <4> QED
          BY <1>1, <4>1, <4>2, <4>3
      <3> QED
        BY <3>1, <3>2
    <2> HIDE DEF room
    <2>3. g \notin ToSet(room.order)
      BY <1>4, <2>2
    <2>4. /\ Append(room.order, g) \in Seq(X) /\ Len(Append(room.order, g)) = Len(room.order) + 1
          /\ IsInjective(Append(room.order, g))
          /\ ToSet(Append(room.order, g)) = ToSet(room.order) \cup {g}
      BY <2>2, <2>3, OrderGrows
    <2>5. Len(Append(room.order, g)) <= MAX_CACHE_ENTRIES
      BY <1>1, <2>2, <2>4
    <2>6. room.cache \cup {g} \in SUBSET X
      BY <1>1, <2>2
    <2>7. next.cache = room.cache \cup {g} /\ next.order = Append(room.order, g)
          /\ next \in [cache : SUBSET X, order : Seq(X)]
      BY <2>4, <2>6
    <2> HIDE DEF next
    <2> QED
      BY <2>1, <2>2, <2>4, <2>5, <2>7 DEF CacheOf, InStep
  <1> QED
    BY <1>3, <1>4

\* So do any requests one after the other, from an empty cache on.
Requests(f, s) ==
  f[0] = EmptyCache /\ \A i \in 1 .. Len(s) : f[i] = get_raster(f[i - 1], s[i])

LEMMA RequestedBy ==
  ASSUME NEW s, Len(s) \in Nat
  PROVE  \E f : Requested(EmptyCache, s) = f[Len(s)] /\ Requests(f, s)
  <1>1. \E f : /\ Requested(EmptyCache, s) = f[Len(s)]
               /\ f[0] = EmptyCache
               /\ \A i \in 1 .. Len(s) : f[i] = get_raster(f[i - 1], s[i])
    BY AllRequested
  <1> QED
    BY <1>1, Zenon DEF Requests

LEMMA KeptInStep ==
  ASSUME NEW X, NEW s \in Seq(X)
  PROVE  InStep(Requested(EmptyCache, s))
  <1> DEFINE n == Len(s)
  <1>1. n \in Nat
    OBVIOUS
  <1>2. PICK f : Requested(EmptyCache, s) = f[n] /\ Requests(f, s)
    BY <1>1, RequestedBy, Zenon
  <1> DEFINE Held == {i \in Nat : i <= n => CacheOf(X, f[i])}
  <1>3. 0 \in Held
    <2>1. ToSet(<<>>) = {} /\ IsInjective(<<>>) /\ Len(<<>>) = 0
      BY DEF ToSet, IsInjective
    <2>2. <<>> \in Seq(X) /\ {} \in SUBSET X /\ 0 <= MAX_CACHE_ENTRIES
      BY CacheAssumption
    <2>3. CacheOf(X, EmptyCache)
      BY <2>1, <2>2 DEF CacheOf, InStep, EmptyCache
    <2>4. f[0] = EmptyCache
      BY <1>2 DEF Requests
    <2> QED
      BY <2>3, <2>4
  <1>4. ASSUME NEW i \in Nat \cap Held PROVE i + 1 \in Held
    <2> SUFFICES ASSUME i + 1 <= n
                 PROVE  CacheOf(X, f[i + 1])
      BY DEF Held
    <2>1. i <= n /\ i + 1 \in 1 .. n /\ (i + 1) - 1 = i /\ i \in Held
      BY <1>1, <1>4
    <2>2. CacheOf(X, f[i])
      BY <2>1 DEF Held
    <2>3. s[i + 1] \in X
      BY <2>1
    <2>4. f[i + 1] = get_raster(f[(i + 1) - 1], s[i + 1])
      BY <1>2, <2>1, Zenon DEF Requests, n
    <2>5. f[i + 1] = get_raster(f[i], s[i + 1])
      BY <2>1, <2>4
    <2> QED
      BY <2>2, <2>3, <2>5, OneRequested
  <1> HIDE DEF Held
  <1>5. \A i \in Nat : i \in Held
    BY <1>3, <1>4, Induction
  <1>6. CacheOf(X, f[n])
    BY <1>1, <1>5 DEF Held
  <1> QED
    BY <1>2, <1>6 DEF CacheOf

\* The glyphs drawn are a sequence, whichever lines are in view.
AnyByte(tb) == {tb.buffer[l][i].b : l \in Nat, i \in Int}

LEMMA DrawnType ==
  ASSUME NEW tb, tb \in Box, LinesToRender(tb) \in Seq(VisualLine)
  PROVE  Drawn(tb) \in Seq(AnyByte(tb))
  <1> DEFINE Y == {tb.buffer[l][i] : l \in Nat, i \in Int}
             lines == Reverse(LinesToRender(tb))
             m == Len(LinesToRender(tb))
             Part(v) == SubSeq(tb.buffer[v.line_idx], v.start + 1, v.end)
             parts == [n \in DOMAIN lines |-> Part(lines[n])]
             all == FlattenSeq(parts)
  <1>1. /\ m \in Nat /\ DOMAIN lines = 1 .. m
        /\ \A n \in 1 .. m : lines[n] \in VisualLine
    <2>1. m \in Nat /\ \A n \in 1 .. m : LinesToRender(tb)[n] \in VisualLine
      OBVIOUS
    <2>2. lines = [n \in 1 .. m |-> LinesToRender(tb)[(m - n) + 1]]
      BY DEF Reverse
    <2>3. \A n \in 1 .. m : (m - n) + 1 \in 1 .. m
      BY <2>1
    <2> HIDE DEF m, lines
    <2>4. DOMAIN lines = 1 .. m /\ \A n \in 1 .. m : lines[n] = LinesToRender(tb)[(m - n) + 1]
      BY <2>2, Zenon
    <2> QED
      BY <2>1, <2>3, <2>4, Zenon
  <1>2. ASSUME NEW v \in VisualLine PROVE Part(v) \in Seq(Y)
    <2>1. v.line_idx \in Nat /\ v.start + 1 \in Int /\ v.end \in Int
      BY DEF VisualLine
    <2>2. \A i \in v.start + 1 .. v.end : i \in Int
      OBVIOUS
    <2>3. \A i \in v.start + 1 .. v.end : tb.buffer[v.line_idx][i] \in Y
      BY <2>1, <2>2
    <2> HIDE DEF Y
    <2> QED
      BY <2>1, <2>3, SubSeqProperties
  <1>3. parts \in Seq(Seq(Y))
    <2>1. parts \in [1 .. m -> Seq(Y)]
      <3> HIDE DEF Y, lines, m, Part
      <3> QED
        BY <1>1, <1>2
    <2> HIDE DEF parts, Y, m
    <2> QED
      BY <1>1, <2>1, FunctionIsSeq, Zenon
  <1>4. all \in Seq(Y)
    <2>1. <<>> \in Seq(Y)
      OBVIOUS
    <2> HIDE DEF parts, Y
    <2> QED
      BY <1>3, <2>1, FlattenAppend
  <1>5. Drawn(tb) = [i \in DOMAIN all |-> all[i].b]
    BY DEF Drawn, Bytes
  <1>6. \A y \in Y : y.b \in AnyByte(tb)
    <2> SUFFICES ASSUME NEW l \in Nat, NEW i \in Int
                 PROVE  tb.buffer[l][i].b \in AnyByte(tb)
      OBVIOUS
    <2> QED
      BY DEF AnyByte
  <1>7. Len(all) \in Nat /\ DOMAIN all = 1 .. Len(all) /\ \A i \in 1 .. Len(all) : all[i] \in Y
    <2> HIDE DEF all, Y
    <2> QED
      BY <1>4
  <1> HIDE DEF all, Y
  <1>8. Drawn(tb) \in [1 .. Len(all) -> AnyByte(tb)]
    BY <1>5, <1>6, <1>7
  <1> QED
    BY <1>7, <1>8, FunctionIsSeq, Zenon

LEMMA InStepAlways == Inv => CacheInStep
  <1> SUFFICES ASSUME Inv
               PROVE  CacheInStep
    OBVIOUS
  <1> DEFINE X == Printable \cup AnyByte(log) \cup AnyByte(console)
             drawn == FrameGlyphs
             asked == Pushed(log) \o Pushed(console) \o drawn \o drawn
  <1>1. log \in Box /\ console \in Box /\ console.scroll_offset = 0
    BY DEF Inv, LogInv, LogHolds, ConsoleInv, Laid, Fixed
  <1>2. /\ log.scroll_offset \in 0 .. Len(log.visual_lines)
        /\ MaxVisibleLines(log) \in Nat /\ MaxVisibleLines(console) \in Nat
    BY ViewNumbers DEF MaxScrollOffset, Larger
  <1>3. ASSUME NEW tb \in Box, MaxVisibleLines(tb) \in Nat,
               tb.scroll_offset \in 0 .. Len(tb.visual_lines)
        PROVE  Pushed(tb) \in Seq(Printable) /\ Drawn(tb) \in Seq(AnyByte(tb))
    <2> DEFINE end == Len(tb.visual_lines) - tb.scroll_offset
               start == Larger(0, end - MaxVisibleLines(tb))
    <2>1. tb.buffer \in Seq(Seq(Glyph)) /\ tb.visual_lines \in Seq(VisualLine)
          /\ Len(tb.visual_lines) \in Nat
      BY DEF Box
    <2>2. <<>> \in Seq(Glyph)
      OBVIOUS
    <2>3. FlattenSeq(tb.buffer) \in Seq(Glyph)
      BY <2>1, <2>2, FlattenAppend
    <2>4. Pushed(tb) \in Seq(Printable)
      BY <2>3, BytesType DEF Pushed
    <2>5. start \in Int /\ start + 1 \in Int /\ start >= 0 /\ end \in Int /\ end <= Len(tb.visual_lines)
      BY <1>3, <2>1 DEF Larger
    <2>6. \A i \in start + 1 .. end : i \in 1 .. Len(tb.visual_lines)
      <3> HIDE DEF start, end
      <3> QED
        BY <2>1, <2>5
    <2>7. \A i \in start + 1 .. end : tb.visual_lines[i] \in VisualLine
      BY <2>1, <2>6, ElementOfSeq
    <2>8. LinesToRender(tb) = SubSeq(tb.visual_lines, start + 1, end)
      BY DEF LinesToRender
    <2>9. LinesToRender(tb) \in Seq(VisualLine)
      <3> HIDE DEF start, end
      <3> QED
        BY <2>5, <2>7, <2>8, SubSeqProperties
    <2> QED
      BY <2>4, <2>9, DrawnType
  <1>4. /\ Pushed(log) \in Seq(Printable) /\ Drawn(log) \in Seq(AnyByte(log))
        /\ Pushed(console) \in Seq(Printable) /\ Drawn(console) \in Seq(AnyByte(console))
    <2>1. 0 \in 0 .. Len(console.visual_lines)
      BY <1>1 DEF Box
    <2> QED
      BY <1>1, <1>2, <1>3, <2>1
  <1>5. Printable \subseteq X /\ AnyByte(log) \subseteq X /\ AnyByte(console) \subseteq X
    OBVIOUS
  <1> HIDE DEF X
  <1>6. /\ Pushed(log) \in Seq(X) /\ Drawn(log) \in Seq(X) /\ Pushed(console) \in Seq(X)
        /\ Drawn(console) \in Seq(X) /\ <<>> \in Seq(X)
    BY <1>4, <1>5, SeqMonotonic
  <1>7. \A p, q \in Seq(X) : p \o q \in Seq(X)
    BY ConcatProperties
  <1>8. FrameGlyphs \in Seq(X)
    BY <1>6, <1>7, Zenon DEF FrameGlyphs
  <1>9. asked \in Seq(X)
    BY <1>6, <1>7, <1>8, Zenon
  <1>10. InStep(Requested(EmptyCache, asked))
    <2> HIDE DEF asked
    <2> QED
      BY <1>9, KeptInStep
  <1> QED
    BY <1>10 DEF CacheInStep

\* The cache of glyphs and its queue stay in step, and within MAX_CACHE_ENTRIES, so
\* that push_back_unchecked (text_box.rs:46) never meets a full queue: for every size of
\* the cache, and everything that is logged, typed, scrolled and drawn.
THEOREM CacheStaysInStep == Spec => []CacheInStep
  <1>1. Inv => CacheInStep
    BY InStepAlways
  <1> QED
    BY <1>1, ConsoleInvariant, PTL
================================================================================
