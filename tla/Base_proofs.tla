----------------------------- MODULE Base_proofs -----------------------------
(***************************************************************************)
(* Machine-checked facts about the base phases, for every set of hosts and *)
(* sizes and every number of faults.                                       *)
(***************************************************************************)
EXTENDS Base, SequenceTheorems, FiniteSetTheorems, TLAPS

-----------------------------------------------------------------------------
(* Induction over the natural numbers, for a set of them.  The library     *)
(* states it for an operator.                                              *)
LEMMA LeastNumber ==
    ASSUME NEW T \in SUBSET Nat, T # {}
    PROVE  \E m \in T : \A k \in T : m <= k
<1> DEFINE Less == {pair \in Nat \X Nat : pair[1] < pair[2]}
<1>1. IsWellFoundedOn(Less, Nat)
  BY NatLessThanWellFounded DEF OpToRel
<1>2. PICK m \in T : \A k \in T : ~(<<k, m>> \in Less)
  <2> HIDE DEF Less
  <2> QED
    BY <1>1, WFMin
<1>3. ASSUME NEW k \in T PROVE m <= k
  <2>1. <<k, m>> \in Nat \X Nat /\ ~(k < m)
    BY <1>2
  <2> QED
    BY <2>1
<1> QED
  BY <1>3

LEMMA Induction ==
    ASSUME NEW n \in Nat, NEW T, 0 \in T,
           \A i \in 1..n : i - 1 \in T => i \in T
    PROVE  \A i \in 0..n : i \in T
<1>1. SUFFICES ASSUME (0..n) \ T # {} PROVE FALSE
  OBVIOUS
<1>2. PICK m \in (0..n) \ T : \A k \in (0..n) \ T : m <= k
  <2> DEFINE R == (0..n) \ T
  <2>1. R \in SUBSET Nat /\ R # {}
    BY <1>1
  <2> HIDE DEF R
  <2>2. \E m \in R : \A k \in R : m <= k
    BY <2>1, LeastNumber
  <2> QED
    BY <2>2 DEF R
<1>3. m \in 1..n /\ m - 1 \in 0..n /\ m - 1 \in T
  BY <1>2
<1> QED
  BY <1>2, <1>3

-----------------------------------------------------------------------------
(* What Picked computes: prefix by prefix.                                 *)
ArePrefixes(picked, lines, positions) ==
    picked = [i \in 0..Len(lines) |->
               IF i = 0 THEN <<>>
               ELSE IF i \in positions THEN Append(picked[i - 1], lines[i])
                    ELSE picked[i - 1]]
Prefixes(lines, positions) == CHOOSE picked : ArePrefixes(picked, lines, positions)

LEMMA PrefixesExist ==
    ASSUME NEW S, NEW lines \in Seq(S), NEW positions
    PROVE  \E picked : ArePrefixes(picked, lines, positions)
<1> DEFINE Entry(f, i) == IF i = 0 THEN <<>>
                          ELSE IF i \in positions THEN Append(f[i - 1], lines[i])
                          ELSE f[i - 1]
           T == {n \in Nat : \E f : f = [i \in 0..n |-> Entry(f, i)]}
<1>1. 0 \in T
  <2> DEFINE f == [i \in 0..0 |-> <<>>]
  <2>1. f = [i \in 0..0 |-> Entry(f, i)]
    OBVIOUS
  <2> QED
    BY <2>1
<1>2. ASSUME NEW n \in 1..Len(lines), n - 1 \in T PROVE n \in T
  <2>1. PICK f : f = [i \in 0..(n - 1) |-> Entry(f, i)]
    BY <1>2
  <2> DEFINE g == [i \in 0..n |-> IF i < n THEN f[i] ELSE Entry(f, n)]
  <2>2. ASSUME NEW i \in 0..n PROVE g[i] = Entry(g, i)
    <3>1. i > 0 => i - 1 \in 0..n /\ i - 1 < n /\ g[i - 1] = f[i - 1]
      OBVIOUS
    <3>2. Entry(g, i) = Entry(f, i)
      <4> HIDE DEF g
      <4> QED
        BY <3>1
    <3>3. i < n => f[i] = Entry(f, i)
      <4> HIDE DEF Entry
      <4> QED
        BY <2>1
    <3>4. g[i] = IF i < n THEN f[i] ELSE Entry(f, n)
      <4> HIDE DEF Entry
      <4> QED
        OBVIOUS
    <3> HIDE DEF g, Entry
    <3>5. i < n \/ i = n
      OBVIOUS
    <3> QED
      BY <3>2, <3>3, <3>4, <3>5
  <2>3. g = [i \in 0..n |-> Entry(g, i)]
    <3>1. g = [i \in 0..n |-> g[i]]
      OBVIOUS
    <3> HIDE DEF g, Entry
    <3> QED
      BY <2>2, <3>1
  <2>4. \E h : h = [i \in 0..n |-> Entry(h, i)]
    <3> HIDE DEF g, Entry
    <3> QED
      BY <2>3
  <2>5. n \in Nat
    BY LenProperties
  <2> HIDE DEF Entry
  <2> QED
    BY <2>4, <2>5
<1>3. Len(lines) \in T
  <2>1. Len(lines) \in Nat /\ Len(lines) \in 0..Len(lines)
    BY LenProperties
  <2>2. \A n \in 1..Len(lines) : n - 1 \in T => n \in T
    BY <1>2
  <2> HIDE DEF T
  <2>3. \A i \in 0..Len(lines) : i \in T
    BY <1>1, <2>1, <2>2, Induction
  <2> QED
    BY <2>1, <2>3
<1> QED
  BY <1>3 DEF ArePrefixes

LEMMA PrefixesStep ==
    ASSUME NEW S, NEW lines \in Seq(S), NEW positions
    PROVE  LET f == Prefixes(lines, positions)
           IN  /\ f[0] = <<>>
               /\ \A i \in 1..Len(lines) :
                    f[i] = IF i \in positions THEN Append(f[i - 1], lines[i]) ELSE f[i - 1]
               /\ Picked(lines, positions) = f[Len(lines)]
<1> DEFINE f == Prefixes(lines, positions)
<1>1. f = [i \in 0..Len(lines) |->
             IF i = 0 THEN <<>>
             ELSE IF i \in positions THEN Append(f[i - 1], lines[i]) ELSE f[i - 1]]
  <2>1. ArePrefixes(f, lines, positions)
    BY PrefixesExist, Zenon DEF Prefixes
  <2> HIDE DEF f
  <2> QED
    BY <2>1 DEF ArePrefixes
<1>2. Picked(lines, positions) = f[Len(lines)]
  BY DEF Picked, Prefixes, ArePrefixes
<1>3. Len(lines) \in Nat
  BY LenProperties
<1> HIDE DEF f
<1>4. f[0] = <<>>
  BY <1>1, <1>3
<1>5. ASSUME NEW i \in 1..Len(lines)
      PROVE  f[i] = IF i \in positions THEN Append(f[i - 1], lines[i]) ELSE f[i - 1]
  <2>1. i \in 0..Len(lines) /\ i # 0
    BY <1>3
  <2> QED
    BY <1>1, <2>1, Zenon
<1> QED
  BY <1>2, <1>4, <1>5 DEF f

LEMMA PickedNone == \A P : Picked(<<>>, P) = <<>>
<1> SUFFICES ASSUME NEW P PROVE Picked(<<>>, P) = <<>>
  OBVIOUS
<1> DEFINE none == <<>>
<1>1. none \in Seq({}) /\ Len(none) = 0
  OBVIOUS
<1> HIDE DEF none
<1>2. Prefixes(none, P)[0] = <<>> /\ Picked(none, P) = Prefixes(none, P)[Len(none)]
  BY <1>1, PrefixesStep, Zenon
<1>3. Picked(none, P) = <<>>
  BY <1>1, <1>2
<1> QED
  BY <1>3 DEF none

(* The lines picked, of those that are the same in two files.              *)
LEMMA PrefixesLocal ==
    ASSUME NEW S, NEW l \in Seq(S), NEW m \in Seq(S), NEW P, NEW Q,
           NEW n \in Nat, n <= Len(l), n <= Len(m),
           \A i \in 1..n : l[i] = m[i] /\ (i \in P <=> i \in Q)
    PROVE  Prefixes(l, P)[n] = Prefixes(m, Q)[n]
<1> DEFINE f == Prefixes(l, P)
           g == Prefixes(m, Q)
           T == {i \in 0..n : f[i] = g[i]}
<1>1. /\ f[0] = <<>> /\ g[0] = <<>>
      /\ \A i \in 1..Len(l) : f[i] = IF i \in P THEN Append(f[i - 1], l[i]) ELSE f[i - 1]
      /\ \A i \in 1..Len(m) : g[i] = IF i \in Q THEN Append(g[i - 1], m[i]) ELSE g[i - 1]
  BY PrefixesStep
<1>2. Len(l) \in Nat /\ Len(m) \in Nat
  BY LenProperties
<1> HIDE DEF f, g
<1>3. 0 \in T
  BY <1>1
<1>4. ASSUME NEW i \in 1..n, i - 1 \in T PROVE i \in T
  BY <1>1, <1>2, <1>4
<1>5. n \in T
  <2>1. \A i \in 1..n : i - 1 \in T => i \in T
    BY <1>4
  <2> HIDE DEF T
  <2>2. \A i \in 0..n : i \in T
    BY <1>3, <2>1, Induction
  <2> QED
    BY <2>2
<1> QED
  BY <1>5 DEF f, g

LEMMA PrefixesType ==
    ASSUME NEW S, NEW lines \in Seq(S), NEW P, NEW R,
           \A i \in 1..Len(lines) : i \in P => lines[i] \in R
    PROVE  \A i \in 0..Len(lines) : Prefixes(lines, P)[i] \in Seq(R)
<1> DEFINE f == Prefixes(lines, P)
           T == {i \in 0..Len(lines) : f[i] \in Seq(R)}
<1>1. /\ f[0] = <<>>
      /\ \A i \in 1..Len(lines) : f[i] = IF i \in P THEN Append(f[i - 1], lines[i]) ELSE f[i - 1]
  BY PrefixesStep
<1>2. Len(lines) \in Nat
  BY LenProperties
<1> HIDE DEF f
<1>3. 0 \in T
  <2>1. <<>> \in Seq(R) /\ 0 \in 0..Len(lines)
    BY <1>2
  <2> QED
    BY <1>1, <2>1
<1>4. ASSUME NEW i \in 1..Len(lines), i - 1 \in T PROVE i \in T
  <2>1. i \in 0..Len(lines) /\ f[i - 1] \in Seq(R)
    BY <1>2, <1>4
  <2>2. i \in P => Append(f[i - 1], lines[i]) \in Seq(R)
    BY <2>1, AppendProperties
  <2>3. f[i] \in Seq(R)
    BY <1>1, <2>1, <2>2
  <2> QED
    BY <2>1, <2>3
<1>5. \A i \in 0..Len(lines) : i \in T
  <2>1. \A i \in 1..Len(lines) : i - 1 \in T => i \in T
    BY <1>4
  <2> HIDE DEF T
  <2> QED
    BY <1>2, <1>3, <2>1, Induction
<1> QED
  BY <1>5 DEF f

LEMMA PickedType ==
    ASSUME NEW S, NEW lines \in Seq(S), NEW P, NEW R,
           \A i \in 1..Len(lines) : i \in P => lines[i] \in R
    PROVE  Picked(lines, P) \in Seq(R)
<1>1. Picked(lines, P) = Prefixes(lines, P)[Len(lines)]
  BY PrefixesStep
<1>2. Len(lines) \in 0..Len(lines)
  BY LenProperties
<1> QED
  BY <1>1, <1>2, PrefixesType

LEMMA PickedAppend ==
    ASSUME NEW S, NEW l \in Seq(S), NEW x \in S, NEW P, NEW Q,
           \A i \in 1..Len(l) : i \in P <=> i \in Q
    PROVE  Picked(Append(l, x), Q) =
             IF Len(l) + 1 \in Q THEN Append(Picked(l, P), x) ELSE Picked(l, P)
<1> DEFINE m == Append(l, x)
           f == Prefixes(l, P)
           g == Prefixes(m, Q)
           n == Len(l)
<1>1. /\ m \in Seq(S) /\ Len(m) = n + 1 /\ n \in Nat
      /\ \A i \in 1..n : m[i] = l[i]
      /\ m[n + 1] = x
  BY AppendProperties, LenProperties
<1> HIDE DEF m, n
<1>2. f[n] = g[n]
  <2>1. n <= Len(l) /\ n <= Len(m)
    BY <1>1 DEF n
  <2>2. \A i \in 1..n : l[i] = m[i] /\ (i \in P <=> i \in Q)
    BY <1>1 DEF n
  <2> QED
    BY <1>1, <2>1, <2>2, PrefixesLocal
<1>3. Picked(l, P) = f[n]
  BY PrefixesStep DEF n
<1>4. /\ Picked(m, Q) = g[n + 1]
      /\ g[n + 1] = IF n + 1 \in Q THEN Append(g[n], m[n + 1]) ELSE g[n]
  <2> HIDE DEF g
  <2>1. /\ \A i \in 1..Len(m) : g[i] = IF i \in Q THEN Append(g[i - 1], m[i]) ELSE g[i - 1]
        /\ Picked(m, Q) = g[Len(m)]
    BY <1>1, PrefixesStep DEF g
  <2>2. n + 1 \in 1..Len(m) /\ (n + 1) - 1 = n
    BY <1>1
  <2> QED
    BY <1>1, <2>1, <2>2
<1> QED
  BY <1>1, <1>2, <1>3, <1>4 DEF m, n

-----------------------------------------------------------------------------
(* The lines of /etc/fstab.                                                *)

LEMMA OtherEntriesType ==
    ASSUME NEW lines \in Seq(Line)
    PROVE  OtherEntries(lines) \in Seq(Line)
<1>1. \A i \in 1..Len(lines) : lines[i] \in Line
  BY ElementOfSeq
<1> QED
  BY <1>1, PickedType DEF OtherEntries

LEMMA OtherEntriesAppend ==
    ASSUME NEW lines \in Seq(Line), NEW x \in Line
    PROVE  OtherEntries(Append(lines, x)) =
             IF x \in {"comment", "managed"} THEN OtherEntries(lines)
             ELSE Append(OtherEntries(lines), x)
<1> DEFINE more == Append(lines, x)
           Unowned(l) == {i \in DOMAIN l : l[i] \notin {"comment", "managed"}}
<1>1. /\ more \in Seq(Line) /\ Len(more) = Len(lines) + 1 /\ Len(lines) \in Nat
      /\ \A i \in 1..Len(lines) : more[i] = lines[i]
      /\ more[Len(lines) + 1] = x
      /\ DOMAIN lines = 1..Len(lines) /\ DOMAIN more = 1..Len(more)
  BY AppendProperties, LenProperties
<1> HIDE DEF more
<1>2. \A i \in 1..Len(lines) : i \in Unowned(lines) <=> i \in Unowned(more)
  BY <1>1
<1>3. Len(lines) + 1 \in Unowned(more) <=> x \notin {"comment", "managed"}
  BY <1>1
<1> HIDE DEF Unowned
<1>4. Picked(more, Unowned(more)) =
        IF Len(lines) + 1 \in Unowned(more)
        THEN Append(Picked(lines, Unowned(lines)), x) ELSE Picked(lines, Unowned(lines))
  BY <1>2, PickedAppend DEF more
<1> QED
  BY <1>3, <1>4 DEF OtherEntries, Unowned, more

(* What the program keeps of fstab are at least the lines of others.       *)
LEMMA UnmanagedOthers ==
    ASSUME NEW lines \in Seq(Line)
    PROVE  /\ Unmanaged(lines) \in Seq(Line)
           /\ OtherEntries(Unmanaged(lines)) = OtherEntries(lines)
<1> DEFINE Kept == {i \in DOMAIN lines : ~IsOurs(lines, i)}
           Unowned == {i \in DOMAIN lines : lines[i] \notin {"comment", "managed"}}
           f == Prefixes(lines, Kept)
           g == Prefixes(lines, Unowned)
           T == {i \in 0..Len(lines) : OtherEntries(f[i]) = g[i]}
<1>1. /\ Len(lines) \in Nat /\ DOMAIN lines = 1..Len(lines)
      /\ \A i \in 1..Len(lines) : lines[i] \in Line
  BY LenProperties, ElementOfSeq
<1>2. /\ f[0] = <<>> /\ Unmanaged(lines) = f[Len(lines)]
      /\ \A i \in 1..Len(lines) :
           f[i] = IF i \in Kept THEN Append(f[i - 1], lines[i]) ELSE f[i - 1]
  BY PrefixesStep DEF Unmanaged
<1>3. /\ g[0] = <<>> /\ OtherEntries(lines) = g[Len(lines)]
      /\ \A i \in 1..Len(lines) :
           g[i] = IF i \in Unowned THEN Append(g[i - 1], lines[i]) ELSE g[i - 1]
  BY PrefixesStep DEF OtherEntries
<1>4. \A i \in 0..Len(lines) : f[i] \in Seq(Line)
  BY <1>1, PrefixesType
<1>5. \A i \in 1..Len(lines) : i \notin Kept => lines[i] \in {"comment", "managed"}
  BY <1>1 DEF IsOurs
<1>6. \A i \in 1..Len(lines) : i \in Unowned <=> lines[i] \notin {"comment", "managed"}
  BY <1>1
<1> HIDE DEF f, g, Kept, Unowned
<1>7. 0 \in T
  <2>1. OtherEntries(<<>>) = <<>>
    BY PickedNone DEF OtherEntries
  <2> QED
    BY <1>1, <1>2, <1>3, <2>1
<1>8. ASSUME NEW i \in 1..Len(lines), i - 1 \in T PROVE i \in T
  <2>1. i \in 0..Len(lines) /\ f[i - 1] \in Seq(Line) /\ lines[i] \in Line
    BY <1>1, <1>4, <1>8
  <2>2. OtherEntries(f[i - 1]) = g[i - 1]
    BY <1>8
  <2>3. OtherEntries(Append(f[i - 1], lines[i])) =
          IF lines[i] \in {"comment", "managed"} THEN g[i - 1] ELSE Append(g[i - 1], lines[i])
    BY <2>1, <2>2, OtherEntriesAppend
  <2>4. CASE i \in Kept
    BY <1>2, <1>3, <1>6, <2>1, <2>3, <2>4
  <2>5. CASE i \notin Kept
    BY <1>2, <1>3, <1>5, <1>6, <2>1, <2>2, <2>5
  <2> QED
    BY <2>4, <2>5
<1>9. Len(lines) \in T
  <2>1. \A i \in 1..Len(lines) : i - 1 \in T => i \in T
    BY <1>8
  <2>2. Len(lines) \in 0..Len(lines)
    BY <1>1
  <2> HIDE DEF T
  <2> QED
    BY <1>1, <1>7, <2>1, <2>2, Induction
<1> QED
  BY <1>1, <1>2, <1>3, <1>4, <1>9

LEMMA WithManagedSwapOthers ==
    ASSUME NEW lines \in Seq(Line)
    PROVE  /\ WithManagedSwap(lines) \in Fstab /\ WithManagedSwap(lines).present
           /\ OtherEntries(WithManagedSwap(lines).lines) = OtherEntries(lines)
<1> DEFINE kept == Unmanaged(lines)
           once == Append(kept, "comment")
           twice == Append(once, "managed")
<1>1. kept \in Seq(Line) /\ OtherEntries(kept) = OtherEntries(lines)
  BY UnmanagedOthers
<1>2. "comment" \in Line /\ "managed" \in Line
  BY DEF Line
<1> HIDE DEF kept
<1>3. /\ once \in Seq(Line) /\ OtherEntries(once) = OtherEntries(kept)
  BY <1>1, <1>2, AppendProperties, OtherEntriesAppend
<1> HIDE DEF once
<1>4. twice \in Seq(Line) /\ OtherEntries(twice) = OtherEntries(once)
  BY <1>2, <1>3, AppendProperties, OtherEntriesAppend
<1>5. kept \o <<"comment", "managed">> = twice
  BY <1>1, <1>2 DEF once
<1> HIDE DEF twice
<1>6. WithManagedSwap(lines) = Lines(twice)
  BY <1>5 DEF WithManagedSwap, kept
<1> QED
  BY <1>1, <1>3, <1>4, <1>6 DEF Lines, Fstab

LEMMA CountManagedZero ==
    ASSUME NEW lines \in Seq(Line)
    PROVE  /\ CountManaged(lines) \in Nat
           /\ (CountManaged(lines) > 0) <=>
                (\E i \in DOMAIN lines :
                   lines[i] = "managed" /\ Previous(lines, i) = "comment")
<1> DEFINE M == {i \in DOMAIN lines : lines[i] = "managed" /\ Previous(lines, i) = "comment"}
<1>1. M \in SUBSET (1..Len(lines)) /\ Len(lines) \in Nat
  BY LenProperties
<1>2. IsFiniteSet(M)
  BY <1>1, FS_Interval, FS_Subset
<1> HIDE DEF M
<1>3. Cardinality(M) \in Nat /\ (Cardinality(M) = 0 <=> M = {})
  BY <1>2, FS_CardinalityType, FS_EmptySet
<1> QED
  BY <1>3 DEF CountManaged, M

-----------------------------------------------------------------------------
(* The lines of chrony's file.                                             *)

LEMMA OtherLinesType ==
    ASSUME NEW lines \in Seq(ConfLine)
    PROVE  OtherLines(lines) \in Seq({"other"})
<1> DEFINE Unowned == {i \in DOMAIN lines : lines[i] = "other"}
<1>1. \A i \in 1..Len(lines) : i \in Unowned => lines[i] \in {"other"}
  OBVIOUS
<1> HIDE DEF Unowned
<1>2. Picked(lines, Unowned) \in Seq({"other"})
  BY <1>1, PickedType
<1> QED
  BY <1>2 DEF OtherLines, Unowned

LEMMA OtherLinesAppend ==
    ASSUME NEW lines \in Seq(ConfLine), NEW x \in ConfLine \ {"other"}
    PROVE  OtherLines(Append(lines, x)) = OtherLines(lines)
<1> DEFINE more == Append(lines, x)
           Unowned(l) == {i \in DOMAIN l : l[i] = "other"}
<1>1. /\ more \in Seq(ConfLine) /\ Len(more) = Len(lines) + 1 /\ Len(lines) \in Nat
      /\ \A i \in 1..Len(lines) : more[i] = lines[i]
      /\ more[Len(lines) + 1] = x
      /\ DOMAIN lines = 1..Len(lines) /\ DOMAIN more = 1..Len(more)
  BY AppendProperties, LenProperties
<1> HIDE DEF more
<1>2. \A i \in 1..Len(lines) : i \in Unowned(lines) <=> i \in Unowned(more)
  BY <1>1
<1>3. Len(lines) + 1 \notin Unowned(more)
  BY <1>1
<1> HIDE DEF Unowned
<1>4. Picked(more, Unowned(more)) =
        IF Len(lines) + 1 \in Unowned(more)
        THEN Append(Picked(lines, Unowned(lines)), x) ELSE Picked(lines, Unowned(lines))
  BY <1>2, PickedAppend DEF more
<1> QED
  BY <1>3, <1>4 DEF OtherLines, Unowned, more

LEMMA WithBlock ==
    ASSUME NEW lines \in Seq(ConfLine)
    PROVE  /\ lines \o Block \in Seq(ConfLine)
           /\ OtherLines(lines \o Block) = OtherLines(lines)
<1> DEFINE one == Append(lines, "header")
           two == Append(one, "server")
           three == Append(two, "footer")
<1>1. {"header", "server", "footer"} \subseteq ConfLine \ {"other"}
  BY DEF ConfLine
<1>2. one \in Seq(ConfLine) /\ OtherLines(one) = OtherLines(lines)
  BY <1>1, AppendProperties, OtherLinesAppend
<1> HIDE DEF one
<1>3. two \in Seq(ConfLine) /\ OtherLines(two) = OtherLines(one)
  BY <1>1, <1>2, AppendProperties, OtherLinesAppend
<1> HIDE DEF two
<1>4. three \in Seq(ConfLine) /\ OtherLines(three) = OtherLines(two)
  BY <1>1, <1>3, AppendProperties, OtherLinesAppend
<1>5. lines \o Block = three
  BY <1>1, <1>2, <1>3 DEF Block, one, two
<1> QED
  BY <1>2, <1>3, <1>4, <1>5

LEMMA BlockAlone == /\ Block \in Seq(ConfLine) /\ OtherLines(Block) = <<>>
                    /\ OneHeader(Block)
<1> DEFINE none == <<>>
<1>1. none \in Seq(ConfLine) /\ none \o Block = Block
  BY DEF Block
<1>2. OtherLines(none) = <<>>
  BY PickedNone DEF OtherLines
<1> HIDE DEF none
<1>3. {i \in DOMAIN Block : Block[i] = "header"} = {1}
  BY DEF Block
<1>4. OneHeader(Block)
  <2>1. Cardinality({1}) = 1
    BY FS_Singleton, Zenon
  <2> QED
    BY <1>3, <2>1 DEF OneHeader
<1>5. none \o Block \in Seq(ConfLine) /\ OtherLines(none \o Block) = <<>>
  BY <1>1, <1>2, WithBlock
<1> QED
  BY <1>1, <1>4, <1>5

LEMMA IndexType ==
    ASSUME NEW lines \in Seq(ConfLine), NEW l, NEW k \in DOMAIN lines, lines[k] = l
    PROVE  Index(lines, l) \in DOMAIN lines
<1> DEFINE T == {i \in DOMAIN lines : lines[i] = l}
<1>1. T \in SUBSET Nat /\ T # {} /\ DOMAIN lines = 1..Len(lines) /\ Len(lines) \in Nat
  BY LenProperties
<1>2. PICK m \in T : \A i \in T : m <= i
  <2> HIDE DEF T
  <2> QED
    BY <1>1, LeastNumber
<1>3. m \in DOMAIN lines /\ lines[m] = l /\ \A j \in 1..(m - 1) : lines[j] # l
  BY <1>1, <1>2
<1> QED
  BY <1>3 DEF Index

LEMMA MergedType == ASSUME NEW lines \in Seq(ConfLine) PROVE Merged(lines) \in Seq(ConfLine)
<1>1. CASE {"header", "footer"} \subseteq {lines[i] : i \in DOMAIN lines}
  <2> DEFINE h == Index(lines, "header")
             f == Index(lines, "footer")
             before == SubSeq(lines, 1, h - 1)
             after == SubSeq(lines, f + 1, Len(lines))
  <2>1. h \in 1..Len(lines) /\ f \in 1..Len(lines) /\ Len(lines) \in Nat
    BY <1>1, IndexType, LenProperties
  <2> HIDE DEF h, f
  <2>2. before \in Seq(ConfLine) /\ after \in Seq(ConfLine)
    BY <2>1
  <2> HIDE DEF before, after
  <2>3. before \o Block \in Seq(ConfLine)
    BY <2>2, WithBlock
  <2>4. (before \o Block) \o after \in Seq(ConfLine)
    BY <2>2, <2>3, ConcatProperties
  <2> QED
    BY <1>1, <2>4 DEF Merged, h, f, before, after
<1>2. CASE ~({"header", "footer"} \subseteq {lines[i] : i \in DOMAIN lines})
  BY <1>2, WithBlock DEF Merged
<1> QED
  BY <1>1, <1>2

(* A file that the program writes is one it finds its block in again.      *)
LEMMA MergedTidy ==
    ASSUME NEW lines \in Seq(ConfLine), Tidy(FALSE, lines)
    PROVE  Tidy(FALSE, Merged(lines)) /\ OtherLines(Merged(lines)) = OtherLines(lines)
<1>1. CASE Merged(lines) = lines
  BY <1>1
<1>2. CASE \A i \in DOMAIN lines : lines[i] \notin {"header", "footer"}
  <2> DEFINE m == lines \o Block
             n == Len(lines)
  <2>1. Merged(lines) = m /\ m \in Seq(ConfLine) /\ OtherLines(m) = OtherLines(lines)
    BY <1>2, WithBlock DEF Merged
  <2>2. /\ n \in Nat /\ Len(m) = n + 3 /\ DOMAIN lines = 1..n /\ DOMAIN m = 1..(n + 3)
        /\ \A i \in 1..n : m[i] = lines[i]
        /\ m[n + 1] = "header" /\ m[n + 2] = "server" /\ m[n + 3] = "footer"
    BY LenProperties DEF Block
  <2>3. \A i \in 1..n : m[i] \notin {"header", "footer"}
    BY <1>2, <2>2
  <2>4. SubSeq(m, 1, n) = lines /\ SubSeq(m, n + 4, n + 3) = <<>>
    BY <2>2
  <2> HIDE DEF m, n
  <2>5. Index(m, "header") = n + 1
    BY <2>2, <2>3 DEF Index
  <2>6. Index(m, "footer") = n + 3
    BY <2>2, <2>3 DEF Index
  <2>7. {"header", "footer"} \subseteq {m[i] : i \in DOMAIN m}
    BY <2>2
  <2>8. Merged(m) = (lines \o Block) \o <<>>
    <3>1. (n + 1) - 1 = n /\ (n + 3) + 1 = n + 4
      BY <2>2
    <3>2. /\ SubSeq(m, 1, Index(m, "header") - 1) = lines
          /\ SubSeq(m, Index(m, "footer") + 1, Len(m)) = <<>>
      BY <2>2, <2>4, <2>5, <2>6, <3>1
    <3> QED
      BY <2>7, <3>2, Zenon DEF Merged
  <2>9. Merged(m) = m
    BY <2>1, <2>8 DEF m
  <2>10. {i \in DOMAIN m : m[i] = "header"} = {n + 1}
    BY <2>2, <2>3
  <2>11. OneHeader(m)
    <3>1. Cardinality({n + 1}) = 1
      BY FS_Singleton, Zenon
    <3>2. Cardinality({i \in DOMAIN m : m[i] = "header"}) = 1
      BY <2>10, <3>1, Zenon
    <3> QED
      BY <3>2 DEF OneHeader
  <2> QED
    BY <2>1, <2>9, <2>11 DEF Tidy
<1> QED
  BY <1>1, <1>2 DEF Tidy

-----------------------------------------------------------------------------
(* Types.                                                                  *)

LEMMA FaultType == ASSUME TypeOK, Fault PROVE faults' \in 0..MaxFaults
BY FaultsAssumption DEF TypeOK, Fault

LEMMA Values ==
    /\ NoData \in Data /\ NoJob \in Job /\ NoFstab \in Fstab /\ NoSwapFile \in SwapFile
    /\ Lines(<<>>) \in Fstab
BY DEF NoData, Data, NoJob, Job, NoFstab, Fstab, NoSwapFile, SwapFile, Lines

LEMMA PhaseNames == Phase = {"preflight", "time_sync", "swap", "security_updates"}
<1>1. DOMAIN Order = 1..4
  BY DEF Order
<1> QED
  BY <1>1 DEF Phase, Order

RunType ==
    /\ saved \in [Phase -> [status : Status, data : Data]] /\ data \in [Phase -> Data]
    /\ phase \in Phase \cup {"none"} /\ step \in Step /\ faults \in 0..MaxFaults

LEMMA StopType ==
    ASSUME Stop
    PROVE  data' \in [Phase -> Data] /\ phase' = "none" /\ step' = "idle" /\ step' \in Step
BY Values DEF Stop, Step

LEMMA PassType ==
    ASSUME NEW p \in Phase, data \in [Phase -> Data], Pass(p)
    PROVE  /\ data' \in [Phase -> Data] /\ phase' \in Phase \cup {"none"} /\ step' \in Step
           /\ \/ phase' = "none" /\ step' = "idle"
              \/ phase' \in Phase \ {"preflight"} /\ step' = "next" /\ data' = data
           /\ p = "preflight" => phase' # "swap"
           /\ p = "swap" => phase' # "swap"
<1>1. DOMAIN Order = 1..4 /\ Len(Order) = 4
  BY DEF Order
<1>2. CASE p = "preflight"
  <2>1. (CHOOSE i \in DOMAIN Order : Order[i] = p) = 1
    BY <1>1, <1>2 DEF Order
  <2> QED
    BY <1>1, <1>2, <2>1, PhaseNames DEF Pass, Move, Order, Step
<1>3. CASE p = "time_sync"
  <2>1. (CHOOSE i \in DOMAIN Order : Order[i] = p) = 2
    BY <1>1, <1>3 DEF Order
  <2> QED
    BY <1>1, <1>3, <2>1, PhaseNames DEF Pass, Move, Order, Step
<1>4. CASE p = "swap"
  <2>1. (CHOOSE i \in DOMAIN Order : Order[i] = p) = 3
    BY <1>1, <1>4 DEF Order
  <2> QED
    BY <1>1, <1>4, <2>1, PhaseNames DEF Pass, Move, Order, Step
<1>5. CASE p = "security_updates"
  <2>1. (CHOOSE i \in DOMAIN Order : Order[i] = p) = 4
    BY <1>1, <1>5 DEF Order
  <2>2. ~(4 < Len(Order))
    BY <1>1
  <2>3. Stop
    BY <2>1, <2>2, Zenon DEF Pass
  <2> QED
    BY <1>5, <2>3, StopType
<1> QED
  BY <1>2, <1>3, <1>4, <1>5, PhaseNames

Saving(p, status) ==
    saved' \in {saved, [saved EXCEPT ![p] = [status |-> status, data |-> data[p]]]}
LEMMA SavingType ==
    ASSUME RunType, NEW p \in Phase, NEW status \in Status, Saving(p, status)
    PROVE  saved' \in [Phase -> [status : Status, data : Data]]
BY DEF RunType, Saving

LEMMA ConsiderType ==
    ASSUME RunType, NEW p \in Phase, NEW verified, NEW first \in Step,
           Consider(p, verified, first)
    PROVE  RunType'
<1>1. CASE Pass(p) /\ UNCHANGED <<saved, faults>>
  BY <1>1, PassType DEF RunType
<1>2. CASE Move(p, first) /\ UNCHANGED <<saved, faults>>
  BY <1>2 DEF RunType, Move
<1>3. CASE Record(p, "running", Move(p, first))
  <2>1. Saving(p, "running")
    BY <1>3 DEF Record, Saving
  <2>2. CASE Move(p, first) /\ UNCHANGED faults
    BY <2>1, <2>2, SavingType DEF RunType, Move, Status
  <2>3. CASE Stop /\ Fault
    BY <2>1, <2>3, SavingType, StopType, FaultsAssumption DEF RunType, Status, Fault
  <2> QED
    BY <1>3, <2>2, <2>3 DEF Record
<1> QED
  BY <1>1, <1>2, <1>3 DEF Consider

LEMMA ConcludeType ==
    ASSUME RunType, NEW p \in Phase, NEW status \in Status,
           \/ Record(p, status, Pass(p))
           \/ Record(p, status, Stop)
    PROVE  RunType'
<1>1. Saving(p, status)
  BY DEF Record, Saving
<1>2. CASE Pass(p) /\ UNCHANGED faults
  BY <1>1, <1>2, SavingType, PassType DEF RunType
<1>3. CASE Stop /\ (Fault \/ UNCHANGED faults)
  BY <1>1, <1>3, SavingType, StopType, FaultsAssumption DEF RunType, Fault
<1> QED
  BY <1>2, <1>3 DEF Record

LEMMA VerifyType ==
    ASSUME RunType, NEW p \in Phase, NEW verified, Verify(p, verified)
    PROVE  RunType'
BY ConcludeType DEF Verify, Status

LEMMA GotoType ==
    ASSUME RunType, NEW s \in Step, Goto(s), faults' \in 0..MaxFaults
    PROVE  RunType'
BY DEF RunType, Goto

TimeType == net \in Net /\ clock \in Clock /\ conf \in Seq(ConfLine)
SwapType == /\ machine \in Machine /\ swapfile \in SwapFile /\ active \subseteq Area
            /\ fstab \in Fstab /\ job \in Job /\ past \in Past

LEMMA TypeParts == TypeOK <=> RunType /\ TimeType /\ SwapType /\ policy \in Policy
BY DEF TypeOK, RunType, TimeType, SwapType

(* What a step of a phase other than swap leaves as it is.                 *)
Outside == /\ phase # "swap" /\ saved'["swap"].data = saved["swap"].data
           /\ \/ phase' = "none" /\ step' = "idle"
              \/ phase' \in Phase \ {"swap"} /\ data'["swap"] = SwapData
              \/ phase' = "swap" /\ step' = "next" /\ data'["swap"] = SwapData

LEMMA SavingOutside ==
    ASSUME RunType, NEW p \in Phase \ {"swap"}, NEW status \in Status, Saving(p, status)
    PROVE  saved'["swap"].data = saved["swap"].data
BY PhaseNames DEF RunType, Saving

LEMMA ConsiderOutside ==
    ASSUME RunType, NEW p \in Phase \ {"swap"}, NEW verified, NEW first \in Step,
           Consider(p, verified, first)
    PROVE  Outside
<1>1. phase = p
  BY DEF Consider, At
<1>2. CASE Pass(p) /\ UNCHANGED <<saved, faults>>
  BY <1>1, <1>2, PassType DEF RunType, Outside, SwapData
<1>3. CASE Move(p, first) /\ UNCHANGED <<saved, faults>>
  BY <1>1, <1>3 DEF Move, Outside, SwapData
<1>4. CASE Record(p, "running", Move(p, first))
  <2>1. saved'["swap"].data = saved["swap"].data
    <3>1. Saving(p, "running")
      BY <1>4 DEF Record, Saving
    <3> QED
      BY <3>1, SavingOutside DEF Status
  <2> QED
    BY <1>1, <1>4, <2>1 DEF Record, Move, Stop, Outside, SwapData
<1> QED
  BY <1>2, <1>3, <1>4 DEF Consider

LEMMA ConcludeOutside ==
    ASSUME RunType, NEW p \in Phase \ {"swap"}, NEW status \in Status, phase = p,
           \/ Record(p, status, Pass(p))
           \/ Record(p, status, Stop)
    PROVE  Outside
<1>1. saved'["swap"].data = saved["swap"].data
  BY SavingOutside DEF Record, Saving
<1>2. CASE Pass(p)
  BY <1>1, <1>2, PassType DEF RunType, Outside, SwapData
<1>3. CASE Stop
  BY <1>1, <1>3 DEF Stop, Outside
<1> QED
  BY <1>2, <1>3 DEF Record

LEMMA GotoOutside == ASSUME NEW s, Goto(s), phase \in Phase \ {"swap"} PROVE Outside
BY DEF Goto, Outside, SwapData

-----------------------------------------------------------------------------
(* The phases around swap.                                                 *)

LEMMA PreflightStep == ASSUME TypeOK, Preflight PROVE RunType' /\ Outside
<1>1. RunType /\ "preflight" \in Phase \ {"swap"}
  BY TypeParts, PhaseNames
<1>2. CASE ConsiderPreflight
  BY <1>1, <1>2, ConsiderType, ConsiderOutside DEF ConsiderPreflight, Step
<1>3. CASE Checks
  <2>1. PICK s \in {"verify", "failed"} : Goto(s) /\ faults' \in 0..MaxFaults
    BY <1>1, <1>3, FaultType DEF Checks, RunType
  <2>2. phase = "preflight" /\ s \in Step
    BY <1>3 DEF Checks, At, Step
  <2> QED
    BY <1>1, <2>1, <2>2, GotoType, GotoOutside
<1>4. CASE Verify("preflight", Passes)
  BY <1>1, <1>4, VerifyType, ConcludeOutside DEF Verify, At, Status
<1> QED
  BY <1>2, <1>3, <1>4 DEF Preflight

LEMMA ClockValues == ASSUME TypeOK PROVE Installed \in Clock /\ Restarted \in Clock
BY DEF TypeOK, Installed, Restarted, Clock

LEMMA TimeStep == ASSUME TypeOK, TimeProcess PROVE RunType' /\ TimeType' /\ Outside
<1>1. RunType /\ TimeType /\ "time_sync" \in Phase \ {"swap"}
  BY TypeParts, PhaseNames
<1>2. CASE ConsiderTime
  <2>1. TimeType'
    BY <1>1, <1>2 DEF ConsiderTime, TimeType, timeVars
  <2> QED
    BY <1>1, <1>2, <2>1, ConsiderType, ConsiderOutside DEF ConsiderTime, Step
<1>3. CASE VerifyTime
  <2>1. TimeType'
    BY <1>1, <1>3 DEF VerifyTime, TimeType, timeVars
  <2> QED
    BY <1>1, <1>3, <2>1, VerifyType, ConcludeOutside DEF VerifyTime, Verify, At, Status
<1>4. ASSUME NEW s \in Step, Goto(s), phase = "time_sync", TimeType',
             faults' \in 0..MaxFaults
      PROVE  RunType' /\ TimeType' /\ Outside
  BY <1>1, <1>4, GotoType, GotoOutside
<1>5. faults \in 0..MaxFaults
  BY <1>1 DEF RunType
<1>6. CASE Probe
  <2>1. TimeType' /\ phase = "time_sync"
    BY <1>1, <1>6 DEF Probe, TimeType, timeVars, At
  <2>2. PICK s \in Step : Goto(s) /\ faults' \in 0..MaxFaults
    BY <1>5, <1>6, FaultType DEF Probe, Step
  <2> QED
    BY <1>4, <2>1, <2>2
<1>7. CASE InstallChrony
  <2>1. TimeType' /\ phase = "time_sync"
    BY <1>1, <1>7, ClockValues DEF InstallChrony, TimeType, At
  <2>2. PICK s \in Step : Goto(s) /\ faults' \in 0..MaxFaults
    BY <1>5, <1>7, FaultType DEF InstallChrony, Step
  <2> QED
    BY <1>4, <2>1, <2>2
<1>8. CASE ConfigureChrony
  <2>1. Configured \in Seq(ConfLine)
    BY <1>1, MergedType, BlockAlone DEF Configured, TimeType
  <2>2. TimeType' /\ phase = "time_sync"
    BY <1>1, <1>8, <2>1 DEF ConfigureChrony, TimeType, At
  <2>3. PICK s \in Step : Goto(s) /\ faults' \in 0..MaxFaults
    BY <1>5, <1>8, FaultType DEF ConfigureChrony, Step
  <2> QED
    BY <1>4, <2>2, <2>3
<1>9. CASE RestartChrony
  <2>1. [clock EXCEPT !.services = @ \ {"chrony"}] \in Clock
    BY <1>1 DEF TimeType, Clock
  <2>2. TimeType' /\ phase = "time_sync"
    BY <1>1, <1>9, <2>1, ClockValues DEF RestartChrony, TimeType, At
  <2>3. PICK s \in Step : Goto(s) /\ faults' \in 0..MaxFaults
    BY <1>5, <1>9, FaultType DEF RestartChrony, Step
  <2> QED
    BY <1>4, <2>2, <2>3
<1>10. CASE WaitForSync
  <2>1. TimeType' /\ phase = "time_sync"
    BY <1>1, <1>10 DEF WaitForSync, TimeType, timeVars, At
  <2>2. PICK s \in Step : Goto(s) /\ faults' \in 0..MaxFaults
    BY <1>5, <1>10 DEF WaitForSync, Step
  <2> QED
    BY <1>4, <2>1, <2>2
<1> QED
  BY <1>2, <1>3, <1>6, <1>7, <1>8, <1>9, <1>10 DEF TimeProcess

LEMMA PolicyStep ==
    ASSUME TypeOK, PolicyProcess PROVE RunType' /\ policy' \in Policy /\ Outside
<1>1. RunType /\ policy \in Policy /\ "security_updates" \in Phase \ {"swap"}
  BY TypeParts, PhaseNames
<1>2. CASE ConsiderPolicy
  BY <1>1, <1>2, ConsiderType, ConsiderOutside DEF ConsiderPolicy, Step
<1>3. CASE Verify("security_updates", VerifiesPolicy(PolicyData)) /\ UNCHANGED policy
  BY <1>1, <1>3, VerifyType, ConcludeOutside DEF Verify, At, Status
<1>4. ASSUME NEW s \in Step, Goto(s), phase = "security_updates", policy' \in Policy,
             faults' \in 0..MaxFaults
      PROVE  RunType' /\ policy' \in Policy /\ Outside
  BY <1>1, <1>4, GotoType, GotoOutside
<1>5. faults \in 0..MaxFaults
  BY <1>1 DEF RunType
<1>6. CASE InstallPackage
  <2>1. policy' \in Policy /\ phase = "security_updates"
    BY <1>1, <1>6 DEF InstallPackage, At
  <2>2. PICK s \in Step : Goto(s) /\ faults' \in 0..MaxFaults
    BY <1>5, <1>6, FaultType DEF InstallPackage, Step
  <2> QED
    BY <1>4, <2>1, <2>2
<1>7. CASE WritePolicy
  <2>1. [policy EXCEPT !.written = TRUE] \in Policy
    BY <1>1 DEF Policy
  <2>2. policy' \in Policy /\ phase = "security_updates"
    BY <1>1, <1>7, <2>1 DEF WritePolicy, At
  <2>3. PICK s \in Step : Goto(s) /\ faults' \in 0..MaxFaults
    BY <1>5, <1>7, FaultType DEF WritePolicy, Step
  <2> QED
    BY <1>4, <2>2, <2>3
<1>8. CASE CheckEffective
  <2>1. policy' \in Policy /\ phase = "security_updates"
    BY <1>1, <1>8 DEF CheckEffective, At
  <2>2. CASE \E s \in {"failed"} : Goto(s) /\ faults' \in 0..MaxFaults
    BY <1>4, <2>1, <2>2 DEF Step
  <2>3. CASE /\ step' = "verify"
             /\ data' = [data EXCEPT !["security_updates"].mode = "managed"]
             /\ UNCHANGED <<saved, phase, faults>>
    <3>1. data' \in [Phase -> Data]
      BY <1>1, <2>3 DEF RunType, Data
    <3>2. data'["swap"] = data["swap"]
      BY <1>1, <2>3, PhaseNames DEF RunType
    <3> QED
      BY <1>1, <2>1, <2>3, <3>1, <3>2 DEF RunType, Outside, SwapData, Step
  <2> QED
    BY <1>5, <1>8, <2>2, <2>3, FaultType DEF CheckEffective
<1> QED
  BY <1>2, <1>3, <1>6, <1>7, <1>8 DEF PolicyProcess

-----------------------------------------------------------------------------
(* Outside swap what is known of it stays known.                           *)
LEMMA OutsideKept ==
    ASSUME TypeOK, BaseInv, Outside, UNCHANGED swapVars, phase # "none"
    PROVE  BaseInv'
<1> USE DEF BaseInv, Outside, swapVars, In
<1>1. job = NoJob
  BY DEF JobKnown
<1>2. Absent' /\ FstabNamesSwap' /\ ReserveKept'
  BY DEF Absent, FstabNamesSwap, ReserveKept, Free
<1>3. JobKnown'
  BY <1>1, PhaseNames DEF JobKnown, Making, Undoing
<1>4. DataKnown'
  BY DEF DataKnown, SwapData, Repairs
<1>5. ManagedIsSwap'
  BY DEF ManagedIsSwap, DataKnown, SwapData, Making, Undoing
<1>6. BackupSound'
  BY DEF BackupSound, Making, Undoing
<1>7. OrphanKnown'
  BY DEF OrphanKnown, Making, Undoing
<1> QED
  BY <1>2, <1>3, <1>4, <1>5, <1>6, <1>7

-----------------------------------------------------------------------------
(* The types of the swap phase.                                            *)

LEMMA DataType ==
    ASSUME RunType, NEW d \in Data, NEW s \in Step, Set(s, d), faults' \in 0..MaxFaults
    PROVE  RunType'
BY PhaseNames DEF RunType, Set, SetSwapData

LEMMA FreeType == ASSUME TypeOK, Absent PROVE Free \in Nat
BY DEF TypeOK, Absent, Free, Machine, SwapFile

LEMMA ConsiderSwapType ==
    ASSUME TypeOK, ConsiderSwap \/ KeepExisting \/ Discover \/ Decline, Absent
    PROVE  RunType' /\ SwapType'
<1>1. RunType /\ SwapType /\ "swap" \in Phase /\ faults \in 0..MaxFaults
  BY TypeParts, PhaseNames DEF RunType
<1>2. CASE ConsiderSwap
  BY <1>1, <1>2, ConsiderType DEF ConsiderSwap, Step, SwapType, swapVars
<1>3. CASE KeepExisting
  <2>1. SwapType' /\ faults' \in 0..MaxFaults
    BY <1>1, <1>3 DEF KeepExisting, SwapType, swapVars
  <2>2. CASE Goto("verify")
    BY <1>1, <2>1, <2>2, GotoType DEF Step
  <2>3. CASE Set("verify", [mode |-> "existing", areas |-> active, size |-> 0])
    <3>1. [mode |-> "existing", areas |-> active, size |-> 0] \in Data
      BY <1>1 DEF SwapType, Data
    <3> QED
      BY <1>1, <2>1, <2>3, <3>1, DataType DEF Step
  <2> QED
    BY <1>3, <2>2, <2>3 DEF KeepExisting
<1>4. CASE Discover
  <2>1. job' \in Job
    BY <1>1, <1>4, FreeType DEF Discover, SwapType, Job
  <2> QED
    BY <1>1, <1>4, <2>1, GotoType DEF Discover, SwapType, Step
<1>5. CASE Decline
  <2>1. [NoData EXCEPT !.mode = "skipped"] \in Data
    BY DEF NoData, Data
  <2> QED
    BY <1>1, <1>5, <2>1, DataType DEF Decline, SwapType, swapVars, Step
<1> QED
  BY <1>2, <1>3, <1>4, <1>5

LEMMA SizeType == ASSUME TypeOK PROVE Recommended \in Nat /\ Sizes \subseteq Nat
BY SizesAssumption DEF Recommended, GIB

LEMMA AskType == ASSUME TypeOK, Ask PROVE RunType' /\ SwapType'
<1>1. RunType /\ SwapType /\ faults \in 0..MaxFaults
  BY TypeParts DEF RunType
<1>2. job' \in Job
  BY <1>1, SizeType DEF Ask, SwapType, Job
<1>3. PICK s \in Step : Goto(s) /\ faults' \in 0..MaxFaults
  BY <1>1 DEF Ask, Step
<1> QED
  BY <1>1, <1>2, <1>3, GotoType DEF Ask, SwapType

LEMMA SwapFileType ==
    ASSUME TypeOK
    PROVE  /\ Partial \subseteq SwapFile /\ NoSwapFile \in SwapFile
           /\ NewFile(job.size) \in SwapFile
           /\ [swapfile EXCEPT !.private = TRUE] \in SwapFile
           /\ [swapfile EXCEPT !.formatted = TRUE] \in SwapFile
<1>1. swapfile \in SwapFile /\ job.size \in Nat
  BY DEF TypeOK, Job
<1>2. \A size \in Nat : NewFile(size) \in SwapFile
  BY DEF NewFile, SwapFile
<1>3. Partial \subseteq SwapFile
  BY <1>1, <1>2 DEF Partial
<1>4. /\ [swapfile EXCEPT !.private = TRUE] \in SwapFile
      /\ [swapfile EXCEPT !.formatted = TRUE] \in SwapFile
  BY <1>1 DEF SwapFile
<1> QED
  BY <1>1, <1>2, <1>3, <1>4, Values

LEMMA FstabType ==
    ASSUME TypeOK
    PROVE  /\ WithManagedSwap(fstab.lines) \in Fstab /\ Copied \in Fstab
           /\ Halfway \subseteq Fstab
<1>1. fstab.lines \in Seq(Line) /\ fstab \in Fstab /\ job.backup \in Fstab
  BY DEF TypeOK, Fstab, Job
<1> QED
  BY <1>1, WithManagedSwapOthers, Values DEF Copied, Halfway

LEMMA FilesType ==
    ASSUME TypeOK, \/ Apply \/ Create \/ Chmod \/ UnlinkSwapFile \/ RestoreFstab
                   \/ Recreate \/ RepairMode \/ EnsureEntry \/ RefuseRepair
                   \/ WriteFstab("write", "swapon") \/ WriteFstab("rewrite", AfterEntry)
                   \/ MkSwap("mkswap", "write", "restore")
                   \/ MkSwap("remkswap", "reswapon", "failed")
    PROVE  RunType' /\ SwapType'
<1>1. RunType /\ SwapType /\ faults \in 0..MaxFaults
  BY TypeParts DEF RunType
<1>2. AfterEntry \in Step /\ {"write", "swapon", "restore", "failed", "reswapon", "create",
                              "chmod", "mkswap", "unlink", "entry", "apply", "rewrite"}
                             \subseteq Step
  BY DEF AfterEntry, Step
<1>3. ASSUME NEW s \in Step, Goto(s), faults' \in 0..MaxFaults, SwapType'
      PROVE  RunType' /\ SwapType'
  BY <1>1, <1>3, GotoType
<1>4. CASE Apply
  <2>1. PICK s \in Step : Goto(s) /\ faults' \in 0..MaxFaults
    BY <1>1, <1>2, <1>4, FaultType DEF Apply
  <2>2. job' \in Job
    BY <1>1, <1>4 DEF Apply, SwapType, Job
  <2> QED
    BY <1>1, <1>3, <1>4, <2>1, <2>2 DEF Apply, SwapType
<1>5. CASE Create
  <2>1. PICK s \in Step : Goto(s) /\ faults' \in 0..MaxFaults
    BY <1>1, <1>2, <1>5, FaultType DEF Create
  <2>2. job' \in Job
    BY <1>1, <1>5 DEF Create, SwapType, Job
  <2>3. swapfile' \in SwapFile
    BY <1>1, <1>5, SwapFileType DEF Create, SwapType
  <2> QED
    BY <1>1, <1>3, <1>5, <2>1, <2>2, <2>3 DEF Create, SwapType
<1>6. CASE Chmod
  <2>1. PICK s \in Step : Goto(s) /\ faults' \in 0..MaxFaults
    BY <1>1, <1>2, <1>6, FaultType DEF Chmod
  <2>2. swapfile' \in SwapFile
    BY <1>1, <1>6, SwapFileType DEF Chmod, SwapType
  <2> QED
    BY <1>1, <1>3, <1>6, <2>1, <2>2 DEF Chmod, SwapType
<1>7. CASE UnlinkSwapFile
  <2>1. PICK s \in Step : Goto(s) /\ faults' \in 0..MaxFaults
    BY <1>1, <1>2, <1>7, FaultType DEF UnlinkSwapFile
  <2>2. swapfile' \in SwapFile /\ past' \in Past
    BY <1>1, <1>7, SwapFileType DEF UnlinkSwapFile, SwapType, Past
  <2> QED
    BY <1>1, <1>3, <1>7, <2>1, <2>2 DEF UnlinkSwapFile, SwapType
<1>8. CASE RestoreFstab
  <2>1. PICK s \in Step : Goto(s) /\ faults' \in 0..MaxFaults
    BY <1>1, <1>2, <1>8, FaultType DEF RestoreFstab
  <2>2. fstab' \in Fstab /\ past' \in Past
    BY <1>1, <1>8, FstabType DEF RestoreFstab, SwapType, Past
  <2> QED
    BY <1>1, <1>3, <1>8, <2>1, <2>2 DEF RestoreFstab, SwapType
<1>9. CASE Recreate
  <2>1. SwapData.size \in Nat
    BY <1>1, PhaseNames DEF RunType, SwapData, Data
  <2>2. job' \in Job
    BY <1>1, <1>9, <2>1 DEF Recreate, SwapType, Job
  <2> QED
    BY <1>1, <1>2, <1>3, <1>9, <2>2 DEF Recreate, SwapType
<1>10. CASE RepairMode
  <2>1. PICK s \in Step : Goto(s) /\ faults' \in 0..MaxFaults
    BY <1>1, <1>2, <1>10, FaultType DEF RepairMode
  <2>2. swapfile' \in SwapFile
    BY <1>1, <1>10, SwapFileType DEF RepairMode, SwapType
  <2> QED
    BY <1>1, <1>3, <1>10, <2>1, <2>2 DEF RepairMode, SwapType
<1>11. CASE EnsureEntry
  <2>1. PICK s \in Step : Goto(s) /\ faults' \in 0..MaxFaults
    BY <1>1, <1>2, <1>11, FaultType DEF EnsureEntry
  <2>2. job' \in Job
    BY <1>1, <1>11 DEF EnsureEntry, SwapType, Job
  <2> QED
    BY <1>1, <1>3, <1>11, <2>1, <2>2 DEF EnsureEntry, SwapType
<1>12. CASE RefuseRepair
  BY <1>1, <1>2, <1>3, <1>12 DEF RefuseRepair, SwapType, swapVars
<1>13. ASSUME NEW from, NEW to \in Step, WriteFstab(from, to)
       PROVE  RunType' /\ SwapType'
  <2>1. PICK s \in Step : Goto(s) /\ faults' \in 0..MaxFaults
    BY <1>1, <1>2, <1>13, FaultType DEF WriteFstab
  <2>2. fstab' \in Fstab
    BY <1>1, <1>13, FstabType DEF WriteFstab, SwapType
  <2> QED
    BY <1>1, <1>3, <1>13, <2>1, <2>2 DEF WriteFstab, SwapType
<1>14. ASSUME NEW from, NEW to \in Step, NEW onFailure \in Step, MkSwap(from, to, onFailure)
       PROVE  RunType' /\ SwapType'
  <2>1. PICK s \in Step : Goto(s) /\ faults' \in 0..MaxFaults
    BY <1>1, <1>14, FaultType DEF MkSwap
  <2>2. swapfile' \in SwapFile
    BY <1>1, <1>14, SwapFileType DEF MkSwap, SwapType
  <2> QED
    BY <1>1, <1>3, <1>14, <2>1, <2>2 DEF MkSwap, SwapType
<1> QED
  BY <1>2, <1>4, <1>5, <1>6, <1>7, <1>8, <1>9, <1>10, <1>11, <1>12, <1>13, <1>14

LEMMA SwapOnType ==
    ASSUME TypeOK, NEW from, NEW d \in Data, NEW onFailure \in Step,
           SwapOn(from, d, onFailure)
    PROVE  RunType' /\ SwapType'
<1>1. RunType /\ SwapType /\ faults \in 0..MaxFaults /\ "verify" \in Step
  BY TypeParts DEF RunType, Step
<1>2. SwapType'
  BY <1>1 DEF SwapOn, SwapType, Area
<1>3. CASE Set("verify", d) /\ UNCHANGED faults
  BY <1>1, <1>2, <1>3, DataType
<1>4. CASE Goto(onFailure) /\ Fault
  BY <1>1, <1>2, <1>4, GotoType, FaultType
<1> QED
  BY <1>3, <1>4 DEF SwapOn

LEMMA VerifySwapType == ASSUME TypeOK, VerifySwap PROVE RunType' /\ SwapType'
<1>1. RunType /\ SwapType /\ "swap" \in Phase
  BY TypeParts, PhaseNames
<1>2. past' \in Past
  BY <1>1 DEF VerifySwap, SwapType, Past
<1> QED
  BY <1>1, <1>2, Values, VerifyType DEF VerifySwap, SwapType

LEMMA SwapStepType == ASSUME TypeOK, Absent, SwapProcess PROVE RunType' /\ SwapType'
<1>1. ManagedData(job.size) \in Data /\ SwapData \in Data
  BY PhaseNames DEF TypeOK, ManagedData, Data, Job, SwapData
<1>2. CASE SwapOn("swapon", ManagedData(job.size), "restore")
  BY <1>1, <1>2, SwapOnType DEF Step
<1>3. CASE SwapOn("reswapon", SwapData, "failed")
  BY <1>1, <1>3, SwapOnType DEF Step
<1> QED
  BY <1>2, <1>3, ConsiderSwapType, AskType, FilesType, VerifySwapType
  DEF SwapProcess, Creation, Repair

-----------------------------------------------------------------------------
(* What each step of the swap phase leaves known.                          *)

LEMMA DiscoverKept == ASSUME TypeOK, BaseInv, Discover PROVE BaseInv'
<1> USE DEF In, Making, Undoing, Repairs, IsManaged, SwapData, At, Goto, Discover
<1>1. job \in Job /\ swapfile \in SwapFile /\ machine \in Machine /\ past \in Past
  BY DEF TypeOK
<1>2. Absent'
  BY <1>1 DEF BaseInv, Absent, Free, Job, SwapFile, Past
<1>3. JobKnown'
  BY <1>1 DEF BaseInv, JobKnown, Free, ValidSize, NoJob, Job, SwapFile, Past
<1>4. DataKnown'
  BY <1>1 DEF BaseInv, DataKnown, SizeFits, Apart, Job, SwapFile, Past
<1>5. ManagedIsSwap'
  BY <1>1 DEF BaseInv, ManagedIsSwap, Job, SwapFile, Past
<1>6. BackupSound'
  BY <1>1 DEF BaseInv, BackupSound, Job, SwapFile, Past
<1>7. OrphanKnown'
  BY <1>1 DEF BaseInv, OrphanKnown, Job, SwapFile, Past
<1>8. FstabNamesSwap'
  BY <1>1 DEF BaseInv, FstabNamesSwap, Job, SwapFile, Past
<1>9. ReserveKept'
  BY <1>1 DEF BaseInv, ReserveKept, Free, MinFreeAfterSwap, GIB, Job, SwapFile, Past
<1> QED
  BY <1>2, <1>3, <1>4, <1>5, <1>6, <1>7, <1>8, <1>9 DEF BaseInv

LEMMA AskKept == ASSUME TypeOK, BaseInv, Ask PROVE BaseInv'
<1> USE DEF In, Making, Undoing, Repairs, IsManaged, SwapData, At, Goto, Ask
<1>1. job \in Job /\ swapfile \in SwapFile /\ machine \in Machine /\ past \in Past
  BY DEF TypeOK
<1>2. Absent'
  BY <1>1 DEF BaseInv, Absent, Free, Job, SwapFile, Past
<1>3. JobKnown'
  BY <1>1 DEF BaseInv, JobKnown, Free, ValidSize, NoJob, Job, SwapFile, Past
<1>4. DataKnown'
  BY <1>1 DEF BaseInv, DataKnown, SizeFits, Apart, Job, SwapFile, Past
<1>5. ManagedIsSwap'
  BY <1>1 DEF BaseInv, ManagedIsSwap, Job, SwapFile, Past
<1>6. BackupSound'
  BY <1>1 DEF BaseInv, BackupSound, Job, SwapFile, Past
<1>7. OrphanKnown'
  BY <1>1 DEF BaseInv, OrphanKnown, Job, SwapFile, Past
<1>8. FstabNamesSwap'
  BY <1>1 DEF BaseInv, FstabNamesSwap, Job, SwapFile, Past
<1>9. ReserveKept'
  BY <1>1 DEF BaseInv, ReserveKept, Free, MinFreeAfterSwap, GIB, Job, SwapFile, Past
<1> QED
  BY <1>2, <1>3, <1>4, <1>5, <1>6, <1>7, <1>8, <1>9 DEF BaseInv

LEMMA ApplyKept == ASSUME TypeOK, BaseInv, Apply PROVE BaseInv'
<1> USE DEF In, Making, Undoing, Repairs, IsManaged, SwapData, At, Goto, Apply, Fault
<1>1. job \in Job /\ swapfile \in SwapFile /\ machine \in Machine /\ past \in Past
  BY DEF TypeOK
<1>2. Absent'
  BY <1>1 DEF BaseInv, Absent, Free, Job, SwapFile, Past
<1>3. JobKnown'
  BY <1>1 DEF BaseInv, JobKnown, Free, ValidSize, NoJob, Job, SwapFile, Past
<1>4. DataKnown'
  BY <1>1 DEF BaseInv, DataKnown, SizeFits, Apart, Job, SwapFile, Past
<1>5. ManagedIsSwap'
  BY <1>1 DEF BaseInv, ManagedIsSwap, Job, SwapFile, Past
<1>6. BackupSound'
  BY <1>1 DEF BaseInv, BackupSound, Job, SwapFile, Past, FstabNamesSwap, JobKnown
<1>7. OrphanKnown'
  BY <1>1 DEF BaseInv, OrphanKnown, Job, SwapFile, Past
<1>8. FstabNamesSwap'
  BY <1>1 DEF BaseInv, FstabNamesSwap, Job, SwapFile, Past
<1>9. ReserveKept'
  BY <1>1 DEF BaseInv, ReserveKept, Free, MinFreeAfterSwap, GIB, Job, SwapFile, Past
<1> QED
  BY <1>2, <1>3, <1>4, <1>5, <1>6, <1>7, <1>8, <1>9 DEF BaseInv

LEMMA ChmodKept == ASSUME TypeOK, BaseInv, Chmod PROVE BaseInv'
<1> USE DEF In, Making, Undoing, Repairs, IsManaged, SwapData, At, Goto, Chmod, Fault
<1>1. job \in Job /\ swapfile \in SwapFile /\ machine \in Machine /\ past \in Past
  BY DEF TypeOK
<1>2. Absent'
  BY <1>1 DEF BaseInv, Absent, Free, Job, SwapFile, Past, JobKnown, NoSwapFile
<1>3. JobKnown'
  BY <1>1 DEF BaseInv, JobKnown, Free, ValidSize, NoJob, Job, SwapFile, Past
<1>4. DataKnown'
  BY <1>1 DEF BaseInv, DataKnown, SizeFits, Apart, Job, SwapFile, Past
<1>5. ManagedIsSwap'
  BY <1>1 DEF BaseInv, ManagedIsSwap, Job, SwapFile, Past
<1>6. BackupSound'
  BY <1>1 DEF BaseInv, BackupSound, Job, SwapFile, Past
<1>7. OrphanKnown'
  BY <1>1 DEF BaseInv, OrphanKnown, Job, SwapFile, Past
<1>8. FstabNamesSwap'
  BY <1>1 DEF BaseInv, FstabNamesSwap, Job, SwapFile, Past
<1>9. ReserveKept'
  BY <1>1 DEF BaseInv, ReserveKept, Free, MinFreeAfterSwap, GIB, Job, SwapFile, Past
<1> QED
  BY <1>2, <1>3, <1>4, <1>5, <1>6, <1>7, <1>8, <1>9 DEF BaseInv

LEMMA RefuseKept == ASSUME TypeOK, BaseInv, RefuseRepair PROVE BaseInv'
<1> USE DEF In, Making, Undoing, Repairs, IsManaged, SwapData, At, Goto, RefuseRepair, swapVars, Repairing
<1>1. job \in Job /\ swapfile \in SwapFile /\ machine \in Machine /\ past \in Past
  BY DEF TypeOK
<1>2. UNCHANGED <<saved, data, phase, machine, swapfile, active, fstab, job, past>> /\ step = "discover" /\ step' = "failed" /\ phase = "swap"
  OBVIOUS
<1>3. Absent'
  BY <1>1, <1>2 DEF BaseInv, Absent, Free, Job, SwapFile, Past
<1>4. JobKnown'
  BY <1>1, <1>2 DEF BaseInv, JobKnown, Free, ValidSize, NoJob, Job, SwapFile, Past
<1>5. DataKnown'
  BY <1>1, <1>2 DEF BaseInv, DataKnown, SizeFits, Apart, Job, SwapFile, Past
<1>6. ManagedIsSwap'
  BY <1>1, <1>2 DEF BaseInv, ManagedIsSwap, Job, SwapFile, Past
<1>7. BackupSound'
  BY <1>1, <1>2 DEF BaseInv, BackupSound, Job, SwapFile, Past
<1>8. OrphanKnown'
  BY <1>1, <1>2 DEF BaseInv, OrphanKnown, Job, SwapFile, Past
<1>9. FstabNamesSwap'
  BY <1>1, <1>2 DEF BaseInv, FstabNamesSwap, Job, SwapFile, Past
<1>10. ReserveKept'
  BY <1>1, <1>2 DEF BaseInv, ReserveKept, Free, MinFreeAfterSwap, GIB, Job, SwapFile, Past
<1> QED
  BY <1>3, <1>4, <1>5, <1>6, <1>7, <1>8, <1>9, <1>10 DEF BaseInv

LEMMA ModeKept == ASSUME TypeOK, BaseInv, RepairMode PROVE BaseInv'
<1> USE DEF In, Making, Undoing, Repairs, IsManaged, SwapData, At, Goto, RepairMode, RepairBlocked, Repairing, Fault
<1>1. job \in Job /\ swapfile \in SwapFile /\ machine \in Machine /\ past \in Past
  BY DEF TypeOK
<1>2. Absent'
  BY <1>1 DEF BaseInv, Absent, Free, Job, SwapFile, Past
<1>3. JobKnown'
  BY <1>1 DEF BaseInv, JobKnown, Free, ValidSize, NoJob, Job, SwapFile, Past
<1>4. DataKnown'
  BY <1>1 DEF BaseInv, DataKnown, SizeFits, Apart, Job, SwapFile, Past
<1>5. ManagedIsSwap'
  BY <1>1 DEF BaseInv, ManagedIsSwap, Job, SwapFile, Past
<1>6. BackupSound'
  BY <1>1 DEF BaseInv, BackupSound, Job, SwapFile, Past
<1>7. OrphanKnown'
  BY <1>1 DEF BaseInv, OrphanKnown, Job, SwapFile, Past
<1>8. FstabNamesSwap'
  BY <1>1 DEF BaseInv, FstabNamesSwap, Job, SwapFile, Past
<1>9. ReserveKept'
  BY <1>1 DEF BaseInv, ReserveKept, Free, MinFreeAfterSwap, GIB, Job, SwapFile, Past
<1> QED
  BY <1>2, <1>3, <1>4, <1>5, <1>6, <1>7, <1>8, <1>9 DEF BaseInv

LEMMA RecreateKept == ASSUME TypeOK, BaseInv, Recreate PROVE BaseInv'
<1> USE DEF In, Making, Undoing, Repairs, IsManaged, SwapData, At, Goto, Recreate, Repairing
<1>1. job \in Job /\ swapfile \in SwapFile /\ machine \in Machine /\ past \in Past
  BY DEF TypeOK
<1>2. Absent'
  BY <1>1 DEF BaseInv, Absent, Free, Job, SwapFile, Past
<1>3. JobKnown'
  BY <1>1 DEF BaseInv, JobKnown, Free, ValidSize, NoJob, Job, SwapFile, Past
<1>4. DataKnown'
  BY <1>1 DEF BaseInv, DataKnown, SizeFits, Apart, Job, SwapFile, Past
<1>5. ManagedIsSwap'
  BY <1>1 DEF BaseInv, ManagedIsSwap, Job, SwapFile, Past
<1>6. BackupSound'
  BY <1>1 DEF BaseInv, BackupSound, Job, SwapFile, Past
<1>7. OrphanKnown'
  BY <1>1 DEF BaseInv, OrphanKnown, Job, SwapFile, Past
<1>8. FstabNamesSwap'
  BY <1>1 DEF BaseInv, FstabNamesSwap, Job, SwapFile, Past
<1>9. ReserveKept'
  BY <1>1 DEF BaseInv, ReserveKept, Free, MinFreeAfterSwap, GIB, Job, SwapFile, Past
<1> QED
  BY <1>2, <1>3, <1>4, <1>5, <1>6, <1>7, <1>8, <1>9 DEF BaseInv

LEMMA EntryKept == ASSUME TypeOK, BaseInv, EnsureEntry PROVE BaseInv'
<1> USE DEF In, Making, Undoing, Repairs, IsManaged, SwapData, At, Goto, EnsureEntry, AfterEntry, Fault
<1>1. job \in Job /\ swapfile \in SwapFile /\ machine \in Machine /\ past \in Past
  BY DEF TypeOK
<1>2. Absent'
  BY <1>1 DEF BaseInv, Absent, Free, Job, SwapFile, Past
<1>3. JobKnown'
  BY <1>1 DEF BaseInv, JobKnown, Free, ValidSize, NoJob, Job, SwapFile, Past
<1>4. DataKnown'
  BY <1>1 DEF BaseInv, DataKnown, SizeFits, Apart, Job, SwapFile, Past
<1>5. ManagedIsSwap'
  BY <1>1 DEF BaseInv, ManagedIsSwap, Job, SwapFile, Past
<1>6. BackupSound'
  BY <1>1 DEF BaseInv, BackupSound, Job, SwapFile, Past, FstabNamesSwap, JobKnown
<1>7. OrphanKnown'
  BY <1>1 DEF BaseInv, OrphanKnown, Job, SwapFile, Past
<1>8. FstabNamesSwap'
  BY <1>1 DEF BaseInv, FstabNamesSwap, Job, SwapFile, Past
<1>9. ReserveKept'
  BY <1>1 DEF BaseInv, ReserveKept, Free, MinFreeAfterSwap, GIB, Job, SwapFile, Past
<1> QED
  BY <1>2, <1>3, <1>4, <1>5, <1>6, <1>7, <1>8, <1>9 DEF BaseInv

LEMMA KeepExistingKept == ASSUME TypeOK, BaseInv, KeepExisting PROVE BaseInv'
<1> USE DEF In, Making, Undoing, Repairs, IsManaged, SwapData, At, Goto, KeepExisting
<1>1. job \in Job /\ swapfile \in SwapFile /\ machine \in Machine /\ past \in Past
  BY DEF TypeOK
<1>2. UNCHANGED <<saved, phase, machine, swapfile, active, fstab, job, past>>
  BY DEF Goto, Set, swapVars
<1>3. phase = "swap" /\ step = "discover" /\ step' = "verify"
  BY DEF Goto, Set
<1>4. data'["swap"] = data["swap"] \/ (data'["swap"].mode = "existing" /\ data["swap"].mode # "managed")
  BY PhaseNames DEF TypeOK, Set, SetSwapData
<1> HIDE DEF KeepExisting
<1>5. Absent'
  BY <1>1, <1>2, <1>3, <1>4 DEF BaseInv, Absent, Free, Job, SwapFile, Past
<1>6. JobKnown'
  BY <1>1, <1>2, <1>3, <1>4 DEF BaseInv, JobKnown, Free, ValidSize, NoJob, Job, SwapFile, Past
<1>7. DataKnown'
  BY <1>1, <1>2, <1>3, <1>4 DEF BaseInv, DataKnown, SizeFits, Apart, Job, SwapFile, Past
<1>8. ManagedIsSwap'
  BY <1>1, <1>2, <1>3, <1>4 DEF BaseInv, ManagedIsSwap, Job, SwapFile, Past
<1>9. BackupSound'
  BY <1>1, <1>2, <1>3, <1>4 DEF BaseInv, BackupSound, Job, SwapFile, Past
<1>10. OrphanKnown'
  BY <1>1, <1>2, <1>3, <1>4 DEF BaseInv, OrphanKnown, Job, SwapFile, Past
<1>11. FstabNamesSwap'
  BY <1>1, <1>2, <1>3, <1>4 DEF BaseInv, FstabNamesSwap, Job, SwapFile, Past
<1>12. ReserveKept'
  BY <1>1, <1>2, <1>3, <1>4 DEF BaseInv, ReserveKept, Free, MinFreeAfterSwap, GIB, Job, SwapFile, Past
<1> QED
  BY <1>5, <1>6, <1>7, <1>8, <1>9, <1>10, <1>11, <1>12 DEF BaseInv

LEMMA DeclineKept == ASSUME TypeOK, BaseInv, Decline PROVE BaseInv'
<1> USE DEF In, Making, Undoing, Repairs, IsManaged, SwapData, At, Goto, Decline
<1>1. job \in Job /\ swapfile \in SwapFile /\ machine \in Machine /\ past \in Past
  BY DEF TypeOK
<1>2. UNCHANGED <<saved, phase, machine, swapfile, active, fstab, job, past>>
  BY DEF Set, swapVars
<1>3. phase = "swap" /\ step = "ask" /\ step' = "skipped"
  BY DEF Set
<1>4. data'["swap"].mode = "skipped"
  BY PhaseNames DEF TypeOK, Set, SetSwapData, NoData
<1> HIDE DEF Decline
<1>5. Absent'
  BY <1>1, <1>2, <1>3, <1>4 DEF BaseInv, Absent, Free, Job, SwapFile, Past
<1>6. JobKnown'
  BY <1>1, <1>2, <1>3, <1>4 DEF BaseInv, JobKnown, Free, ValidSize, NoJob, Job, SwapFile, Past
<1>7. DataKnown'
  BY <1>1, <1>2, <1>3, <1>4 DEF BaseInv, DataKnown, SizeFits, Apart, Job, SwapFile, Past
<1>8. ManagedIsSwap'
  BY <1>1, <1>2, <1>3, <1>4 DEF BaseInv, ManagedIsSwap, Job, SwapFile, Past
<1>9. BackupSound'
  BY <1>1, <1>2, <1>3, <1>4 DEF BaseInv, BackupSound, Job, SwapFile, Past
<1>10. OrphanKnown'
  BY <1>1, <1>2, <1>3, <1>4 DEF BaseInv, OrphanKnown, Job, SwapFile, Past
<1>11. FstabNamesSwap'
  BY <1>1, <1>2, <1>3, <1>4 DEF BaseInv, FstabNamesSwap, Job, SwapFile, Past
<1>12. ReserveKept'
  BY <1>1, <1>2, <1>3, <1>4 DEF BaseInv, ReserveKept, Free, MinFreeAfterSwap, GIB, Job, SwapFile, Past
<1> QED
  BY <1>5, <1>6, <1>7, <1>8, <1>9, <1>10, <1>11, <1>12 DEF BaseInv

(* The file it makes fits, and keeps the reserve.                          *)
LEMMA CreateKept == ASSUME TypeOK, BaseInv, Create PROVE BaseInv'
<1> USE DEF In, Making, Undoing, Repairs, IsManaged, SwapData
<1>1. /\ job \in Job /\ swapfile \in SwapFile /\ machine \in Machine /\ past \in Past
      /\ machine.disk \in Nat
  BY DEF TypeOK, Machine
<1>2. /\ phase = "swap" /\ step = "create" /\ ~job.created /\ ValidSize(job.size, Free)
      /\ SwapData = saved["swap"].data
  BY DEF Create, At, BaseInv, JobKnown, DataKnown
<1>3. /\ UNCHANGED <<saved, data, phase, machine, active, fstab, past>>
      /\ job'.backup = job.backup /\ step' \in {"chmod", "restore"}
  BY <1>1 DEF Create, Goto, Job
<1>4. \/ UNCHANGED <<swapfile, job>> /\ step' = "restore"
      \/ /\ swapfile = NoSwapFile /\ job'.created /\ UNCHANGED swapfile
         /\ step' = "restore"
      \/ /\ swapfile = NoSwapFile /\ job'.created
         /\ \E size \in {0, job.size} : swapfile' = NewFile(size)
  <2>1. swapfile.kind = "none" => swapfile = NoSwapFile
    BY DEF BaseInv, Absent
  <2>2. swapfile.kind = "none" => job' = [job EXCEPT !.created = TRUE]
    BY DEF Create
  <2>3. [job EXCEPT !.created = TRUE].created
    BY <1>1 DEF Job
  <2> QED
    BY <2>1, <2>2, <2>3, Zenon DEF Create, Partial, Goto
<1>5. ASSUME NEW size \in {0, job.size}, swapfile' = NewFile(size), swapfile = NoSwapFile
      PROVE  /\ swapfile'.kind = "file" /\ swapfile'.ours /\ ~swapfile'.formatted
             /\ swapfile'.size \in Nat /\ swapfile'.size + 1024 <= machine.disk
  BY <1>1, <1>2, <1>5 DEF NewFile, NoSwapFile, ValidSize, Free, MinFreeAfterSwap, GIB, Job
<1>6. \/ UNCHANGED <<swapfile, job>> /\ step' = "restore"
      \/ /\ swapfile = NoSwapFile /\ job'.created /\ UNCHANGED swapfile
         /\ step' = "restore"
      \/ /\ swapfile = NoSwapFile /\ job'.created
         /\ swapfile'.kind = "file" /\ swapfile'.ours /\ ~swapfile'.formatted
         /\ swapfile'.size \in Nat /\ swapfile'.size + 1024 <= machine.disk
  BY <1>4, <1>5
<1>7. ~NoSwapFile.formatted /\ ~NoSwapFile.ours /\ NoSwapFile.kind = "none"
  BY DEF NoSwapFile
<1>8. Absent'
  BY <1>1, <1>3, <1>6 DEF BaseInv, Absent
<1>9. JobKnown'
  BY <1>2, <1>3, <1>6, <1>7 DEF JobKnown
<1>10. DataKnown'
  BY <1>2, <1>3 DEF BaseInv, DataKnown
<1>11. ManagedIsSwap'
  BY <1>2, <1>3, <1>6, <1>7 DEF BaseInv, ManagedIsSwap
<1>12. BackupSound'
  BY <1>2, <1>3, <1>6, <1>7 DEF BaseInv, BackupSound
<1>13. OrphanKnown'
  BY <1>2, <1>3, <1>6, <1>7 DEF BaseInv, OrphanKnown
<1>14. FstabNamesSwap'
  BY <1>3, <1>6, <1>7 DEF BaseInv, FstabNamesSwap
<1>15. ReserveKept'
  BY <1>1, <1>3, <1>6, <1>7 DEF BaseInv, ReserveKept, Free, MinFreeAfterSwap, GIB
<1> QED
  BY <1>8, <1>9, <1>10, <1>11, <1>12, <1>13, <1>14, <1>15 DEF BaseInv

LEMMA NothingManaged == CountManaged(<<>>) = 0
<1> DEFINE none == <<>>
<1>1. none \in Seq(Line) /\ DOMAIN none = {}
  OBVIOUS
<1> HIDE DEF none
<1>2. CountManaged(none) \in Nat /\ ~(CountManaged(none) > 0)
  BY <1>1, CountManagedZero
<1> QED
  BY <1>2 DEF none

(* What the rollback puts back names no swap that it then removes.         *)
LEMMA CopiedSound ==
    ASSUME TypeOK, BaseInv, phase = "swap", step = "restore"
    PROVE  /\ Copied.present \/ Copied = NoFstab
           /\ CountManaged(Copied.lines) \in Nat
           /\ ~past.tampered /\ CountManaged(Copied.lines) > 0 =>
                swapfile.formatted /\ ~job.created
<1>1. fstab.lines \in Seq(Line) /\ job.backup.lines \in Seq(Line) /\ NoFstab.lines = <<>>
  BY DEF TypeOK, Fstab, Job, NoFstab
<1>2. CASE job.backup.present
  BY <1>1, <1>2, CountManagedZero
  DEF Copied, BaseInv, BackupSound, In, Making, Undoing
<1>3. CASE ~job.backup.present /\ \E i \in DOMAIN fstab.lines : fstab.lines[i] = "comment"
  BY <1>1, <1>3, NothingManaged DEF Copied
<1>4. CASE /\ ~job.backup.present
           /\ ~ \E i \in DOMAIN fstab.lines : fstab.lines[i] = "comment"
  <2>1. Copied = fstab /\ CountManaged(fstab.lines) \in Nat
    BY <1>1, <1>4, CountManagedZero DEF Copied
  <2>2. \A i \in DOMAIN fstab.lines : Previous(fstab.lines, i) # "comment"
    <3>1. DOMAIN fstab.lines = 1..Len(fstab.lines) /\ Len(fstab.lines) \in Nat
      BY <1>1
    <3> QED
      BY <1>4, <3>1 DEF Previous
  <2>3. ~(CountManaged(fstab.lines) > 0)
    BY <1>1, <2>2, CountManagedZero
  <2> QED
    BY <2>1, <2>3 DEF BaseInv, Absent
<1> QED
  BY <1>2, <1>3, <1>4

LEMMA RestoreKept == ASSUME TypeOK, BaseInv, RestoreFstab PROVE BaseInv'
<1> USE DEF In, Making, Undoing, Repairs, IsManaged, SwapData
<1>1. past \in Past /\ phase = "swap" /\ step = "restore"
  BY DEF TypeOK, RestoreFstab, At
<1>2. UNCHANGED <<saved, data, phase, machine, swapfile, active, job>>
  BY DEF RestoreFstab, Goto
<1>3. /\ past'.tampered = past.tampered
      /\ \/ fstab' = Copied /\ step' = "unlink" /\ past' = past
         \/ step' = "failed" /\ past'.cut
  BY <1>1 DEF RestoreFstab, Goto, Past
<1>4. fstab' = fstab \/ fstab' = Copied \/ fstab' = Lines(<<>>)
  BY DEF RestoreFstab, Halfway
<1>5. /\ fstab'.present \/ fstab' = NoFstab
      /\ CountManaged(fstab'.lines) > 0 /\ ~past.tampered => swapfile.formatted
  <2>1. CASE fstab' = fstab
    BY <2>1 DEF BaseInv, Absent, FstabNamesSwap
  <2>2. CASE fstab' = Copied
    BY <1>1, <2>2, CopiedSound
  <2>3. CASE fstab' = Lines(<<>>)
    BY <2>3, NothingManaged DEF Lines
  <2> QED
    BY <1>4, <2>1, <2>2, <2>3
<1>6. Absent'
  BY <1>2, <1>5 DEF BaseInv, Absent
<1>7. JobKnown'
  BY <1>1, <1>2, <1>3 DEF BaseInv, JobKnown
<1>8. DataKnown'
  BY <1>1, <1>2, <1>3 DEF BaseInv, DataKnown
<1>9. ManagedIsSwap'
  BY <1>1, <1>2, <1>3 DEF BaseInv, ManagedIsSwap
<1>10. BackupSound'
  <2>1. CASE step' = "unlink" /\ fstab' = Copied
    BY <1>1, <1>2, <1>3, <2>1, CopiedSound DEF BaseInv, BackupSound
  <2>2. CASE step' = "failed"
    BY <2>2 DEF BackupSound
  <2> QED
    BY <1>3, <2>1, <2>2
<1>11. OrphanKnown'
  BY <1>1, <1>2, <1>3 DEF BaseInv, OrphanKnown
<1>12. FstabNamesSwap'
  BY <1>2, <1>3, <1>5 DEF FstabNamesSwap
<1>13. ReserveKept'
  BY <1>2 DEF BaseInv, ReserveKept, Free
<1> QED
  BY <1>6, <1>7, <1>8, <1>9, <1>10, <1>11, <1>12, <1>13 DEF BaseInv

LEMMA UnlinkKept == ASSUME TypeOK, BaseInv, UnlinkSwapFile PROVE BaseInv'
<1> USE DEF In, Making, Undoing, Repairs, IsManaged, SwapData
<1>1. /\ past \in Past /\ machine.disk \in Nat /\ phase = "swap" /\ step = "unlink"
      /\ step' = "failed"
  BY DEF TypeOK, Machine, UnlinkSwapFile, At, Goto
<1>2. UNCHANGED <<saved, data, phase, machine, active, fstab, job>>
  BY DEF UnlinkSwapFile, Goto
<1>3. /\ past'.tampered = past.tampered /\ (past.cut => past'.cut)
      /\ \/ UNCHANGED swapfile /\ (job.created => past'.cut)
         \/ swapfile' = NoSwapFile /\ job.created
  BY <1>1 DEF UnlinkSwapFile, Past
<1>4. /\ ~NoSwapFile.formatted /\ ~NoSwapFile.ours /\ NoSwapFile.kind = "none"
      /\ NoSwapFile.size = 0
  BY DEF NoSwapFile
<1>5. Absent'
  BY <1>1, <1>2, <1>3, <1>4 DEF BaseInv, Absent
<1>6. JobKnown'
  BY <1>1, <1>2 DEF BaseInv, JobKnown
<1>7. DataKnown'
  BY <1>1, <1>2 DEF BaseInv, DataKnown
<1>8. ManagedIsSwap'
  BY <1>1, <1>2, <1>3 DEF BaseInv, ManagedIsSwap, DataKnown
<1>9. BackupSound'
  BY <1>1 DEF BackupSound
<1>10. OrphanKnown'
  BY <1>1, <1>2, <1>3, <1>4 DEF BaseInv, OrphanKnown
<1>11. FstabNamesSwap'
  BY <1>1, <1>2, <1>3 DEF BaseInv, FstabNamesSwap, BackupSound
<1>12. ReserveKept'
  BY <1>1, <1>2, <1>3, <1>4 DEF BaseInv, ReserveKept, Free
<1> QED
  BY <1>5, <1>6, <1>7, <1>8, <1>9, <1>10, <1>11, <1>12 DEF BaseInv

(* A file that is given its format is one that is there.                   *)
LEMMA MkSwapKept ==
    ASSUME TypeOK, BaseInv,
           \/ MkSwap("mkswap", "write", "restore")
           \/ MkSwap("remkswap", "reswapon", "failed")
    PROVE  BaseInv'
<1> USE DEF In, Making, Undoing, Repairs, IsManaged, SwapData
<1>1. swapfile \in SwapFile /\ phase = "swap"
  BY DEF TypeOK, MkSwap, At
<1>2. UNCHANGED <<saved, data, phase, machine, active, fstab, job, past>>
  BY DEF MkSwap, Goto
<1>3. \/ step = "mkswap" /\ step' \in {"write", "restore"}
      \/ step = "remkswap" /\ step' \in {"reswapon", "failed"}
  BY DEF MkSwap, At, Goto
<1>4. /\ swapfile'.kind = swapfile.kind /\ swapfile'.size = swapfile.size
      /\ swapfile'.ours = swapfile.ours /\ (swapfile.formatted => swapfile'.formatted)
      /\ step' = "write" => swapfile'.formatted
  BY <1>1 DEF MkSwap, Goto, SwapFile
<1>5. swapfile.kind # "none"
  <2>1. CASE step = "mkswap"
    BY <1>1, <2>1 DEF BaseInv, JobKnown, Absent, NoSwapFile
  <2>2. CASE step = "remkswap"
    BY <1>1, <2>2 DEF BaseInv, DataKnown
  <2> QED
    BY <1>3, <2>1, <2>2
<1>6. Absent'
  BY <1>2, <1>4, <1>5 DEF BaseInv, Absent
<1>7. JobKnown'
  BY <1>1, <1>2, <1>3, <1>4 DEF BaseInv, JobKnown
<1>8. DataKnown'
  BY <1>1, <1>2, <1>3, <1>4 DEF BaseInv, DataKnown, SizeFits, Apart
<1>9. ManagedIsSwap'
  BY <1>1, <1>2, <1>3, <1>4 DEF BaseInv, ManagedIsSwap
<1>10. BackupSound'
  BY <1>1, <1>2, <1>3, <1>4 DEF BaseInv, BackupSound
<1>11. OrphanKnown'
  BY <1>1, <1>2, <1>3, <1>4 DEF BaseInv, OrphanKnown
<1>12. FstabNamesSwap' /\ ReserveKept'
  BY <1>2, <1>4 DEF BaseInv, FstabNamesSwap, ReserveKept, Free
<1> QED
  BY <1>6, <1>7, <1>8, <1>9, <1>10, <1>11, <1>12 DEF BaseInv

(* The entry is written when the file is a swap.                           *)
LEMMA WriteKept ==
    ASSUME TypeOK, BaseInv,
           WriteFstab("write", "swapon") \/ WriteFstab("rewrite", AfterEntry)
    PROVE  BaseInv'
<1> USE DEF In, Making, Undoing, Repairs, IsManaged, SwapData
<1>1. phase = "swap" /\ fstab.lines \in Seq(Line)
  BY DEF TypeOK, Fstab, WriteFstab, At
<1>2. UNCHANGED <<saved, data, phase, machine, swapfile, active, job, past>>
  BY DEF WriteFstab, Goto
<1>3. \/ step = "write" /\ step' \in {"swapon", "restore"}
      \/ step = "rewrite" /\ step' \in {"verify", "remkswap", "restore"}
  BY DEF WriteFstab, At, Goto, AfterEntry
<1>4. ~past.tampered => swapfile.formatted
  <2>1. CASE step = "write"
    BY <1>1, <2>1 DEF BaseInv, JobKnown
  <2>2. CASE step = "rewrite"
    BY <1>1, <2>2 DEF BaseInv, DataKnown, ManagedIsSwap
  <2> QED
    BY <1>3, <2>1, <2>2
<1>5. Absent'
  <2>1. fstab'.present \/ fstab' = fstab
    BY <1>1, WithManagedSwapOthers DEF WriteFstab
  <2> QED
    BY <1>2, <2>1 DEF BaseInv, Absent
<1>6. JobKnown'
  BY <1>1, <1>2, <1>3 DEF BaseInv, JobKnown
<1>7. DataKnown'
  BY <1>1, <1>2, <1>3 DEF BaseInv, DataKnown, SizeFits
<1>8. ManagedIsSwap'
  BY <1>1, <1>2, <1>3 DEF BaseInv, ManagedIsSwap, JobKnown
<1>9. BackupSound'
  BY <1>1, <1>2, <1>3 DEF BaseInv, BackupSound
<1>10. OrphanKnown'
  BY <1>1, <1>2, <1>3 DEF BaseInv, OrphanKnown
<1>11. FstabNamesSwap' /\ ReserveKept'
  BY <1>2, <1>4 DEF BaseInv, FstabNamesSwap, ReserveKept, Free
<1> QED
  BY <1>5, <1>6, <1>7, <1>8, <1>9, <1>10, <1>11 DEF BaseInv

LEMMA SwapOnKept ==
    ASSUME TypeOK, BaseInv,
           \/ SwapOn("swapon", ManagedData(job.size), "restore")
           \/ SwapOn("reswapon", SwapData, "failed")
    PROVE  BaseInv'
<1> USE DEF In, Making, Undoing, Repairs, IsManaged
<1>1. phase = "swap" /\ data \in [Phase -> Data] /\ "swap" \in Phase
  BY PhaseNames DEF TypeOK, SwapOn, At
<1>2. UNCHANGED <<saved, phase, machine, swapfile, fstab, job, past>>
  BY DEF SwapOn, Goto, Set
<1>3. \/ step = "swapon" /\ step' = "restore" /\ SwapData' = SwapData
      \/ step = "swapon" /\ step' = "verify" /\ SwapData'.mode = "managed"
      \/ step = "reswapon" /\ step' \in {"verify", "failed"} /\ SwapData' = SwapData
  BY <1>1 DEF SwapOn, At, Goto, Set, SetSwapData, SwapData, ManagedData
<1>4. Absent' /\ FstabNamesSwap' /\ ReserveKept'
  BY <1>2 DEF BaseInv, Absent, FstabNamesSwap, ReserveKept, Free
<1>5. JobKnown'
  BY <1>1, <1>2, <1>3 DEF BaseInv, JobKnown
<1>6. DataKnown'
  BY <1>1, <1>2, <1>3 DEF BaseInv, DataKnown
<1>7. ManagedIsSwap'
  BY <1>1, <1>2, <1>3 DEF BaseInv, ManagedIsSwap, JobKnown
<1>8. BackupSound'
  BY <1>1, <1>2, <1>3 DEF BaseInv, BackupSound
<1>9. OrphanKnown'
  BY <1>1, <1>2, <1>3 DEF BaseInv, OrphanKnown
<1> QED
  BY <1>4, <1>5, <1>6, <1>7, <1>8, <1>9 DEF BaseInv

LEMMA ConsiderSwapKept == ASSUME TypeOK, BaseInv, ConsiderSwap PROVE BaseInv'
<1> USE DEF In, Making, Undoing, Repairs, IsManaged
<1>1. /\ phase = "swap" /\ step = "next" /\ RunType /\ "swap" \in Phase
      /\ UNCHANGED swapVars
  BY TypeParts, PhaseNames DEF ConsiderSwap, Consider, At
<1>2. job = NoJob /\ SwapData = saved["swap"].data
  BY <1>1 DEF BaseInv, JobKnown, DataKnown
<1>3. saved'["swap"].data = saved["swap"].data
  BY <1>1, <1>2 DEF ConsiderSwap, Consider, Record, SwapData, RunType
<1>4. \/ phase' = "none" /\ step' = "idle"
      \/ phase' \in Phase \ {"swap"} /\ SwapData' = SwapData
      \/ phase' = "swap" /\ step' = "discover" /\ SwapData' = SwapData
  <2>1. CASE Pass("swap")
    BY <1>1, <2>1, PassType DEF RunType, SwapData
  <2>2. CASE Move("swap", "discover") \/ Stop
    BY <2>2 DEF Move, Stop, SwapData
  <2> QED
    BY <2>1, <2>2 DEF ConsiderSwap, Consider, Record
<1>5. Absent' /\ FstabNamesSwap' /\ ReserveKept'
  BY <1>1 DEF swapVars, BaseInv, Absent, FstabNamesSwap, ReserveKept, Free
<1>6. JobKnown'
  BY <1>1, <1>2, <1>4, PhaseNames DEF swapVars, JobKnown
<1>7. DataKnown'
  BY <1>2, <1>3, <1>4 DEF DataKnown
<1>8. ManagedIsSwap'
  BY <1>1, <1>2, <1>3, <1>4 DEF swapVars, BaseInv, ManagedIsSwap
<1>9. BackupSound'
  BY <1>4 DEF BackupSound
<1>10. OrphanKnown'
  BY <1>1, <1>3, <1>4 DEF swapVars, BaseInv, OrphanKnown
<1> QED
  BY <1>5, <1>6, <1>7, <1>8, <1>9, <1>10 DEF BaseInv

(* A new swap becomes known, or the run that made it was stopped.          *)
LEMMA VerifySwapKept == ASSUME TypeOK, BaseInv, VerifySwap PROVE BaseInv'
<1> USE DEF In, Making, Undoing, Repairs, IsManaged
<1>1. /\ phase = "swap" /\ step = "verify" /\ RunType /\ "swap" \in Phase
      /\ past \in Past /\ job' = NoJob /\ UNCHANGED <<machine, swapfile, active, fstab>>
  BY TypeParts, PhaseNames DEF VerifySwap, Verify, At, SwapType
<1>2. saved'["swap"].data = saved["swap"].data \/ saved'["swap"].data = SwapData
  BY <1>1 DEF VerifySwap, Verify, Record, SwapData, RunType
<1>3. \/ phase' = "none" /\ step' = "idle"
      \/ /\ phase' \in Phase \ {"swap"} /\ SwapData' = SwapData
         /\ saved'["swap"].data = SwapData
  <2>1. CASE Stop
    BY <2>1 DEF Stop
  <2>2. CASE saved' = [saved EXCEPT !["swap"] = [status |-> "done", data |-> data["swap"]]]
             /\ Pass("swap")
    BY <1>1, <2>2, PassType DEF RunType, SwapData
  <2> QED
    BY <2>1, <2>2 DEF VerifySwap, Verify, Record
<1>4. /\ past'.tampered = past.tampered /\ (past.cut => past'.cut)
      /\ IsManaged(SwapData) /\ saved'["swap"].data # SwapData => past'.cut
  BY <1>1 DEF VerifySwap, Past
<1>5. Absent'
  BY <1>1 DEF BaseInv, Absent, NoJob
<1>6. FstabNamesSwap' /\ ReserveKept'
  BY <1>1, <1>4 DEF BaseInv, FstabNamesSwap, ReserveKept, Free
<1>7. JobKnown'
  BY <1>1, <1>3, PhaseNames DEF JobKnown
<1>8. DataKnown'
  BY <1>3 DEF DataKnown
<1>9. ManagedIsSwap'
  BY <1>1, <1>2, <1>3, <1>4 DEF BaseInv, ManagedIsSwap
<1>10. BackupSound'
  BY <1>3 DEF BackupSound
<1>11. OrphanKnown'
  BY <1>1, <1>2, <1>4 DEF BaseInv, OrphanKnown, DataKnown
<1> QED
  BY <1>5, <1>6, <1>7, <1>8, <1>9, <1>10, <1>11 DEF BaseInv

LEMMA SwapStepKept == ASSUME TypeOK, BaseInv, SwapProcess PROVE BaseInv'
BY ConsiderSwapKept, KeepExistingKept, DiscoverKept, DeclineKept, AskKept, ApplyKept,
   CreateKept, ChmodKept, MkSwapKept, WriteKept, SwapOnKept, RestoreKept, UnlinkKept,
   RefuseKept, ModeKept, RecreateKept, EntryKept, VerifySwapKept
DEF SwapProcess, Creation, Repair

-----------------------------------------------------------------------------
(* The steps around the phases.                                            *)

SameSwap == UNCHANGED <<saved, data, phase, step, machine, swapfile, fstab, job, past>>
LEMMA SameKept == ASSUME BaseInv, SameSwap PROVE BaseInv'
BY DEF SameSwap, BaseInv, Absent, JobKnown, DataKnown, ManagedIsSwap, BackupSound,
       OrphanKnown, FstabNamesSwap, ReserveKept, In, IsManaged, SwapData, Free, SizeFits,
       ValidSize

LEMMA StartStep == ASSUME TypeOK, BaseInv, Start PROVE TypeOK' /\ BaseInv'
<1> USE DEF In, Making, Undoing, Repairs, IsManaged, SwapData
<1>1. /\ phase = "none" /\ phase' = "preflight" /\ step' = "next"
      /\ data' = [p \in Phase |-> saved[p].data] /\ UNCHANGED <<saved, faults, policy>>
      /\ UNCHANGED <<net, clock, conf, machine, swapfile, active, fstab, job, past>>
  BY DEF Start, StartRun, Order, timeVars, swapVars
<1>2. TypeOK'
  BY <1>1, PhaseNames DEF TypeOK, Step
<1>3. data'["swap"] = saved["swap"].data
  BY <1>1, PhaseNames
<1>4. job = NoJob
  BY <1>1 DEF BaseInv, JobKnown
<1>5. Absent' /\ JobKnown' /\ DataKnown' /\ FstabNamesSwap' /\ ReserveKept'
  BY <1>1, <1>3, <1>4
  DEF BaseInv, Absent, JobKnown, DataKnown, FstabNamesSwap, ReserveKept, Free
<1>6. ManagedIsSwap' /\ BackupSound' /\ OrphanKnown'
  BY <1>1, <1>3 DEF BaseInv, ManagedIsSwap, BackupSound, OrphanKnown
<1> QED
  BY <1>2, <1>5, <1>6 DEF BaseInv

(* A phase that failed, or was declined.                                   *)
LEMMA ConcludeStep == ASSUME TypeOK, BaseInv, Conclude PROVE TypeOK' /\ BaseInv'
<1> USE DEF In, Making, Undoing, Repairs, IsManaged
<1>1. RunType /\ SwapType /\ "swap" \in Phase /\ step \in {"failed", "skipped"}
  BY TypeParts, PhaseNames DEF Conclude, ConcludeFailed, ConcludeSkipped
<1>2. phase \in Phase
  BY <1>1 DEF BaseInv, JobKnown, RunType
<1>3. /\ job' = NoJob /\ UNCHANGED <<net, clock, conf, policy>>
      /\ UNCHANGED <<machine, swapfile, active, fstab, past>>
  BY DEF Conclude, timeVars
<1>4. RunType'
  BY <1>1, <1>2, ConcludeType DEF Conclude, ConcludeFailed, ConcludeSkipped, Status
<1>5. TypeOK'
  BY <1>1, <1>3, <1>4, Values DEF TypeOK, RunType, SwapType
<1>6. CASE phase # "swap"
  <2>1. Outside
    BY <1>1, <1>2, <1>6, ConcludeOutside
    DEF Conclude, ConcludeFailed, ConcludeSkipped, Status
  <2>2. job = NoJob
    BY <1>6 DEF BaseInv, JobKnown
  <2> QED
    BY <1>2, <1>3, <1>5, <2>1, <2>2, PhaseNames, OutsideKept DEF swapVars
<1>7. CASE phase = "swap"
  <2>1. saved'["swap"].data = saved["swap"].data \/ saved'["swap"].data = SwapData
    BY <1>1, <1>7 DEF Conclude, ConcludeFailed, ConcludeSkipped, Record, SwapData, RunType
  <2>2. \/ phase' = "none" /\ step' = "idle"
        \/ /\ phase' \in Phase \ {"swap"} /\ SwapData' = SwapData
           /\ saved'["swap"].data = SwapData
    <3>1. CASE Stop
      BY <3>1 DEF Stop
    <3>2. CASE saved' = [saved EXCEPT !["swap"] =
                           [status |-> "skipped", data |-> data["swap"]]] /\ Pass("swap")
      BY <1>1, <3>2, PassType DEF RunType, SwapData
    <3> QED
      BY <1>7, <3>1, <3>2 DEF Conclude, ConcludeFailed, ConcludeSkipped, Record
  <2>3. Absent' /\ FstabNamesSwap' /\ ReserveKept'
    BY <1>3 DEF BaseInv, Absent, NoJob, FstabNamesSwap, ReserveKept, Free
  <2>4. JobKnown'
    BY <1>3, <2>2, PhaseNames DEF JobKnown
  <2>5. DataKnown'
    BY <2>2 DEF DataKnown
  <2>6. ManagedIsSwap'
    BY <1>3, <1>7, <2>1, <2>2 DEF BaseInv, ManagedIsSwap
  <2>7. BackupSound'
    BY <2>2 DEF BackupSound
  <2>8. OrphanKnown'
    BY <1>1, <1>3, <1>7, <2>1 DEF BaseInv, OrphanKnown, DataKnown
  <2> QED
    BY <1>5, <2>3, <2>4, <2>5, <2>6, <2>7, <2>8 DEF BaseInv
<1> QED
  BY <1>6, <1>7

(* What a kill leaves: a part of a new file, a part of the copy of fstab.  *)
LEMMA KillStep == ASSUME TypeOK, BaseInv, Kill PROVE TypeOK' /\ BaseInv'
<1> USE DEF In, Making, Undoing, Repairs, IsManaged
<1>1. /\ RunType /\ SwapType /\ past \in Past /\ machine.disk \in Nat /\ job \in Job
      /\ phase # "none"
  BY TypeParts DEF SwapType, Machine, Kill
<1>2. /\ phase' = "none" /\ step' = "idle" /\ data' \in [Phase -> Data] /\ step' \in Step
      /\ faults' \in 0..MaxFaults /\ job' = NoJob
      /\ UNCHANGED <<saved, net, clock, conf, machine, active, policy>>
  BY StopType, FaultType DEF Kill, timeVars
<1>3. \/ swapfile' = swapfile
      \/ /\ At("swap", "create") /\ swapfile = NoSwapFile
         /\ \E size \in {0, job.size} : swapfile' = NewFile(size)
  <2>1. swapfile.kind = "none" => swapfile = NoSwapFile
    BY DEF BaseInv, Absent
  <2> QED
    BY <2>1, Zenon DEF Kill, Partial
<1>4. ASSUME NEW size \in {0, job.size}, swapfile' = NewFile(size), swapfile = NoSwapFile,
             At("swap", "create")
      PROVE  /\ swapfile'.kind = "file" /\ swapfile'.ours
             /\ swapfile'.size \in Nat /\ swapfile'.size + 1024 <= machine.disk
             /\ Creating
  <2>1. ValidSize(job.size, Free)
    BY <1>4 DEF BaseInv, JobKnown, At
  <2> QED
    BY <1>1, <1>4, <2>1
    DEF NewFile, NoSwapFile, ValidSize, Free, MinFreeAfterSwap, GIB, Job, Creating, At
<1>5. \/ swapfile' = swapfile
      \/ /\ swapfile = NoSwapFile /\ Creating
         /\ swapfile'.kind = "file" /\ swapfile'.ours
         /\ swapfile'.size \in Nat /\ swapfile'.size + 1024 <= machine.disk
  BY <1>3, <1>4
<1>6. fstab' = fstab \/ fstab' = Lines(<<>>)
  BY DEF Kill, Halfway
<1>7. /\ past' \in Past /\ past'.tampered = past.tampered /\ (past.cut => past'.cut)
      /\ Creating => past'.cut
      /\ At("swap", "verify") /\ SwapData # saved["swap"].data => past'.cut
  BY <1>1 DEF Kill, Past
<1>8. TypeOK'
  <2>1. swapfile' \in SwapFile
    <3>1. swapfile \in SwapFile /\ job.size \in Nat
      BY <1>1 DEF SwapType, Job
    <3>2. \A size \in Nat : NewFile(size) \in SwapFile
      BY DEF NewFile, SwapFile
    <3> QED
      BY <1>3, <3>1, <3>2
  <2>2. fstab' \in Fstab
    BY <1>1, <1>6, Values DEF SwapType
  <2> QED
    BY <1>1, <1>2, <1>7, <2>1, <2>2, Values DEF TypeOK
<1>9. Absent'
  <2>1. fstab'.present \/ fstab' = NoFstab
    BY <1>6 DEF BaseInv, Absent, Lines
  <2> QED
    BY <1>1, <1>2, <1>5, <2>1 DEF BaseInv, Absent, NoJob
<1>10. JobKnown' /\ DataKnown' /\ BackupSound'
  BY <1>2 DEF JobKnown, DataKnown, BackupSound
<1>11. swapfile.formatted => swapfile' = swapfile
  BY <1>5 DEF NoSwapFile
<1>12. ManagedIsSwap'
  BY <1>2, <1>7, <1>11 DEF BaseInv, ManagedIsSwap
<1>13. FstabNamesSwap'
  BY <1>6, <1>7, <1>11, NothingManaged DEF BaseInv, FstabNamesSwap, Lines
<1>14. ReserveKept'
  BY <1>1, <1>2, <1>5 DEF BaseInv, ReserveKept, Free, MinFreeAfterSwap, GIB
<1>15. OrphanKnown'
  <2>1. ASSUME swapfile'.ours, ~IsManaged(saved["swap"].data), ~past'.cut
        PROVE  FALSE
    <3>1. swapfile' = swapfile /\ ~Creating /\ ~past.cut
      BY <1>5, <1>7, <2>1
    <3>2. CASE In(Making \cup Undoing)
      BY <3>1, <3>2 DEF Creating
    <3>3. CASE In({"verify"}) /\ IsManaged(SwapData)
      BY <1>7, <2>1, <3>3 DEF At
    <3> QED
      BY <2>1, <3>1, <3>2, <3>3 DEF BaseInv, OrphanKnown
  <2> QED
    BY <1>2, <2>1 DEF OrphanKnown
<1> QED
  BY <1>8, <1>9, <1>10, <1>12, <1>13, <1>14, <1>15 DEF BaseInv

LEMMA RebootStep == ASSUME TypeOK, BaseInv, Reboot PROVE TypeOK' /\ BaseInv'
<1>1. clock' \in Clock /\ active' \subseteq Area /\ faults' \in 0..MaxFaults
  <2> DEFINE served == "server" \in {conf[i] : i \in DOMAIN conf}
  <2>1. clock \in Clock /\ clock' = RebootedClock /\ served \in BOOLEAN
    BY DEF TypeOK, Reboot
  <2>2. RebootedClock = [clock EXCEPT !.synced = FALSE, !.selected = FALSE,
                           !.services = IF clock.installed THEN {"chrony"} ELSE @,
                           !.loaded = clock.installed /\ served]
    BY DEF RebootedClock
  <2> HIDE DEF served
  <2>3. RebootedClock \in Clock
    BY <2>1, <2>2 DEF Clock
  <2>4. active' \subseteq Area
    BY DEF Reboot, Area
  <2> QED
    BY <2>1, <2>3, <2>4, FaultType DEF Reboot
<1>2. TypeOK'
  BY <1>1 DEF TypeOK, Reboot, runVars
<1>3. SameSwap
  BY DEF Reboot, runVars, SameSwap
<1> QED
  BY <1>2, <1>3, SameKept

LEMMA ChangeSwapStep == ASSUME TypeOK, BaseInv, ChangeSwap PROVE TypeOK' /\ BaseInv'
<1>1. active' \subseteq Area /\ faults' \in 0..MaxFaults
  BY FaultType DEF TypeOK, ChangeSwap, Elsewhere, Area
<1>2. TypeOK'
  BY <1>1 DEF TypeOK, ChangeSwap, runVars, timeVars
<1>3. SameSwap
  BY DEF ChangeSwap, runVars, SameSwap
<1> QED
  BY <1>2, <1>3, SameKept

LEMMA ChangeSwapFileStep ==
    ASSUME TypeOK, BaseInv, ChangeSwapFile PROVE TypeOK' /\ BaseInv'
<1> USE DEF In, Making, Undoing, Repairs, IsManaged, SwapData
<1>1. /\ swapfile \in SwapFile /\ past \in Past /\ machine.disk \in Nat
      /\ phase = "none" \/ (phase = "swap" /\ step = "ask")
  BY DEF TypeOK, Machine, ChangeSwapFile, Elsewhere, At
<1>2. /\ UNCHANGED <<saved, data, phase, step, machine, active, fstab, job>>
      /\ UNCHANGED <<net, clock, conf, policy>> /\ faults' \in 0..MaxFaults
  BY FaultType DEF ChangeSwapFile, Elsewhere, runVars, timeVars
<1>3. past' \in Past /\ past'.tampered /\ past'.cut = past.cut
  BY <1>1 DEF ChangeSwapFile, Past
<1>4. /\ swapfile' \in SwapFile
      /\ \/ swapfile' = NoSwapFile
         \/ swapfile'.kind # "none" /\ ~swapfile'.ours /\ swapfile'.size <= machine.disk
         \/ /\ swapfile.private /\ swapfile'.kind = swapfile.kind
            /\ swapfile'.size = swapfile.size /\ swapfile'.ours = swapfile.ours
  BY <1>1, Values, SizesAssumption DEF ChangeSwapFile, SwapFile
<1>5. swapfile'.ours => swapfile.ours /\ swapfile'.size = swapfile.size
  <2>1. ~NoSwapFile.ours
    BY DEF NoSwapFile
  <2> QED
    BY <1>4, <2>1, Zenon
<1>6. TypeOK' /\ Absent'
  <2>1. TypeOK'
    BY <1>2, <1>3, <1>4 DEF TypeOK
  <2>2. Absent'
    BY <1>1, <1>2, <1>4 DEF BaseInv, Absent, NoSwapFile
  <2> QED
    BY <2>1, <2>2
<1>7. JobKnown' /\ DataKnown' /\ ManagedIsSwap' /\ BackupSound' /\ FstabNamesSwap'
  BY <1>1, <1>2, <1>3
  DEF BaseInv, JobKnown, DataKnown, ManagedIsSwap, BackupSound, FstabNamesSwap
<1>8. OrphanKnown'
  BY <1>1, <1>2, <1>3, <1>5 DEF BaseInv, OrphanKnown
<1>9. ReserveKept'
  BY <1>2, <1>5 DEF BaseInv, ReserveKept, Free
<1> QED
  BY <1>6, <1>7, <1>8, <1>9 DEF BaseInv

LEMMA EditFstabType ==
    ASSUME TypeOK, EditFstab PROVE fstab' \in Fstab /\ fstab'.present
<1>1. fstab.lines \in Seq(Line)
  BY DEF TypeOK, Fstab
<1>2. \A l \in Seq(Line) : Lines(l) \in Fstab /\ Lines(l).present
  BY DEF Lines, Fstab
<1>3. ASSUME NEW i \in DOMAIN fstab.lines
      PROVE  SubSeq(fstab.lines, 1, i - 1)
               \o SubSeq(fstab.lines, i + 1, Len(fstab.lines)) \in Seq(Line)
  <2> DEFINE a == SubSeq(fstab.lines, 1, i - 1)
             b == SubSeq(fstab.lines, i + 1, Len(fstab.lines))
  <2>1. a \in Seq(Line) /\ b \in Seq(Line)
    BY <1>1, <1>3
  <2> HIDE DEF a, b
  <2>2. a \o b \in Seq(Line)
    BY <2>1, ConcatProperties
  <2> QED
    BY <2>2 DEF a, b
<1>4. Append(fstab.lines, "swapfile") \in Seq(Line)
  BY <1>1 DEF Line
<1> QED
  BY <1>2, <1>3, <1>4 DEF EditFstab

LEMMA EditFstabStep == ASSUME TypeOK, BaseInv, EditFstab PROVE TypeOK' /\ BaseInv'
<1> USE DEF In, Making, Undoing, Repairs, IsManaged, SwapData
<1>1. /\ past \in Past /\ fstab \in Fstab
      /\ phase = "none" \/ (phase = "swap" /\ step = "ask")
  BY DEF TypeOK, EditFstab, Elsewhere, At
<1>2. /\ UNCHANGED <<saved, data, phase, step, machine, swapfile, active, job>>
      /\ UNCHANGED <<net, clock, conf, policy>> /\ faults' \in 0..MaxFaults
  BY FaultType DEF EditFstab, Elsewhere, runVars, timeVars
<1>3. fstab' \in Fstab /\ fstab'.present
  BY EditFstabType
<1>4. /\ CountManaged(fstab.lines) \in Nat /\ CountManaged(fstab'.lines) \in Nat
      /\ OtherEntries(fstab'.lines) \in Seq(Line)
  BY <1>1, <1>3, CountManagedZero, OtherEntriesType DEF Fstab
<1>5. /\ past' \in Past /\ past'.cut = past.cut
      /\ ~past'.tampered =>
           ~past.tampered /\ ~(CountManaged(fstab'.lines) > CountManaged(fstab.lines))
  BY <1>1, <1>4 DEF EditFstab, Past
<1>6. TypeOK'
  BY <1>2, <1>3, <1>5 DEF TypeOK
<1>7. Absent' /\ ReserveKept'
  BY <1>2, <1>3 DEF BaseInv, Absent, ReserveKept, Free
<1>8. JobKnown' /\ DataKnown' /\ ManagedIsSwap' /\ BackupSound' /\ OrphanKnown'
  BY <1>1, <1>2, <1>5
  DEF BaseInv, JobKnown, DataKnown, ManagedIsSwap, BackupSound, OrphanKnown
<1>9. FstabNamesSwap'
  BY <1>2, <1>4, <1>5 DEF BaseInv, FstabNamesSwap
<1> QED
  BY <1>6, <1>7, <1>8, <1>9 DEF BaseInv

LEMMA ElseStep ==
    ASSUME TypeOK, BaseInv,
           \/ LoseTime /\ UNCHANGED <<swapVars, policy>>
           \/ EditPolicy /\ UNCHANGED <<timeVars, swapVars>>
           \/ Clockwork
    PROVE  TypeOK' /\ BaseInv'
<1>1. SameSwap /\ active' = active
  BY DEF LoseTime, EditPolicy, Clockwork, Synchronize, runVars, swapVars, SameSwap
<1>2. CASE LoseTime /\ UNCHANGED <<swapVars, policy>>
  <2>1. clock' \in Clock /\ faults' \in 0..MaxFaults
    BY <1>2, FaultType DEF TypeOK, LoseTime, Clock
  <2> QED
    BY <1>1, <1>2, <2>1, SameKept DEF TypeOK, LoseTime, SameSwap
<1>3. CASE EditPolicy /\ UNCHANGED <<timeVars, swapVars>>
  <2>1. policy' \in Policy /\ faults' \in 0..MaxFaults
    BY <1>3, FaultType DEF TypeOK, EditPolicy, Policy
  <2> QED
    BY <1>1, <1>3, <2>1, SameKept DEF TypeOK, timeVars, SameSwap
<1>4. CASE Clockwork
  <2>1. clock' \in Clock
    <3> DEFINE chosen == "chrony" \in clock.services
    <3>1. chosen \in BOOLEAN /\ clock \in Clock
          /\ clock' = [clock EXCEPT !.synced = TRUE, !.selected = chosen]
      BY <1>4 DEF TypeOK, Clockwork, Synchronize
    <3> HIDE DEF chosen
    <3> QED
      BY <3>1 DEF Clock
  <2> QED
    BY <1>1, <1>4, <2>1, SameKept DEF TypeOK, Clockwork, Synchronize, SameSwap
<1> QED
  BY <1>2, <1>3, <1>4

LEMMA ProcessStep == ASSUME TypeOK, BaseInv, Process PROVE TypeOK' /\ BaseInv'
<1>1. CASE Preflight
  <2>1. RunType' /\ Outside /\ UNCHANGED swapVars
    BY <1>1, PreflightStep DEF Preflight
  <2>2. TypeOK' /\ phase # "none"
    BY <1>1, <2>1 DEF TypeOK, RunType, Preflight, timeVars, swapVars, ConsiderPreflight,
                      Consider, Checks, Verify, At
  <2> QED
    BY <2>1, <2>2, OutsideKept
<1>2. CASE TimeProcess /\ UNCHANGED <<swapVars, policy>>
  <2>1. RunType' /\ TimeType' /\ Outside /\ UNCHANGED swapVars
    BY <1>2, TimeStep
  <2>2. TypeOK' /\ phase # "none"
    <3>1. TypeOK'
      BY <1>2, <2>1 DEF TypeOK, RunType, TimeType, swapVars
    <3>2. phase = "time_sync"
      BY <1>2 DEF TimeProcess, ConsiderTime, Consider, Probe, InstallChrony,
                  ConfigureChrony, RestartChrony, WaitForSync, VerifyTime, Verify, At
    <3> QED
      BY <3>1, <3>2
  <2> QED
    BY <2>1, <2>2, OutsideKept
<1>3. CASE SwapProcess /\ UNCHANGED <<timeVars, policy>>
  <2>1. RunType' /\ SwapType'
    BY <1>3, SwapStepType DEF BaseInv
  <2> QED
    BY <1>3, <2>1, SwapStepKept DEF TypeOK, RunType, SwapType, timeVars
<1>4. CASE PolicyProcess /\ UNCHANGED <<timeVars, swapVars>>
  <2>1. RunType' /\ policy' \in Policy /\ Outside /\ UNCHANGED swapVars
    BY <1>4, PolicyStep
  <2>2. TypeOK' /\ phase # "none"
    <3>1. TypeOK'
      BY <1>4, <2>1 DEF TypeOK, RunType, timeVars, swapVars
    <3>2. phase = "security_updates"
      BY <1>4 DEF PolicyProcess, ConsiderPolicy, Consider, InstallPackage, WritePolicy,
                  CheckEffective, Verify, At
    <3> QED
      BY <3>1, <3>2
  <2> QED
    BY <2>1, <2>2, OutsideKept
<1> QED
  BY <1>1, <1>2, <1>3, <1>4, ConcludeStep DEF Process

LEMMA InitStep == ASSUME Init PROVE TypeOK /\ BaseInv
<1>1. PICK h \in Hosts :
        /\ net = h.net /\ clock = h.clock /\ conf = h.conf
        /\ machine = h.machine /\ swapfile = h.swapfile
        /\ active = h.active /\ fstab = h.fstab /\ policy = h.policy
  BY DEF Init
<1>2. /\ h \in HostType
      /\ fstab.present \/ fstab = NoFstab
      /\ swapfile.kind # "none" \/ swapfile = NoSwapFile
      /\ swapfile.size <= machine.disk /\ ~swapfile.ours
  BY <1>1, HostsAssumption
<1>3. /\ saved = [p \in Phase |-> [status |-> "pending", data |-> NoData]]
      /\ data = [p \in Phase |-> NoData]
      /\ phase = "none" /\ step = "idle" /\ faults = 0 /\ job = NoJob
  BY DEF Init, RunInit
<1>4. RunType
  BY <1>3, Values, FaultsAssumption DEF RunType, Status, Step
<1>5. TimeType /\ policy \in Policy /\ machine \in Machine /\ swapfile \in SwapFile
      /\ active \subseteq Area /\ fstab \in Fstab
  BY <1>1, <1>2 DEF HostType, TimeType
<1>6. past \in Past
  <2>1. OtherEntries(fstab.lines) \in Seq(Line)
    BY <1>5, OtherEntriesType DEF Fstab
  <2>2. OtherLines(conf) \in Seq({"other"})
    BY <1>5, OtherLinesType DEF TimeType
  <2>3. (CountManaged(fstab.lines) > 0 /\ ~swapfile.formatted) \in BOOLEAN
    OBVIOUS
  <2> QED
    BY <2>1, <2>2, <2>3 DEF Init, Past
<1>7. TypeOK
  BY <1>3, <1>4, <1>5, <1>6, Values, TypeParts DEF SwapType
<1>8. SwapData.mode = "none" /\ saved["swap"].data.mode = "none"
  BY <1>3, PhaseNames DEF SwapData, NoData
<1>9. past.tampered = (CountManaged(fstab.lines) > 0 /\ ~swapfile.formatted)
  BY DEF Init
<1>10. BaseInv
  BY <1>2, <1>3, <1>8, <1>9
  DEF BaseInv, Absent, JobKnown, DataKnown, ManagedIsSwap, BackupSound, OrphanKnown,
      FstabNamesSwap, ReserveKept, In, IsManaged, NoJob
<1> QED
  BY <1>7, <1>10

LEMMA BaseStep == ASSUME TypeOK, BaseInv, [Next]_vars PROVE TypeOK' /\ BaseInv'
<1>1. CASE UNCHANGED vars
  <2>1. SameSwap
    BY <1>1 DEF vars, runVars, swapVars, SameSwap
  <2>2. TypeOK'
    BY <1>1 DEF vars, runVars, swapVars, timeVars, TypeOK
  <2> QED
    BY <2>1, <2>2, SameKept
<1>2. CASE Next
  BY <1>2, StartStep, ProcessStep, KillStep, RebootStep, ChangeSwapStep,
     ChangeSwapFileStep, EditFstabStep, ElseStep
  DEF Next, Others
<1> QED
  BY <1>1, <1>2

-----------------------------------------------------------------------------
(* The theorems.                                                           *)

(* What the process and the record know of the swap at each step is so,    *)
(* whatever failed, was killed or was changed by others before: the        *)
(* inductive invariant the others follow from.                             *)
THEOREM BaseInductive == Spec => [](TypeOK /\ BaseInv)
<1>1. Init => TypeOK /\ BaseInv
  BY InitStep
<1>2. TypeOK /\ BaseInv /\ [Next]_vars => (TypeOK /\ BaseInv)'
  BY BaseStep
<1> QED
  BY <1>1, <1>2, PTL DEF Spec

(* Every variable keeps its type: no step leaves a size that is negative,  *)
(* a line that is none or a record of a phase that is not one.             *)
THEOREM BaseTypeCorrect == Spec => []TypeOK
BY BaseInductive, PTL

(* A swap file that the program makes leaves the reserve of free space,    *)
(* whatever the disk, the sizes asked for and the files that others put    *)
(* there while the question waits.                                         *)
THEOREM ReserveStays == Spec => []ReserveKept
<1>1. TypeOK /\ BaseInv => ReserveKept
  BY DEF BaseInv
<1> QED
  BY <1>1, BaseInductive, PTL

(* The entry of vps-bootstrap in fstab names a swap, wherever a run was    *)
(* cut off, unless others put another file there.                          *)
THEOREM FstabNames == Spec => []FstabNamesSwap
<1>1. TypeOK /\ BaseInv => FstabNamesSwap
  BY DEF BaseInv
<1> QED
  BY <1>1, BaseInductive, PTL

(* A swap file of its own that no record knows is left only by a creation  *)
(* or a rollback that was cut off or refused.                              *)
THEOREM OrphansAreCutOff == Spec => []OrphanIsCutOff
<1>1. TypeOK /\ BaseInv => OrphanIsCutOff
  <2>1. past \in Past => past.cut \in BOOLEAN
    BY DEF Past
  <2> QED
    BY <2>1 DEF TypeOK, BaseInv, OrphanKnown, OrphanIsCutOff, In, IsManaged
<1> QED
  BY <1>1, BaseInductive, PTL

LEMMA ForeignStep ==
    ASSUME TypeOK, BaseInv, Next, swapfile.kind # "none", ~swapfile.ours,
           phase # "none", step # "ask", swapfile' # swapfile
    PROVE  saved["swap"].data.mode = "managed" /\ SizeFits(saved["swap"].data.size)
<1>1. ~Create /\ ~Kill
  BY DEF Create, Kill
<1>2. ~Chmod /\ ~MkSwap("mkswap", "write", "restore")
  BY DEF Chmod, MkSwap, At, BaseInv, JobKnown, In, Making
<1>3. ~UnlinkSwapFile
  BY DEF UnlinkSwapFile, At, BaseInv, JobKnown, In, Undoing
<1>4. ~ChangeSwapFile
  BY DEF ChangeSwapFile, Elsewhere, At
<1>5. RepairMode \/ MkSwap("remkswap", "reswapon", "failed")
  <2>1. ~ \/ Start \/ Preflight \/ Conclude \/ Reboot \/ ChangeSwap \/ EditFstab
          \/ Clockwork
          \/ TimeProcess /\ UNCHANGED <<swapVars, policy>>
          \/ PolicyProcess /\ UNCHANGED <<timeVars, swapVars>>
          \/ LoseTime /\ UNCHANGED <<swapVars, policy>>
          \/ EditPolicy /\ UNCHANGED <<timeVars, swapVars>>
    BY DEF Start, Preflight, Conclude, Reboot, ChangeSwap, EditFstab, Clockwork, swapVars
  <2>2. SwapProcess
    BY <1>1, <1>4, <2>1 DEF Next, Process, Others
  <2>3. ~ \/ ConsiderSwap \/ KeepExisting \/ Discover \/ Decline \/ Ask \/ Apply
          \/ WriteFstab("write", "swapon") \/ SwapOn("swapon", ManagedData(job.size), "restore")
          \/ RestoreFstab \/ RefuseRepair \/ Recreate \/ EnsureEntry \/ VerifySwap
          \/ WriteFstab("rewrite", AfterEntry) \/ SwapOn("reswapon", SwapData, "failed")
    BY DEF ConsiderSwap, KeepExisting, Discover, Decline, Ask, Apply, WriteFstab, SwapOn,
           RestoreFstab, RefuseRepair, Recreate, EnsureEntry, VerifySwap, swapVars
  <2> QED
    BY <1>1, <1>2, <1>3, <2>2, <2>3 DEF SwapProcess, Creation, Repair
<1>6. SwapData.mode = "managed" /\ SizeFits(SwapData.size) /\ SwapData = saved["swap"].data
  <2>1. CASE RepairMode
    BY <2>1 DEF RepairMode, RepairBlocked, Repairing, At, BaseInv, DataKnown, In
  <2>2. CASE MkSwap("remkswap", "reswapon", "failed")
    BY <2>2 DEF MkSwap, At, BaseInv, DataKnown, In, Repairs, IsManaged
  <2> QED
    BY <1>5, <2>1, <2>2
<1> QED
  BY <1>6

(* A file that is not of vps-bootstrap changes only in the repair of its   *)
(* own swap, when the file has the recorded size; no creation, rollback or *)
(* kill touches it, also when it appears while the program runs.           *)
THEOREM ForeignFilesStay == Spec => ForeignUntouched
<1>1. TypeOK /\ BaseInv /\ [Next]_vars =>
        [swapfile.kind # "none" /\ ~swapfile.ours /\ phase # "none"
           /\ step # "ask" /\ swapfile' # swapfile =>
           saved["swap"].data.mode = "managed" /\ SizeFits(saved["swap"].data.size)]_vars
  <2>1. CASE Next
    BY <2>1, ForeignStep
  <2>2. CASE UNCHANGED vars
    BY <2>2
  <2> QED
    BY <2>1, <2>2
<1> QED
  BY <1>1, BaseInductive, PTL DEF Spec, ForeignUntouched

-----------------------------------------------------------------------------
(* The lines of others.                                                    *)

Copying == Making \cup Undoing \cup {"create", "rewrite"}
LinesInv == /\ LinesKnown
            /\ ~past.torn => OtherEntries(fstab.lines) = past.lines
            /\ OtherLines(conf) = past.conf
SameLines ==
    /\ UNCHANGED <<net, conf, fstab>>
    /\ past'.lines = past.lines /\ past'.conf = past.conf /\ past'.torn = past.torn
    /\ In(Copying)' => In(Copying) /\ job'.backup = job.backup

LEMMA SameLinesKept == ASSUME LinesInv, SameLines PROVE LinesInv'
<1>1. In(Copying) = In(Making \cup Undoing \cup {"create", "rewrite"})
  BY DEF Copying
<1>2. Tidy(net.ownFile, conf)'
  BY DEF LinesInv, LinesKnown, SameLines, Tidy, OneHeader
<1> QED
  BY <1>1, <1>2 DEF LinesInv, LinesKnown, SameLines, Copying

LEMMA OutsideLines ==
    ASSUME Outside, UNCHANGED <<net, conf, swapVars>> PROVE SameLines
BY PhaseNames DEF Outside, swapVars, SameLines, In, Copying, Making, Undoing

(* The steps that copy or write neither file.                              *)
LEMMA QuietLines ==
    ASSUME TypeOK, BaseInv,
           \/ Start \/ Conclude \/ Reboot \/ ChangeSwap \/ ChangeSwapFile \/ Clockwork
           \/ LoseTime /\ UNCHANGED <<swapVars, policy>>
           \/ EditPolicy /\ UNCHANGED <<timeVars, swapVars>>
           \/ UNCHANGED vars
    PROVE  SameLines
<1> USE DEF SameLines, In, Copying, Making, Undoing
<1>1. CASE Start
  BY <1>1 DEF Start, StartRun, Order, timeVars, swapVars
<1>2. CASE Conclude
  <2>1. RunType /\ "swap" \in Phase /\ phase \in Phase
    BY <1>2, TypeParts, PhaseNames
    DEF RunType, BaseInv, JobKnown, Conclude, ConcludeFailed, ConcludeSkipped
  <2>2. CASE phase = "swap"
    <3>1. phase' # "swap"
      BY <1>2, <2>1, <2>2, PassType
      DEF Conclude, ConcludeFailed, ConcludeSkipped, Record, Stop, RunType
    <3> QED
      BY <1>2, <3>1 DEF Conclude, timeVars
  <2>3. CASE phase # "swap"
    <3>1. Outside
      BY <1>2, <2>1, <2>3, ConcludeOutside
      DEF Conclude, ConcludeFailed, ConcludeSkipped, Status
    <3> QED
      BY <1>2, <3>1, PhaseNames DEF Conclude, timeVars, Outside
  <2> QED
    BY <2>2, <2>3
<1>3. CASE ChangeSwapFile
  <2>1. past \in Past
    BY DEF TypeOK
  <2> QED
    BY <1>3, <2>1 DEF ChangeSwapFile, runVars, timeVars, Past
<1>4. CASE \/ Reboot \/ ChangeSwap \/ Clockwork
           \/ LoseTime /\ UNCHANGED <<swapVars, policy>>
           \/ EditPolicy /\ UNCHANGED <<timeVars, swapVars>>
           \/ UNCHANGED vars
  BY <1>4 DEF Reboot, ChangeSwap, Clockwork, Synchronize, LoseTime, EditPolicy, vars,
              runVars, timeVars, swapVars
<1> QED
  BY <1>1, <1>2, <1>3, <1>4

LEMMA TimeLines ==
    ASSUME TypeOK, TimeProcess, UNCHANGED swapVars, LinesInv PROVE LinesInv'
<1>1. Outside
  BY TimeStep
<1>2. CASE UNCHANGED <<net, conf>>
  BY <1>1, <1>2, OutsideLines, SameLinesKept DEF swapVars
<1>3. CASE ConfigureChrony /\ conf' = Configured
  <2>1. UNCHANGED <<net, fstab, past>>
    BY <1>3 DEF ConfigureChrony, swapVars
  <2>2. conf \in Seq(ConfLine) /\ net.ownFile \in BOOLEAN
    BY DEF TypeOK, Net
  <2>3. Tidy(net.ownFile, Configured) /\ OtherLines(Configured) = OtherLines(conf)
    <3>1. CASE net.ownFile
      BY <3>1, BlockAlone DEF Configured, LinesInv, LinesKnown, Tidy
    <3>2. CASE ~net.ownFile
      <4>1. Tidy(FALSE, conf) /\ Configured = Merged(conf)
        BY <3>2 DEF LinesInv, LinesKnown, Tidy, Configured
      <4> QED
        BY <2>2, <3>2, <4>1, MergedTidy DEF Tidy
    <3> QED
      BY <3>1, <3>2
  <2>4. Tidy(net.ownFile, conf)'
    BY <1>3, <2>1, <2>3 DEF Tidy, OneHeader
  <2>5. ~In(Copying)'
    BY <1>1, PhaseNames DEF Outside, In, Copying, Making, Undoing
  <2> QED
    BY <1>3, <2>1, <2>3, <2>4, <2>5 DEF LinesInv, LinesKnown, Copying
<1> QED
  BY <1>2, <1>3 DEF TimeProcess, ConsiderTime, Probe, InstallChrony, ConfigureChrony,
                    RestartChrony, WaitForSync, VerifyTime, timeVars

(* The creation and the repair copy fstab before they write it.            *)
LEMMA SwapLines ==
    ASSUME TypeOK, BaseInv, SwapProcess, UNCHANGED timeVars, LinesInv PROVE LinesInv'
<1>1. /\ past \in Past /\ job \in Job /\ fstab.lines \in Seq(Line) /\ RunType
      /\ "swap" \in Phase /\ UNCHANGED <<net, conf>>
  BY TypeParts, PhaseNames DEF TypeOK, Fstab, timeVars
<1>2. Tidy(net.ownFile, conf)'
  BY <1>1 DEF LinesInv, LinesKnown, Tidy, OneHeader
<1>3. CASE \/ ConsiderSwap \/ KeepExisting \/ Discover \/ Decline \/ Ask \/ RefuseRepair
           \/ RepairMode \/ Recreate \/ VerifySwap
  <2> USE DEF SameLines, In, Copying, Making, Undoing
  <2>1. CASE ConsiderSwap
    <3>1. phase' = "swap" => step' = "discover"
      BY <1>1, <2>1, PassType
      DEF ConsiderSwap, Consider, Record, Move, Stop, RunType
    <3> QED
      BY <1>1, <2>1, <3>1, SameLinesKept DEF ConsiderSwap, swapVars
  <2>2. CASE VerifySwap
    <3>1. phase' # "swap"
      BY <1>1, <2>2, PassType DEF VerifySwap, Verify, Record, Stop, RunType
    <3>2. past'.lines = past.lines /\ past'.conf = past.conf /\ past'.torn = past.torn
      BY <1>1, <2>2 DEF VerifySwap, Past
    <3> QED
      BY <1>1, <2>2, <3>1, <3>2, SameLinesKept DEF VerifySwap
  <2>3. CASE KeepExisting \/ Discover \/ Decline \/ Ask \/ RefuseRepair \/ RepairMode
             \/ Recreate
    <3>1. step' \notin Copying /\ UNCHANGED <<fstab, past>>
      BY <2>3 DEF KeepExisting, Discover, Decline, Ask, RefuseRepair, RepairMode, Recreate,
                  Goto, Set, swapVars
    <3> QED
      BY <1>1, <3>1, SameLinesKept
  <2> QED
    BY <1>3, <2>1, <2>2, <2>3
<1>4. CASE \/ Create \/ Chmod \/ MkSwap("mkswap", "write", "restore")
           \/ MkSwap("remkswap", "reswapon", "failed")
           \/ SwapOn("swapon", ManagedData(job.size), "restore")
           \/ SwapOn("reswapon", SwapData, "failed") \/ UnlinkSwapFile
  <2>1. /\ UNCHANGED fstab /\ past'.lines = past.lines /\ past'.conf = past.conf
        /\ past'.torn = past.torn /\ job'.backup = job.backup /\ phase' = phase
    BY <1>1, <1>4 DEF Create, Chmod, MkSwap, SwapOn, UnlinkSwapFile, Goto, Set, Past, Job
  <2>2. step' \in Copying => phase = "swap" /\ step \in Copying
    BY <1>4 DEF Create, Chmod, MkSwap, SwapOn, UnlinkSwapFile, Goto, Set, At, Copying,
                Making, Undoing
  <2> QED
    BY <1>1, <2>1, <2>2, SameLinesKept DEF SameLines, In
<1>5. CASE Apply \/ EnsureEntry
  <2>1. /\ UNCHANGED <<fstab, past>>
        /\ job'.backup = fstab \/ step' \in {"failed", "verify", "remkswap"}
    BY <1>1, <1>5 DEF Apply, EnsureEntry, AfterEntry, Goto, Job
  <2> QED
    BY <1>1, <1>2, <2>1 DEF LinesInv, LinesKnown, In, Making, Undoing
<1>6. CASE WriteFstab("write", "swapon") \/ WriteFstab("rewrite", AfterEntry)
  <2>1. OtherEntries(fstab'.lines) = OtherEntries(fstab.lines)
    BY <1>1, <1>6, WithManagedSwapOthers DEF WriteFstab
  <2>2. UNCHANGED <<past, job>> /\ In(Copying)
    BY <1>6 DEF WriteFstab, At, In, Copying, Making, Undoing
  <2> QED
    BY <1>1, <1>2, <2>1, <2>2 DEF LinesInv, LinesKnown, Copying
<1>7. CASE RestoreFstab
  <2>1. /\ UNCHANGED job /\ In(Copying)
        /\ past'.lines = past.lines /\ past'.conf = past.conf
        /\ (past.torn \/ fstab' \in Halfway => past'.torn) \/ fstab' = Copied
        /\ fstab' \in {fstab, Copied} \cup Halfway /\ (past.torn => past'.torn)
    BY <1>1, <1>7 DEF RestoreFstab, At, In, Copying, Making, Undoing, Past
  <2>2. ~past.torn => OtherEntries(Copied.lines) = past.lines
    <3>1. ~past.torn => OtherEntries(job.backup.lines) = past.lines
      BY <2>1 DEF LinesInv, LinesKnown, Copying
    <3>2. ~past.torn => OtherEntries(fstab.lines) = past.lines
      BY DEF LinesInv
    <3>3. job.backup.present \/ job.backup = NoFstab
      BY DEF BaseInv, Absent
    <3> QED
      BY <3>1, <3>2, <3>3 DEF Copied
  <2>3. ~past'.torn => OtherEntries(fstab'.lines) = past.lines
    BY <2>1, <2>2 DEF LinesInv
  <2> QED
    BY <1>1, <1>2, <2>1, <2>3 DEF LinesInv, LinesKnown, Copying
<1> QED
  BY <1>3, <1>4, <1>5, <1>6, <1>7 DEF SwapProcess, Creation, Repair

LEMMA LinesStep == ASSUME TypeOK, BaseInv, LinesInv, [Next]_vars PROVE LinesInv'
<1>1. CASE Preflight
  <2>1. UNCHANGED <<net, conf, swapVars>>
    BY <1>1 DEF Preflight, timeVars
  <2> QED
    BY <1>1, <2>1, PreflightStep, OutsideLines, SameLinesKept
<1>2. CASE PolicyProcess /\ UNCHANGED <<timeVars, swapVars>>
  <2>1. UNCHANGED <<net, conf, swapVars>>
    BY <1>2 DEF timeVars
  <2> QED
    BY <1>2, <2>1, PolicyStep, OutsideLines, SameLinesKept
<1>3. CASE Kill
  <2>1. past \in Past /\ ~In(Copying)' /\ UNCHANGED <<net, conf>>
    BY <1>3 DEF TypeOK, Kill, Stop, In, timeVars
  <2>2. /\ past'.lines = past.lines /\ past'.conf = past.conf
        /\ past'.torn = (past.torn \/ fstab' # fstab)
    BY <1>3, <2>1 DEF Kill, Past
  <2>3. Tidy(net.ownFile, conf)'
    BY <2>1 DEF LinesInv, LinesKnown, Tidy, OneHeader
  <2> QED
    BY <2>1, <2>2, <2>3 DEF LinesInv, LinesKnown, Copying
<1>4. CASE EditFstab
  <2>1. past \in Past /\ UNCHANGED <<net, conf, phase, step>> /\ ~In(Copying)
    BY <1>4 DEF TypeOK, EditFstab, Elsewhere, At, runVars, timeVars, In, Copying, Making,
                Undoing
  <2>2. past'.lines = OtherEntries(fstab'.lines) /\ past'.conf = past.conf
    BY <1>4, <2>1 DEF EditFstab, Past
  <2>3. Tidy(net.ownFile, conf)'
    BY <2>1 DEF LinesInv, LinesKnown, Tidy, OneHeader
  <2> QED
    BY <2>1, <2>2, <2>3 DEF LinesInv, LinesKnown, Copying, In
<1> QED
  BY <1>1, <1>2, <1>3, <1>4, QuietLines, SameLinesKept, TimeLines, SwapLines
  DEF Next, Process, Others

(* The lines of others stay, in their order, in both files, and neither    *)
(* gets a second block of vps-bootstrap, if no host starts with a block    *)
(* that somebody edited: what stands between the header and the footer is  *)
(* replaced when the block is written.                                     *)
THEOREM OthersStay == ASSUME TidyHosts PROVE Spec => []OthersKept
<1>1. Init => LinesInv
  <2> SUFFICES ASSUME Init PROVE LinesInv
    OBVIOUS
  <2>1. Tidy(net.ownFile, conf)
    BY DEF Init, TidyHosts
  <2>2. /\ past.lines = OtherEntries(fstab.lines) /\ past.conf = OtherLines(conf)
        /\ phase = "none"
    BY DEF Init, RunInit
  <2> QED
    BY <2>1, <2>2 DEF LinesInv, LinesKnown, In
<1>2. TypeOK /\ BaseInv /\ LinesInv /\ [Next]_vars => LinesInv'
  BY LinesStep
<1>3. LinesInv => OthersKept
  BY DEF LinesInv, LinesKnown, Tidy, OneHeader, OthersKept
<1> QED
  BY <1>1, <1>2, <1>3, BaseInductive, PTL DEF Spec
=============================================================================
