------------------------ MODULE DocumentSearchProofs ------------------------
(***************************************************************************)
(* Proofs about what imports store and what a chat gets, for any           *)
(* documents, texts, importers and limits: the index numbers a document's  *)
(* paragraphs in reading order, partial copies and repeated paragraphs     *)
(* belong to disturbed documents only, a chat about an undisturbed one is  *)
(* as full as it can be, and the chunk-by-chunk import implements the      *)
(* import of ImportService.                                                *)
(*                                                                         *)
(* First the text: the pages that Split leaves, by induction over the      *)
(* entries, hold exactly the paragraphs of Text.  The library's induction  *)
(* theorems take an operator; the induction here is over a set, and rests  *)
(* on the well-foundedness of strict inclusion between finite sets.  Then  *)
(* two invariants: CopyInv says which chunks and points there can be at    *)
(* the same time, StoreInv which text is stored when.                      *)
(***************************************************************************)
EXTENDS DocumentSearch, FiniteSetTheorems, SequenceTheorems, TLAPS

-----------------------------------------------------------------------------
(***************************************************************************)
(* Induction over the numbers up to n.                                     *)
(***************************************************************************)

\* A set of numbers has a least one: 0..n shrinks with n.
LEMMA LeastNumber ==
  ASSUME NEW T \in SUBSET Nat, T # {}
  PROVE \E m \in T : \A k \in T : m <= k
<1> DEFINE X == {0..n : n \in T}
<1>1. \A x \in X : IsFiniteSet(x) /\ x \in SUBSET Nat
  <2> SUFFICES ASSUME NEW n \in T PROVE IsFiniteSet(0..n) /\ 0..n \in SUBSET Nat
    OBVIOUS
  <2> QED BY FS_Interval
<1>2. X \subseteq FiniteSubsetsOf(Nat) /\ X # {}
  BY <1>1 DEF FiniteSubsetsOf
<1>3. PICK x \in X : \A y \in X : <<y, x>> \notin StrictSubsetOrdering(Nat)
  <2> HIDE DEF X
  <2> QED BY <1>2, WFMin, FS_StrictSubsetOrderingWellFounded
<1>4. PICK m \in T : x = 0..m
  OBVIOUS
<1>5. ASSUME NEW k \in T, k < m PROVE FALSE
  <2>1. 0..k \subseteq 0..m /\ 0..k # 0..m
    <3>1. m \in 0..m /\ m \notin 0..k
      BY <1>5
    <3> QED BY <1>5, <3>1
  <2>2. <<0..k, 0..m>> \in StrictSubsetOrdering(Nat)
    BY <1>1, <2>1 DEF StrictSubsetOrdering
  <2> QED BY <1>3, <1>4, <2>2
<1> QED BY <1>5

\* Induction, for a property given by the set of numbers that have it.
LEMMA Induction ==
    ASSUME NEW n \in Nat, NEW S, 0 \in S, \A k \in 0..(n - 1) : k \in S => k + 1 \in S
    PROVE  0..n \subseteq S
<1> DEFINE T == {k \in 0..n : k \notin S}
<1> SUFFICES ASSUME T # {} PROVE FALSE
  OBVIOUS
<1>1. PICK m \in T : \A k \in T : m <= k
  <2> T \in SUBSET Nat OBVIOUS
  <2> HIDE DEF T
  <2> QED BY LeastNumber
<1>2. m # 0 /\ m - 1 \in 0..(n - 1) /\ m - 1 \notin T
  BY <1>1
<1> QED BY <1>2

-----------------------------------------------------------------------------
(***************************************************************************)
(* The pages of a document and its text.                                   *)
(***************************************************************************)

\* The recursive definition of KeptEntries defines a function: one exists up to every n.
LEMMA KeptEntriesIs ==
    ASSUME NEW e, Len(e) \in Nat
    PROVE  KeptEntries(e) = [i \in 0..Len(e) |->
              IF i = 0 THEN <<>>
              ELSE IF e[i] = Blank THEN KeptEntries(e)[i - 1]
              ELSE Append(KeptEntries(e)[i - 1], e[i])]
<1> DEFINE Rec(f, n) == f = [i \in 0..n |->
               IF i = 0 THEN <<>>
               ELSE IF e[i] = Blank THEN f[i - 1] ELSE Append(f[i - 1], e[i])]
           S == {n \in 0..Len(e) : \E f : Rec(f, n)}
<1>1. Rec([i \in 0..0 |-> <<>>], 0)
  OBVIOUS
<1>2. ASSUME NEW n \in 0..(Len(e) - 1), n \in S PROVE n + 1 \in S
  <2>1. PICK f : Rec(f, n)
    BY <1>2
  <2>2. \A i \in 0..n : f[i] = IF i = 0 THEN <<>>
               ELSE IF e[i] = Blank THEN f[i - 1] ELSE Append(f[i - 1], e[i])
    BY <2>1
  <2> DEFINE g == [i \in 0..(n + 1) |-> IF i <= n THEN f[i]
               ELSE IF e[i] = Blank THEN f[i - 1] ELSE Append(f[i - 1], e[i])]
  <2>3. Rec(g, n + 1)
    <3>1. ASSUME NEW i \in 0..(n + 1)
          PROVE  g[i] = IF i = 0 THEN <<>>
               ELSE IF e[i] = Blank THEN g[i - 1] ELSE Append(g[i - 1], e[i])
      <4>1. CASE i = 0
        BY <2>2, <4>1
      <4>2. CASE i # 0
        <5>1. g[i - 1] = f[i - 1]
          BY <4>2
        <5>2. g[i] = IF e[i] = Blank THEN f[i - 1] ELSE Append(f[i - 1], e[i])
          BY <2>2, <4>2
        <5> HIDE DEF g
        <5> QED BY <4>2, <5>1, <5>2
      <4> QED BY <4>1, <4>2
    <3>2. g = [i \in 0..(n + 1) |-> g[i]]
      OBVIOUS
    <3> HIDE DEF g
    <3> QED BY <3>1, <3>2
  <2> HIDE DEF g, Rec
  <2> QED BY <2>3
<1>3. Len(e) \in S
  <2>1. 0 \in S
    <3> HIDE DEF Rec
    <3> QED BY <1>1
  <2>2. \A n \in 0..(Len(e) - 1) : n \in S => n + 1 \in S
    BY <1>2
  <2>3. 0..Len(e) \subseteq S
    <3> HIDE DEF S
    <3> QED BY <2>1, <2>2, Induction
  <2> QED BY <2>3
<1>4. \E f : Rec(f, Len(e))
  <2> HIDE DEF Rec
  <2> QED BY <1>3
<1>5. Rec(CHOOSE f : Rec(f, Len(e)), Len(e))
  <2> HIDE DEF Rec
  <2> QED BY <1>4
<1>6. KeptEntries(e) = CHOOSE f : Rec(f, Len(e))
  BY Zenon DEF KeptEntries
<1> QED BY <1>5, <1>6

\* A page number counts the entries that are not blank: every such entry adds one.
LEMMA PageOfIs ==
    ASSUME NEW d, entries[d] \in Seq(Int)
    PROVE  /\ PageOf(d, 0) = 0
           /\ \A i \in 1..Len(entries[d]) :
                 /\ PageOf(d, i - 1) \in Nat
                 /\ PageOf(d, i) = PageOf(d, i - 1) + (IF entries[d][i] = Blank THEN 0 ELSE 1)
<1> DEFINE N(i) == {j \in 1..i : entries[d][j] # Blank}
<1>1. ASSUME NEW i \in Nat PROVE IsFiniteSet(N(i)) /\ Cardinality(N(i)) \in Nat
  <2>1. IsFiniteSet(1..i) /\ N(i) \subseteq 1..i
    BY FS_Interval
  <2> QED BY <2>1, FS_Subset, FS_CardinalityType
<1>0. \A i : PageOf(d, i) = Cardinality(N(i))
  BY DEF PageOf
<1>2. PageOf(d, 0) = 0
  <2>1. N(0) = {}
    OBVIOUS
  <2> QED BY <2>1, FS_EmptySet DEF PageOf
<1>3. ASSUME NEW i \in 1..Len(entries[d])
      PROVE  /\ PageOf(d, i - 1) \in Nat
             /\ PageOf(d, i) = PageOf(d, i - 1) + (IF entries[d][i] = Blank THEN 0 ELSE 1)
  <2>1. i - 1 \in Nat /\ i \notin N(i - 1)
    OBVIOUS
  <2>2. CASE entries[d][i] = Blank
    <3>1. N(i) = N(i - 1)
      BY <2>2
    <3> HIDE DEF N
    <3> QED BY <1>0, <1>1, <2>1, <2>2, <3>1
  <2>3. CASE entries[d][i] # Blank
    <3>1. N(i) = N(i - 1) \cup {i}
      BY <2>3
    <3>2. Cardinality(N(i)) = Cardinality(N(i - 1)) + 1
      <4> HIDE DEF N
      <4> QED BY <1>1, <2>1, <3>1, FS_AddElement
    <3> HIDE DEF N
    <3> QED BY <1>0, <1>1, <2>1, <2>3, <3>2
  <2> QED BY <2>2, <2>3
<1> QED BY <1>2, <1>3

\* The pages of d after i of its entries.
Kept(d, i) == KeptEntries(entries[d])[i]

\* After i entries Split has kept those of them that are not blank, at their page numbers.
LEMMA KeptUpTo ==
    ASSUME NEW d, entries[d] \in Seq(Blank..MaxParagraphs),
           NEW i \in 0..Len(entries[d])
    PROVE  /\ Kept(d, i) \in Seq(0..MaxParagraphs) /\ Len(Kept(d, i)) = PageOf(d, i)
           /\ \A j \in 1..i : entries[d][j] # Blank =>
                 /\ PageOf(d, j) \in 1..Len(Kept(d, i))
                 /\ Kept(d, i)[PageOf(d, j)] = entries[d][j]
           /\ \A n \in 1..Len(Kept(d, i)) :
                 \E j \in 1..i : entries[d][j] # Blank /\ PageOf(d, j) = n
<1> USE BoundsAssumption
<1> DEFINE e == entries[d]
<1>1. /\ Len(e) \in Nat /\ \A k \in 1..Len(e) : e[k] \in Blank..MaxParagraphs
  BY DEF Blank
<1> DEFINE kept == KeptEntries(e)
           Seen(k) == /\ kept[k] \in Seq(0..MaxParagraphs) /\ Len(kept[k]) = PageOf(d, k)
                      /\ \A j \in 1..k : e[j] # Blank =>
                            PageOf(d, j) \in 1..Len(kept[k]) /\ kept[k][PageOf(d, j)] = e[j]
                      /\ \A n \in 1..Len(kept[k]) :
                            \E j \in 1..k : e[j] # Blank /\ PageOf(d, j) = n
           S == {k \in 0..Len(e) : Seen(k)}
<1>2. /\ kept[0] = <<>>
      /\ \A k \in 1..Len(e) :
            kept[k] = IF e[k] = Blank THEN kept[k - 1] ELSE Append(kept[k - 1], e[k])
  <2>1. kept = [k \in 0..Len(e) |->
              IF k = 0 THEN <<>>
              ELSE IF e[k] = Blank THEN kept[k - 1]
              ELSE Append(kept[k - 1], e[k])]
    BY <1>1, KeptEntriesIs
  <2> HIDE DEF kept, e
  <2>2. \A k \in 0..Len(e) : kept[k] =
              IF k = 0 THEN <<>>
              ELSE IF e[k] = Blank THEN kept[k - 1]
              ELSE Append(kept[k - 1], e[k])
    BY <2>1
  <2> QED BY <1>1, <2>2
<1>3. /\ PageOf(d, 0) = 0
      /\ \A k \in 1..Len(e) :
            /\ PageOf(d, k - 1) \in Nat
            /\ PageOf(d, k) = PageOf(d, k - 1) + (IF e[k] = Blank THEN 0 ELSE 1)
  <2>1. e \in Seq(Int)
    BY <1>1
  <2> QED BY <2>1, PageOfIs
<1> HIDE DEF e, kept
<1>4. Seen(0)
  BY <1>2, <1>3
<1>5. ASSUME NEW k \in 0..(Len(e) - 1), Seen(k) PROVE Seen(k + 1)
  <2>0. k + 1 \in 1..Len(e) /\ (k + 1) - 1 = k /\ 1..(k + 1) = (1..k) \cup {k + 1}
    BY <1>1
  <2>1. CASE e[k + 1] = Blank
    <3>1. kept[k + 1] = kept[k] /\ PageOf(d, k + 1) = PageOf(d, k)
      BY <1>2, <1>3, <2>0, <2>1
    <3> QED BY <1>5, <2>0, <2>1, <3>1
  <2>2. CASE e[k + 1] # Blank
    <3>1. kept[k + 1] = Append(kept[k], e[k + 1]) /\ PageOf(d, k + 1) = PageOf(d, k) + 1
      BY <1>2, <1>3, <2>0, <2>2
    <3>2. e[k + 1] \in 0..MaxParagraphs
      BY <1>1, <2>0, <2>2 DEF Blank
    <3>3. /\ kept[k + 1] \in Seq(0..MaxParagraphs)
          /\ Len(kept[k + 1]) = Len(kept[k]) + 1
          /\ \A n \in 1..Len(kept[k]) : kept[k + 1][n] = kept[k][n]
          /\ kept[k + 1][Len(kept[k]) + 1] = e[k + 1]
      BY <1>5, <3>1, <3>2
    <3>4. Len(kept[k]) \in Nat
      BY <1>5
    <3>5. ASSUME NEW j \in 1..(k + 1), e[j] # Blank
          PROVE  PageOf(d, j) \in 1..Len(kept[k + 1]) /\ kept[k + 1][PageOf(d, j)] = e[j]
      <4>1. CASE j \in 1..k
        <5>1. PageOf(d, j) \in 1..Len(kept[k]) /\ kept[k][PageOf(d, j)] = e[j]
          BY <1>5, <3>5, <4>1
        <5> QED BY <3>3, <3>4, <5>1
      <4>2. CASE j = k + 1
        BY <1>5, <3>1, <3>3, <3>4, <4>2
      <4> QED BY <2>0, <4>1, <4>2
    <3>6. ASSUME NEW n \in 1..Len(kept[k + 1])
          PROVE  \E j \in 1..(k + 1) : e[j] # Blank /\ PageOf(d, j) = n
      <4>1. CASE n \in 1..Len(kept[k])
        BY <1>5, <2>0, <4>1
      <4>2. CASE n = Len(kept[k]) + 1
        BY <1>5, <2>0, <2>2, <3>1, <4>2
      <4> QED BY <3>3, <3>4, <4>1, <4>2
    <3> QED BY <1>5, <3>1, <3>3, <3>5, <3>6
  <2> QED BY <2>1, <2>2
<1> HIDE DEF Seen
<1>6. 0..Len(e) \subseteq S
  <2>1. 0 \in S
    BY <1>1, <1>4
  <2>2. \A k \in 0..(Len(e) - 1) : k \in S => k + 1 \in S
    BY <1>1, <1>5
  <2> HIDE DEF S
  <2> QED BY <1>1, <2>1, <2>2, Induction
<1>7. Seen(i)
  BY <1>6 DEF e
<1> QED BY <1>7 DEF Seen, e, kept, Kept

\* The text of a document is the paragraphs of its pages.
LEMMA TextByPages ==
    ASSUME NEW d, entries[d] \in Seq(Blank..MaxParagraphs)
    PROVE  /\ Pages(d) \in Seq(0..MaxParagraphs)
           /\ \A s : s \in Text(d) <=>
                 \E n \in 1..Len(Pages(d)) : \E k \in 1..Pages(d)[n] : s = <<n, k>>
<1> DEFINE e == entries[d]
<1>1. /\ Len(e) \in 0..Len(e) /\ DOMAIN e = 1..Len(e)
      /\ \A j \in 1..Len(e) : e[j] = Blank => 1..e[j] = {}
  BY DEF Blank
<1>2. /\ Pages(d) \in Seq(0..MaxParagraphs)
      /\ \A j \in 1..Len(e) : e[j] # Blank =>
            PageOf(d, j) \in 1..Len(Pages(d)) /\ Pages(d)[PageOf(d, j)] = e[j]
      /\ \A n \in 1..Len(Pages(d)) :
            \E j \in 1..Len(e) : e[j] # Blank /\ PageOf(d, j) = n
  <2>1. Pages(d) = KeptEntries(e)[Len(e)]
    BY DEF Pages
  <2>2. Kept(d, Len(e)) = Pages(d)
    BY <2>1 DEF Kept
  <2>3. PICK i \in 0..Len(e) : i = Len(e)
    BY <1>1
  <2>4. /\ Kept(d, i) \in Seq(0..MaxParagraphs)
        /\ \A j \in 1..i : e[j] # Blank =>
              PageOf(d, j) \in 1..Len(Kept(d, i)) /\ Kept(d, i)[PageOf(d, j)] = e[j]
        /\ \A n \in 1..Len(Kept(d, i)) : \E j \in 1..i : e[j] # Blank /\ PageOf(d, j) = n
    BY KeptUpTo
  <2> HIDE DEF e
  <2> QED BY <2>2, <2>3, <2>4
<1>3. \A s : s \in Text(d) <=> \E j \in 1..Len(e) : \E k \in 1..e[j] : s = <<PageOf(d, j), k>>
  BY <1>1 DEF Text
<1> HIDE DEF e
<1>4. ASSUME NEW j \in 1..Len(e), NEW k \in 1..e[j]
      PROVE  \E n \in 1..Len(Pages(d)) : \E m \in 1..Pages(d)[n] : <<PageOf(d, j), k>> = <<n, m>>
  BY <1>1, <1>2, <1>4
<1>5. ASSUME NEW n \in 1..Len(Pages(d)), NEW k \in 1..Pages(d)[n]
      PROVE  \E j \in 1..Len(e) : \E m \in 1..e[j] : <<n, k>> = <<PageOf(d, j), m>>
  <2>1. PICK j \in 1..Len(e) : e[j] # Blank /\ PageOf(d, j) = n
    BY <1>2
  <2> QED BY <1>2, <1>5, <2>1
<1> QED BY <1>2, <1>3, <1>4, <1>5

\* The text of the first n pages of d, and that of page n.
Upto(d, n) == {s \in Text(d) : s[1] <= n}
Page(d, n) == {<<n, k>> : k \in 1..Pages(d)[n]}

\* Two sets without a common element have as many elements as both together.
LEMMA DisjointUnion ==
    ASSUME NEW S, IsFiniteSet(S), NEW T, IsFiniteSet(T), S \cap T = {}
    PROVE  Cardinality(S \cup T) = Cardinality(S) + Cardinality(T)
<1>1. Cardinality(S \cap T) = 0
  BY FS_EmptySet
<1>2. Cardinality(S) \in Nat /\ Cardinality(T) \in Nat
  BY FS_CardinalityType
<1>3. Cardinality(S \cup T) = Cardinality(S) + Cardinality(T) - Cardinality(S \cap T)
  BY FS_Union
<1> QED BY <1>1, <1>2, <1>3

\* A page of m paragraphs has m places.
LEMMA PageIsFinite ==
    ASSUME NEW n, NEW m \in Nat
    PROVE  LET row == {<<n, k>> : k \in 1..m} IN
             IsFiniteSet(row) /\ Cardinality(row) = m
<1> DEFINE row == {<<n, k>> : k \in 1..m}
           f == [k \in 1..m |-> <<n, k>>]
<1>1. f \in Bijection(1..m, row)
  BY DEF Bijection, Injection, Surjection, IsInjective
<1>2. IsFiniteSet(1..m) /\ Cardinality(1..m) = m
  BY FS_Interval
<1> HIDE DEF row, f
<1>3. IsFiniteSet(row) /\ Cardinality(row) = m
  BY <1>1, <1>2, FS_Bijection DEF ExistsBijection
<1> QED BY <1>3 DEF row

\* A document has finitely many paragraphs.
LEMMA TextIsFinite ==
    ASSUME NEW d, entries[d] \in Seq(Blank..MaxParagraphs)
    PROVE  /\ IsFiniteSet(Text(d))
           /\ \A S \in SUBSET Text(d) : IsFiniteSet(S) /\ Cardinality(S) \in Nat
<1> DEFINE all == (1..Len(Pages(d))) \X (0..MaxParagraphs)
<1>1. Text(d) \subseteq all
  <2>1. Pages(d) \in Seq(0..MaxParagraphs) /\ MaxParagraphs \in Nat
    BY TextByPages, BoundsAssumption
  <2> QED BY <2>1, TextByPages
<1>2. IsFiniteSet(all)
  <2>1. Len(Pages(d)) \in Nat /\ MaxParagraphs \in Nat
    BY TextByPages, BoundsAssumption
  <2>2. IsFiniteSet(1..Len(Pages(d))) /\ IsFiniteSet(0..MaxParagraphs)
    BY <2>1, FS_Interval
  <2> QED BY <2>2, FS_Product
<1> HIDE DEF all
<1> QED BY <1>1, <1>2, FS_Subset, FS_CardinalityType

\* Page by page the text grows by the paragraphs of the page, up to all of it.
LEMMA UptoPage ==
    ASSUME NEW d, entries[d] \in Seq(Blank..MaxParagraphs)
    PROVE  /\ Upto(d, 0) = {} /\ Cardinality(Upto(d, 0)) = 0
           /\ Upto(d, Len(Pages(d))) = Text(d)
           /\ \A n \in 0..(Len(Pages(d)) - 1) :
                 /\ Cardinality(Upto(d, n)) \in Nat
                 /\ Pages(d)[n + 1] \in Nat
                 /\ Page(d, n + 1) \subseteq Text(d)
                 /\ Upto(d, n + 1) = Upto(d, n) \cup Page(d, n + 1)
                 /\ Cardinality(Upto(d, n + 1)) = Cardinality(Upto(d, n)) + Pages(d)[n + 1]
<1>1. /\ Pages(d) \in Seq(0..MaxParagraphs)
      /\ \A s : s \in Text(d) <=>
            \E n \in 1..Len(Pages(d)) : \E k \in 1..Pages(d)[n] : s = <<n, k>>
  BY TextByPages
<1>2. Upto(d, 0) = {} /\ Upto(d, Len(Pages(d))) = Text(d)
  BY <1>1 DEF Upto
<1>3. ASSUME NEW n \in 0..(Len(Pages(d)) - 1)
      PROVE  /\ Cardinality(Upto(d, n)) \in Nat
             /\ Pages(d)[n + 1] \in Nat
             /\ Page(d, n + 1) \subseteq Text(d)
             /\ Upto(d, n + 1) = Upto(d, n) \cup Page(d, n + 1)
             /\ Cardinality(Upto(d, n + 1)) = Cardinality(Upto(d, n)) + Pages(d)[n + 1]
  <2>1. n + 1 \in 1..Len(Pages(d)) /\ Pages(d)[n + 1] \in Nat
    BY <1>1, BoundsAssumption
  <2>2. Page(d, n + 1) \subseteq Text(d)
    BY <1>1, <2>1 DEF Page
  <2>3. Upto(d, n + 1) = Upto(d, n) \cup Page(d, n + 1)
    <3>1. ASSUME NEW s \in Upto(d, n + 1), s \notin Upto(d, n) PROVE s \in Page(d, n + 1)
      <4>1. PICK m \in 1..Len(Pages(d)) : \E k \in 1..Pages(d)[m] : s = <<m, k>>
        BY <1>1, <3>1 DEF Upto
      <4>2. m = n + 1
        BY <3>1, <4>1 DEF Upto
      <4> QED BY <4>1, <4>2 DEF Page
    <3>2. ASSUME NEW s \in Upto(d, n) PROVE s \in Upto(d, n + 1)
      <4>1. PICK m \in 1..Len(Pages(d)) : \E k \in 1..Pages(d)[m] : s = <<m, k>>
        BY <1>1, <3>2 DEF Upto
      <4> QED BY <3>2, <4>1 DEF Upto
    <3>3. Page(d, n + 1) \subseteq Upto(d, n + 1)
      BY <2>2 DEF Page, Upto
    <3> QED BY <3>1, <3>2, <3>3
  <2>4. Upto(d, n) \cap Page(d, n + 1) = {}
    BY DEF Upto, Page
  <2>5. IsFiniteSet(Upto(d, n)) /\ Cardinality(Upto(d, n)) \in Nat
    BY TextIsFinite DEF Upto
  <2>6. IsFiniteSet(Page(d, n + 1)) /\ Cardinality(Page(d, n + 1)) = Pages(d)[n + 1]
    BY <2>1, PageIsFinite DEF Page
  <2>7. Cardinality(Upto(d, n + 1)) = Cardinality(Upto(d, n)) + Pages(d)[n + 1]
    BY <2>1, <2>3, <2>4, <2>5, <2>6, DisjointUnion
  <2> QED BY <2>1, <2>2, <2>3, <2>5, <2>7
<1> QED BY <1>2, <1>3, FS_EmptySet

\* Before paragraph k of a page are the pages before it and the k - 1 paragraphs above it.
LEMMA BeforeInPage ==
    ASSUME NEW d, entries[d] \in Seq(Blank..MaxParagraphs),
           NEW n \in 0..(Len(Pages(d)) - 1), NEW k \in 1..Pages(d)[n + 1]
    PROVE  Cardinality({s \in Text(d) : Before(s, <<n + 1, k>>)})
              = Cardinality(Upto(d, n)) + k - 1
<1> DEFINE row == {<<n + 1, j>> : j \in 1..(k - 1)}
<1>1. /\ Pages(d) \in Seq(0..MaxParagraphs)
      /\ \A s : s \in Text(d) <=>
            \E m \in 1..Len(Pages(d)) : \E j \in 1..Pages(d)[m] : s = <<m, j>>
  BY TextByPages
<1>2. n + 1 \in 1..Len(Pages(d)) /\ Pages(d)[n + 1] \in Nat /\ k - 1 \in Nat
  BY <1>1, BoundsAssumption
<1>3. {s \in Text(d) : Before(s, <<n + 1, k>>)} = Upto(d, n) \cup row
  <2>1. ASSUME NEW s \in Text(d), Before(s, <<n + 1, k>>) PROVE s \in Upto(d, n) \cup row
    <3>1. PICK m \in 1..Len(Pages(d)) : \E j \in 1..Pages(d)[m] : s = <<m, j>>
      BY <1>1
    <3>2. CASE m < n + 1
      BY <3>1, <3>2 DEF Upto
    <3>3. CASE m = n + 1
      BY <1>2, <2>1, <3>1, <3>3 DEF Before
    <3> QED BY <2>1, <3>1, <3>2, <3>3 DEF Before
  <2>2. ASSUME NEW s \in Upto(d, n) PROVE s \in Text(d) /\ Before(s, <<n + 1, k>>)
    <3>1. PICK m \in 1..Len(Pages(d)) : \E j \in 1..Pages(d)[m] : s = <<m, j>>
      BY <1>1 DEF Upto
    <3> QED BY <3>1 DEF Upto, Before
  <2>3. ASSUME NEW j \in 1..(k - 1)
        PROVE  <<n + 1, j>> \in Text(d) /\ Before(<<n + 1, j>>, <<n + 1, k>>)
    BY <1>1, <1>2 DEF Before
  <2> QED BY <2>1, <2>2, <2>3 DEF Upto
<1>4. Upto(d, n) \cap row = {}
  BY DEF Upto
<1>5. IsFiniteSet(Upto(d, n)) /\ Cardinality(Upto(d, n)) \in Nat
  BY TextIsFinite DEF Upto
<1>6. IsFiniteSet(row) /\ Cardinality(row) = k - 1
  BY <1>2, PageIsFinite
<1> HIDE DEF row
<1>7. Cardinality(Upto(d, n) \cup row) = Cardinality(Upto(d, n)) + Cardinality(row)
  BY <1>4, <1>5, <1>6, DisjointUnion
<1> QED BY <1>2, <1>3, <1>5, <1>6, <1>7

-----------------------------------------------------------------------------
(***************************************************************************)
(* Which chunks and points there can be at the same time.                  *)
(***************************************************************************)

\* The points of the index, and those that Qdrant may still store.
Sent == points \cup stray

SamePlace(p, q) == p.page = q.page /\ p.paragraph = q.paragraph

Imports(h, p) == doc[h] = p.doc /\ copy[h] = p.copy

Typed ==
    /\ doc \in [Importers -> Docs \cup {NoDoc}]
    /\ copy \in [Importers -> Nat]
    /\ pageIndex \in [Importers -> Nat]
    /\ pc \in [Importers -> {"idle", "chunking", "upserting"}]
    /\ DOMAIN chunks = Importers /\ chunks = [h \in Importers |-> chunks[h]]
    /\ imports \in Nat
    /\ \A h \in Importers : pc[h] = "idle" <=> doc[h] = NoDoc

\* Copies are numbered by import, so no two imports that are under way share one.
Numbered ==
    /\ \A h \in Importers : copy[h] <= imports
    /\ \A g, h \in Importers : g # h /\ doc[g] # NoDoc /\ doc[h] # NoDoc => copy[g] # copy[h]
    /\ \A p \in Sent : p.copy \in Nat /\ p.copy <= imports /\ p.doc # NoDoc

\* The chunks of an import are its own, of the pages it is through with, one per place;
\* until it upserts it has no point, and what it has yet to store is not there.
OwnChunks ==
    \A h \in Importers :
        /\ \A c \in chunks[h] :
              /\ Imports(h, c) /\ doc[h] # NoDoc
              /\ c.page \in Nat /\ c.page <= pageIndex[h]
        /\ \A b, c \in chunks[h] : SamePlace(b, c) => b = c
        /\ \A p \in Sent : pc[h] = "chunking" => p.copy # copy[h]
        /\ \A p \in Sent, c \in chunks[h] : p.copy = c.copy /\ SamePlace(p, c) => p = c

\* A copy has a place once.
OncePerCopy ==
    \A p, q \in Sent : p.copy = q.copy /\ SamePlace(p, q) => p = q

\* A document with points is done, disturbed, or the import of those points goes on.
Accounted ==
    \A p \in Sent :
        \/ p.doc \in disturbed \/ p.doc \in succeeded
        \/ \E h \in Importers : Imports(h, p)

\* Whatever puts a second copy beside a first one has disturbed the document.
Overlaps ==
    /\ \A g, h \in Importers : g # h /\ doc[g] = doc[h] /\ doc[g] # NoDoc => doc[g] \in disturbed
    /\ \A h \in Importers, p \in Sent :
          doc[h] = p.doc /\ doc[h] # NoDoc /\ copy[h] # p.copy => p.doc \in disturbed
    /\ \A p, q \in Sent : p.doc = q.doc /\ p.copy # q.copy => p.doc \in disturbed

\* What may land late belongs to an import that threw, and to none that goes on.
Strays ==
    \A c \in stray :
        /\ c.doc \in disturbed
        /\ \A h \in Importers : doc[h] # NoDoc => copy[h] # c.copy

CopyInv == Typed /\ Numbered /\ OwnChunks /\ OncePerCopy /\ Accounted /\ Overlaps /\ Strays

-----------------------------------------------------------------------------
\* Copies are numbered by import, chunked once a page, and doubled only by a disturbance.
THEOREM CopyInvariance == Spec => []CopyInv
<1>1. Init => CopyInv
  BY DocsAssumption DEF Init, CopyInv, Typed, Numbered, OwnChunks, OncePerCopy, Accounted,
     Overlaps, Strays, Sent
<1>2. CopyInv /\ [Next]_vars => CopyInv'
  <2> SUFFICES ASSUME CopyInv, [Next]_vars PROVE CopyInv'
    OBVIOUS
  <2> USE DEF CopyInv
  <2>1. ASSUME NEW h \in Importers, NEW d \in Docs, BeginImport(h, d) PROVE CopyInv'
    <3> USE DocsAssumption
    <3>0. /\ imports \in Nat /\ imports' = imports + 1 /\ imports' \in Nat
          /\ copy' = [copy EXCEPT ![h] = imports']
          /\ doc' = [doc EXCEPT ![h] = d]
          /\ chunks' = [chunks EXCEPT ![h] = {}]
          /\ pc' = [pc EXCEPT ![h] = "chunking"]
          /\ pageIndex' = [pageIndex EXCEPT ![h] = 0]
          /\ Sent' = Sent /\ stray' = stray /\ succeeded' = succeeded
          /\ disturbed \subseteq disturbed'
          /\ d # NoDoc /\ d \notin succeeded /\ doc[h] = NoDoc
          /\ \A g \in Importers : doc[g] = d => d \in disturbed'
      BY <2>1 DEF BeginImport, Listed, storeVars, Typed, Sent
    <3>1. Typed'
      BY <3>0 DEF Typed
    <3>2. Numbered'
      BY <3>0 DEF Typed, Numbered
    <3>3. OwnChunks'
      <4> SUFFICES ASSUME NEW g \in Importers
                   PROVE /\ \A c \in chunks'[g] :
                               /\ Imports(g, c)' /\ doc'[g] # NoDoc
                               /\ c.page \in Nat /\ c.page <= pageIndex'[g]
                         /\ \A b, c \in chunks'[g] : SamePlace(b, c) => b = c
                         /\ \A p \in Sent' : pc'[g] = "chunking" => p.copy # copy'[g]
                         /\ \A p \in Sent', c \in chunks'[g] :
                               p.copy = c.copy /\ SamePlace(p, c) => p = c
        BY DEF OwnChunks, SamePlace
      <4>1. CASE g = h
        BY <3>0, <4>1 DEF Typed, Numbered
      <4>2. CASE g # h
        BY <3>0, <4>2 DEF Typed, OwnChunks, Imports
      <4> QED BY <4>1, <4>2
    <3>4. OncePerCopy'
      BY <3>0 DEF OncePerCopy, SamePlace
    <3>5. Accounted'
      <4> SUFFICES ASSUME NEW p \in Sent,
                          p.doc \notin disturbed', p.doc \notin succeeded
                   PROVE \E g \in Importers : Imports(g, p)'
        BY <3>0 DEF Accounted
      <4>1. PICK g \in Importers : Imports(g, p)
        BY <3>0 DEF Accounted
      <4>2. CASE g = h
        BY <3>0, <4>1, <4>2 DEF Imports, Numbered
      <4>3. CASE g # h
        BY <3>0, <4>1, <4>3 DEF Imports, Typed
      <4> QED BY <4>2, <4>3
    <3>6. Overlaps'
      BY <3>0 DEF Overlaps, Accounted, Typed, Imports
    <3>7. Strays'
      BY <3>0 DEF Strays, Numbered, Sent, Typed
    <3> QED BY <3>1, <3>2, <3>3, <3>4, <3>5, <3>6, <3>7
  <2>2. ASSUME NEW h \in Importers, ChunkPage(h) PROVE CopyInv'
    <3>0. /\ pc[h] = "chunking" /\ doc[h] # NoDoc
          /\ chunks' = [chunks EXCEPT ![h] = @ \cup PageChunks(h)]
          /\ pageIndex' = [pageIndex EXCEPT ![h] = @ + 1]
          /\ UNCHANGED <<doc, copy, pc, Sent, stray, succeeded, imports, disturbed>>
      BY <2>2 DEF ChunkPage, storeVars, Typed, Sent
    <3>1. Typed'
      <4>1. pageIndex' \in [Importers -> Nat]
        BY <3>0 DEF Typed
      <4>2. DOMAIN chunks' = Importers /\ chunks' = [g \in Importers |-> chunks'[g]]
        BY <3>0 DEF Typed
      <4> QED BY <3>0, <4>1, <4>2 DEF Typed
    <3>2. Numbered'
      BY <3>0 DEF Numbered
    <3>3. OwnChunks'
      <4>1. \A c \in PageChunks(h) : Imports(h, c) /\ c.page = pageIndex[h] + 1
        BY DEF PageChunks, Imports
      <4>2. \A b, c \in PageChunks(h) : SamePlace(b, c) => b = c
        BY DEF PageChunks, SamePlace
      <4>3. /\ pageIndex[h] \in Nat
            /\ pageIndex'[h] = pageIndex[h] + 1
            /\ \A g \in Importers : g # h => pageIndex'[g] = pageIndex[g]
            /\ chunks'[h] = chunks[h] \cup PageChunks(h)
            /\ \A g \in Importers : g # h => chunks'[g] = chunks[g]
        BY <3>0 DEF Typed
      <4> SUFFICES ASSUME NEW g \in Importers
                   PROVE /\ \A c \in chunks'[g] :
                               /\ Imports(g, c)' /\ doc'[g] # NoDoc
                               /\ c.page \in Nat /\ c.page <= pageIndex'[g]
                         /\ \A b, c \in chunks'[g] : SamePlace(b, c) => b = c
                         /\ \A p \in Sent' : pc'[g] = "chunking" => p.copy # copy'[g]
                         /\ \A p \in Sent', c \in chunks'[g] :
                               p.copy = c.copy /\ SamePlace(p, c) => p = c
        BY DEF OwnChunks, SamePlace
      <4>4. CASE g = h
        <5>1. \A c \in chunks'[h] : /\ Imports(h, c)' /\ doc'[h] # NoDoc
                                    /\ c.page \in Nat /\ c.page <= pageIndex'[h]
          BY <3>0, <4>1, <4>3 DEF OwnChunks, Imports
        <5>2. \A b, c \in chunks'[h] : SamePlace(b, c) => b = c
          BY <4>1, <4>2, <4>3 DEF OwnChunks, SamePlace
        <5>3. \A p \in Sent' : p.copy # copy'[h]
          BY <3>0 DEF OwnChunks
        <5> QED BY <4>4, <5>1, <5>2, <5>3 DEF Imports
      <4>5. CASE g # h
        BY <3>0, <4>3, <4>5 DEF OwnChunks, Imports
      <4> QED BY <4>4, <4>5
    <3>4. OncePerCopy' /\ Accounted' /\ Overlaps' /\ Strays'
      BY <3>0 DEF OncePerCopy, Accounted, Overlaps, Strays, SamePlace, Imports
    <3> QED BY <3>1, <3>2, <3>3, <3>4
  <2>3. ASSUME NEW h \in Importers, Upsert(h) PROVE CopyInv'
    <3>0. /\ pc[h] = "chunking" /\ pc' = [pc EXCEPT ![h] = "upserting"]
          /\ UNCHANGED <<doc, copy, pageIndex, chunks, Sent, stray, succeeded, imports, disturbed>>
      BY <2>3 DEF Upsert, storeVars, Sent
    <3>1. Typed'
      BY <3>0 DEF Typed
    <3>2. Numbered' /\ OncePerCopy' /\ Accounted' /\ Overlaps' /\ Strays'
      BY <3>0 DEF Numbered, OncePerCopy, Accounted, Overlaps, Strays, SamePlace, Imports
    <3>3. OwnChunks'
      BY <3>0 DEF Typed, OwnChunks, SamePlace, Imports
    <3> QED BY <3>1, <3>2, <3>3
  <2>4. ASSUME NEW h \in Importers, Land(h) PROVE CopyInv'
    <3>0. PICK c \in chunks[h] :
             /\ Sent' = Sent \cup {c}
             /\ chunks' = [chunks EXCEPT ![h] = @ \ {c}]
             /\ pc[h] = "upserting"
             /\ UNCHANGED <<doc, copy, pageIndex, pc, stray, succeeded, imports, disturbed>>
      BY <2>4 DEF Land, Sent
    <3>1. /\ Imports(h, c) /\ doc[h] # NoDoc
          /\ \A b \in chunks[h] : SamePlace(b, c) => b = c
          /\ \A p \in Sent : p.copy = c.copy /\ SamePlace(p, c) => p = c
      BY DEF OwnChunks, SamePlace
    <3>2. Typed'
      BY <3>0 DEF Typed
    <3>3. Numbered'
      BY <3>0, <3>1 DEF Typed, Numbered, Imports
    <3>4. OwnChunks'
      <4>1. \A g \in Importers : chunks'[g] \subseteq chunks[g]
        BY <3>0 DEF Typed
      <4>2. \A g \in Importers : g # h /\ doc[g] # NoDoc => copy[g] # c.copy
        BY <3>1 DEF Numbered, Imports
      <4>3. ASSUME NEW g \in Importers
            PROVE  \A p \in Sent' : pc'[g] = "chunking" => p.copy # copy'[g]
        BY <3>0, <3>1, <4>2 DEF OwnChunks, Typed
      <4>4. ASSUME NEW g \in Importers
            PROVE  \A p \in Sent', b \in chunks'[g] :
                      p.copy = b.copy /\ SamePlace(p, b) => p = b
        <5> SUFFICES ASSUME NEW b \in chunks'[g], c.copy = b.copy, SamePlace(c, b)
                     PROVE  c = b
          BY <3>0, <4>1 DEF OwnChunks
        <5>1. b \in chunks[g] /\ doc[g] # NoDoc /\ copy[g] = c.copy
          BY <4>1 DEF OwnChunks, Imports
        <5>2. g = h
          BY <4>2, <5>1
        <5> QED BY <3>1, <5>1, <5>2 DEF SamePlace
      <4> QED BY <3>0, <4>1, <4>3, <4>4 DEF OwnChunks, SamePlace, Imports
    <3>5. OncePerCopy'
      BY <3>0, <3>1 DEF OncePerCopy, SamePlace
    <3>6. Accounted'
      BY <3>0, <3>1 DEF Accounted, Imports
    <3>7. Overlaps'
      <4>1. \A g \in Importers : doc[g] = c.doc /\ copy[g] # c.copy => c.doc \in disturbed
        BY <3>1 DEF Overlaps, Imports
      <4>2. \A p \in Sent : p.doc = c.doc /\ p.copy # c.copy => c.doc \in disturbed
        BY <3>1 DEF Overlaps, Imports
      <4> QED BY <3>0, <4>1, <4>2 DEF Overlaps
    <3>8. Strays'
      BY <3>0 DEF Strays
    <3> QED BY <3>2, <3>3, <3>4, <3>5, <3>6, <3>7, <3>8
  <2>5. ASSUME NEW h \in Importers, LeaveImport(h), UNCHANGED <<copy, pageIndex, imports>>,
               disturbed \subseteq disturbed', succeeded \subseteq succeeded',
               doc[h] \in succeeded' \cup disturbed', doc[h] # NoDoc,
               \/ UNCHANGED <<Sent, stray>>
               \/ /\ doc[h] \in disturbed'
                  /\ Sent \subseteq Sent' /\ Sent' \subseteq Sent \cup chunks[h]
                  /\ stray' \subseteq stray \cup chunks[h]
        PROVE  CopyInv'
    <3>1. /\ doc' = [doc EXCEPT ![h] = NoDoc]
          /\ chunks' = [chunks EXCEPT ![h] = {}]
          /\ pc' = [pc EXCEPT ![h] = "idle"]
          /\ doc'[h] = NoDoc /\ chunks'[h] = {} /\ pc'[h] = "idle"
          /\ \A g \in Importers : g # h =>
                doc'[g] = doc[g] /\ chunks'[g] = chunks[g] /\ pc'[g] = pc[g]
      BY <2>5 DEF LeaveImport, Typed
    <3>2. Typed'
      BY <2>5, <3>1 DEF Typed
    <3>a. \A c \in chunks[h] : c.doc = doc[h] /\ c.copy = copy[h]
      BY DEF OwnChunks, Imports
    <3>b. \A g \in Importers : g # h /\ doc[g] # NoDoc => copy[g] # copy[h]
      BY <2>5 DEF Numbered
    <3>c. \A p \in Sent' : p \in Sent \/ (p \in chunks[h] /\ doc[h] \in disturbed')
      BY <2>5
    <3>3. Numbered'
      BY <2>5, <3>1, <3>a, <3>c DEF Typed, Numbered
    <3>4. OwnChunks'
      <4> SUFFICES ASSUME NEW g \in Importers, g # h
                   PROVE /\ \A c \in chunks[g] :
                               /\ Imports(g, c)' /\ doc'[g] # NoDoc
                               /\ c.page \in Nat /\ c.page <= pageIndex'[g]
                         /\ \A b, c \in chunks[g] : SamePlace(b, c) => b = c
                         /\ \A p \in Sent' : pc'[g] = "chunking" => p.copy # copy'[g]
                         /\ \A p \in Sent', c \in chunks[g] :
                               p.copy = c.copy /\ SamePlace(p, c) => p = c
        BY <3>1 DEF OwnChunks, SamePlace
      <4>1. \A c \in chunks[g] : c.copy = copy[g] /\ doc[g] # NoDoc
        BY DEF OwnChunks, Imports
      <4>2. pc[g] = "chunking" => doc[g] # NoDoc
        BY DEF Typed
      <4>3. \A p \in Sent' : pc'[g] = "chunking" => p.copy # copy'[g]
        BY <2>5, <3>1, <3>a, <3>b, <3>c, <4>2 DEF OwnChunks
      <4>4. \A p \in Sent', c \in chunks[g] : p.copy = c.copy /\ SamePlace(p, c) => p = c
        BY <3>a, <3>b, <3>c, <4>1 DEF OwnChunks
      <4> QED BY <2>5, <3>1, <4>3, <4>4 DEF OwnChunks, SamePlace, Imports
    <3>5. OncePerCopy'
      <4>1. \A p \in Sent, c \in chunks[h] : p.copy = c.copy /\ SamePlace(p, c) => p = c
        BY DEF OwnChunks
      <4>2. \A p, q \in chunks[h] : SamePlace(p, q) => p = q
        BY DEF OwnChunks
      <4>3. \A p, q : SamePlace(p, q) <=> SamePlace(q, p)
        BY DEF SamePlace
      <4>4. \A p, q \in Sent' : p.copy = q.copy /\ SamePlace(p, q) => p = q
        BY <3>c, <4>1, <4>2, <4>3 DEF OncePerCopy
      <4> QED BY <4>4 DEF OncePerCopy, SamePlace
    <3>6. Accounted'
      <4> SUFFICES ASSUME NEW p \in Sent', p.doc \notin disturbed', p.doc \notin succeeded'
                   PROVE  \E g \in Importers : Imports(g, p)'
        BY DEF Accounted
      <4>1. p \in Sent
        BY <3>a, <3>c
      <4>2. PICK g \in Importers : Imports(g, p)
        BY <2>5, <4>1 DEF Accounted
      <4>3. g # h
        BY <2>5, <4>2 DEF Imports
      <4> QED BY <2>5, <3>1, <4>2, <4>3 DEF Imports
    <3>7. Overlaps'
      <4>1. \A f, g \in Importers :
               f # g /\ doc'[f] = doc'[g] /\ doc'[f] # NoDoc => doc'[f] \in disturbed'
        BY <2>5, <3>1 DEF Overlaps
      <4>2. \A p \in Sent' : p \notin Sent => p.doc \in disturbed'
        BY <3>a, <3>c
      <4>3. \A g \in Importers, p \in Sent' :
               doc'[g] = p.doc /\ doc'[g] # NoDoc /\ copy'[g] # p.copy => p.doc \in disturbed'
        BY <2>5, <3>1, <4>2 DEF Overlaps
      <4>4. \A p, q \in Sent' : p.doc = q.doc /\ p.copy # q.copy => p.doc \in disturbed'
        BY <2>5, <4>2 DEF Overlaps
      <4> QED BY <4>1, <4>3, <4>4 DEF Overlaps
    <3>8. Strays'
      <4>1. \A c \in stray' : c \in stray \/ (c \in chunks[h] /\ doc[h] \in disturbed')
        BY <2>5
      <4> QED BY <2>5, <3>1, <3>a, <3>b, <4>1 DEF Strays
    <3> QED BY <3>2, <3>3, <3>4, <3>5, <3>6, <3>7, <3>8
  <2>6. ASSUME NEW h \in Importers, FinishImport(h) PROVE CopyInv'
    BY <2>5, <2>6 DEF FinishImport, Sent, Typed
  <2>7. ASSUME NEW h \in Importers, ImportThrows(h) PROVE CopyInv'
    <3>1. /\ Sent \subseteq Sent' /\ Sent' \subseteq Sent \cup chunks[h]
          /\ stray' \subseteq stray \cup chunks[h]
      BY <2>7 DEF ImportThrows, Sent
    <3>2. doc[h] # NoDoc /\ doc[h] \in disturbed'
      BY <2>7 DEF ImportThrows, Typed
    <3> QED BY <2>5, <2>7, <3>1, <3>2 DEF ImportThrows
  <2>9. ASSUME UNCHANGED <<doc, copy, pageIndex, chunks, pc, Sent, succeeded, imports, disturbed>>,
               stray' \subseteq stray
        PROVE  CopyInv'
    BY <2>9 DEF Typed, Numbered, OwnChunks, OncePerCopy, Accounted, Overlaps, Strays, SamePlace,
       Imports
  <2>10. CASE LandStray
    BY <2>9, <2>10 DEF LandStray, importVars, Sent
  <2>8. CASE UNCHANGED vars
    BY <2>8, <2>9 DEF vars, importVars, storeVars, Sent
  <2> QED BY <2>1, <2>2, <2>3, <2>4, <2>6, <2>7, <2>8, <2>10 DEF Next, Import
<1> QED BY <1>1, <1>2, PTL DEF Spec

\* A search answers with points of the index, and of the documents it was asked for.
LEMMA SearchReturnsPoints ==
    ASSUME NEW D, NEW R \in SearchVectorStore(D)
    PROVE  R \subseteq points /\ \A p \in R : D # {} => p.doc \in D
BY DEF SearchVectorStore, BestOf, Matching

\* An answer repeats a paragraph only if an import of its document threw or two of them
\* ran at once, whatever is searched and however many points a search returns.
THEOREM Repeats == Spec => []RepeatsAreDisturbed
<1>1. CopyInv => RepeatsAreDisturbed
  <2> SUFFICES ASSUME CopyInv, NEW D \in SUBSET Docs, NEW R \in SearchVectorStore(D),
                      NEW p \in R, NEW q \in R, p # q, p.doc = q.doc, SamePlace(p, q)
               PROVE  p.doc \in disturbed
    BY DEF RepeatsAreDisturbed, SamePlace
  <2>1. p \in Sent /\ q \in Sent
    BY SearchReturnsPoints DEF Sent
  <2>2. p.copy # q.copy
    BY <2>1 DEF CopyInv, OncePerCopy
  <2> QED BY <2>1, <2>2 DEF CopyInv, Overlaps
<1> QED BY <1>1, CopyInvariance, PTL

-----------------------------------------------------------------------------
(***************************************************************************)
(* Which text is stored when.                                              *)
(***************************************************************************)

\* Where a chunk comes from.
Place(p) == <<p.page, p.paragraph>>

\* p is a paragraph of its document and its number counts those before it.
InOrder(p) ==
    /\ Place(p) \in Text(p.doc)
    /\ p.index = Cardinality({s \in Text(p.doc) : Before(s, Place(p))})

\* An import has numbered and made chunks of the pages it is through with, all of them
\* once it upserts; what is not a chunk any more is in the index.
Going(h) ==
    /\ pageIndex[h] <= Len(Pages(doc[h]))
    /\ pc[h] = "upserting" => pageIndex[h] = Len(Pages(doc[h]))
    /\ bookIndex[h] = Cardinality(Upto(doc[h], pageIndex[h]))
    /\ {Place(c) : c \in chunks[h]} \cup Stored(doc[h], copy[h]) = Upto(doc[h], pageIndex[h])
    /\ copy[h] > 0

Progress == \A h \in Importers : doc[h] # NoDoc => Going(h)

\* Chunks are numbered right from the start, so points are.
Numbering ==
    /\ \A h \in Importers : \A c \in chunks[h] : InOrder(c)
    /\ \A p \in Sent : InOrder(p)

\* A document imported undisturbed is there as a whole, and nobody imports it.
Done ==
    \A d \in succeeded \ disturbed :
        /\ \A h \in Importers : doc[h] # d
        /\ Text(d) \subseteq {Place(p) : p \in {q \in points : q.doc = d}}

StoreInv == TypeOK /\ Progress /\ Numbering /\ PartsAreDisturbed /\ Done

\* The text of a document does not change with the rest of the state.
LEMMA SameText ==
    ASSUME UNCHANGED entries
    PROVE  /\ \A d : Text(d)' = Text(d) /\ Pages(d)' = Pages(d)
           /\ \A d, n : Upto(d, n)' = Upto(d, n)
           /\ \A p : InOrder(p)' <=> InOrder(p)
<1>1. \A d, i : PageOf(d, i)' = PageOf(d, i)
  BY DEF PageOf
<1>2. \A d : Text(d)' = Text(d) /\ Pages(d)' = Pages(d)
  BY <1>1 DEF Text, Pages
<1> QED BY <1>2 DEF Upto, InOrder, Place, Before

\* A turn of the loop makes the chunks of the next page, numbered on.
LEMMA PageIsChunked ==
    ASSUME TypeOK, CopyInv, Progress, NEW h \in Importers, pc[h] = "chunking",
           pageIndex[h] < Len(Pages(doc[h]))
    PROVE  /\ PageChunks(h) \subseteq Chunks
           /\ {Place(c) : c \in PageChunks(h)} = Page(doc[h], pageIndex[h] + 1)
           /\ Cardinality(PageChunks(h)) = Pages(doc[h])[pageIndex[h] + 1]
           /\ \A c \in PageChunks(h) : InOrder(c)
<1> DEFINE d == doc[h]
           n == pageIndex[h]
           m == Pages(d)[n + 1]
           chunk(k) == [doc |-> d, copy |-> copy[h], page |-> n + 1,
                        index |-> bookIndex[h] + k - 1, paragraph |-> k]
<1>1. /\ d \in Docs /\ n \in Nat /\ copy[h] \in Nat /\ bookIndex[h] \in Nat
      /\ entries[d] \in Seq(Blank..MaxParagraphs)
      /\ bookIndex[h] = Cardinality(Upto(d, n))
  BY DEF TypeOK, CopyInv, Typed, Progress, Going
<1>2. Pages(d) \in Seq(0..MaxParagraphs) /\ n \in 0..(Len(Pages(d)) - 1)
  BY <1>1, TextByPages
<1>3. m \in Nat /\ Page(d, n + 1) \subseteq Text(d)
  BY <1>1, <1>2, UptoPage
<1>4. PageChunks(h) = {chunk(k) : k \in 1..m}
  BY DEF PageChunks
<1> HIDE DEF d, n, m
<1>5. PageChunks(h) \subseteq Chunks
  BY <1>1, <1>3, <1>4 DEF Chunks
<1>6. {Place(c) : c \in PageChunks(h)} = Page(d, n + 1)
  <2>1. \A k : Place(chunk(k)) = <<n + 1, k>>
    BY DEF Place
  <2>2. Page(d, n + 1) = {<<n + 1, k>> : k \in 1..m}
    BY DEF Page, m
  <2> HIDE DEF chunk
  <2> QED BY <1>4, <2>1, <2>2
<1>7. Cardinality(PageChunks(h)) = m
  <2> DEFINE f == [k \in 1..m |-> chunk(k)]
  <2>1. f \in Bijection(1..m, {chunk(k) : k \in 1..m})
    BY DEF Bijection, Injection, Surjection, IsInjective
  <2>2. ExistsBijection(1..m, PageChunks(h))
    BY <1>4, <2>1, Zenon DEF ExistsBijection
  <2>3. IsFiniteSet(1..m) /\ Cardinality(1..m) = m
    BY <1>3, FS_Interval
  <2> QED BY <2>2, <2>3, FS_Bijection
<1>8. ASSUME NEW k \in 1..m PROVE InOrder(chunk(k))
  <2>1. <<n + 1, k>> \in Text(d)
    BY <1>3 DEF Page, m
  <2>2. Cardinality({s \in Text(d) : Before(s, <<n + 1, k>>)}) = bookIndex[h] + k - 1
    BY <1>1, <1>2, BeforeInPage DEF m
  <2> QED BY <2>1, <2>2 DEF InOrder, Place
<1> QED BY <1>4, <1>5, <1>6, <1>7, <1>8 DEF d, n, m

\* StoreInv holds at the start, when there is only the text.
LEMMA InitStore == Init => StoreInv
<1> SUFFICES ASSUME Init PROVE StoreInv
  OBVIOUS
<1>1. entries \in [Docs -> Seq(Blank..MaxParagraphs)]
  <2>1. \A n \in Nat : [1..n -> Blank..MaxParagraphs] \subseteq Seq(Blank..MaxParagraphs)
    BY SeqDef
  <2>2. UNION {[1..n -> Blank..MaxParagraphs] : n \in 0..MaxEntries}
           \subseteq Seq(Blank..MaxParagraphs)
    BY <2>1, BoundsAssumption
  <2> QED BY <2>2 DEF Init
<1> QED BY <1>1, BoundsAssumption
        DEF Init, StoreInv, TypeOK, Progress, Numbering, PartsAreDisturbed, Done, Sent

\* The start of an import.
LEMMA BeginStore ==
    ASSUME StoreInv, CopyInv, NEW h \in Importers, NEW d \in Docs, BeginImport(h, d)
    PROVE  StoreInv'
<1> USE DocsAssumption DEF StoreInv
<1>0. /\ pc[h] = "idle" /\ doc[h] = NoDoc /\ d # NoDoc /\ d \notin succeeded
      /\ imports \in Nat /\ imports' = imports + 1 /\ imports' \in Nat
      /\ doc' = [doc EXCEPT ![h] = d]
      /\ copy' = [copy EXCEPT ![h] = imports']
      /\ pageIndex' = [pageIndex EXCEPT ![h] = 0]
      /\ bookIndex' = [bookIndex EXCEPT ![h] = 0]
      /\ chunks' = [chunks EXCEPT ![h] = {}]
      /\ pc' = [pc EXCEPT ![h] = "chunking"]
      /\ UNCHANGED <<entries, points, stray, Sent, succeeded, failures>>
      /\ disturbed \subseteq disturbed' /\ disturbed' \subseteq Docs
  BY DEF BeginImport, Listed, storeVars, CopyInv, Typed, TypeOK, Sent
<1>1. TypeOK'
  BY <1>0 DEF TypeOK, CopyInv, Typed
<1>2. Progress'
  <2> SUFFICES ASSUME NEW g \in Importers, doc'[g] # NoDoc
               PROVE  Going(g)'
    BY DEF Progress
  <2>1. \A e, c : Stored(e, c)' = Stored(e, c)
    BY <1>0 DEF Stored
  <2>2. CASE g = h
    <3>1. doc'[h] = d /\ copy'[h] = imports + 1 /\ pageIndex'[h] = 0 /\ bookIndex'[h] = 0
          /\ chunks'[h] = {} /\ pc'[h] = "chunking"
      BY <1>0 DEF TypeOK, CopyInv, Typed
    <3>2. Stored(d, imports + 1) = {}
      BY <1>0 DEF Stored, CopyInv, Numbered, Sent
    <3>3. Upto(d, 0) = {} /\ Cardinality(Upto(d, 0)) = 0 /\ Pages(d) \in Seq(0..MaxParagraphs)
      BY UptoPage, TextByPages DEF TypeOK
    <3> QED BY <1>0, <2>1, <2>2, <3>1, <3>2, <3>3, SameText DEF Going, Place
  <2>3. CASE g # h
    <3>1. /\ doc'[g] = doc[g] /\ copy'[g] = copy[g] /\ pageIndex'[g] = pageIndex[g]
          /\ bookIndex'[g] = bookIndex[g] /\ chunks'[g] = chunks[g] /\ pc'[g] = pc[g]
      BY <1>0, <2>3 DEF TypeOK, CopyInv, Typed
    <3>2. Going(g)
      BY <3>1 DEF Progress
    <3>3. Going(g)' <=> Going(g)
      BY <1>0, <2>1, <3>1, SameText DEF Going, Place
    <3> QED BY <3>2, <3>3
  <2> QED BY <2>2, <2>3
<1>3. Numbering'
  BY <1>0, SameText DEF Numbering, CopyInv, Typed
<1>4. PartsAreDisturbed'
  <2> SUFFICES ASSUME NEW p \in points, p.doc \notin disturbed',
                      Stored(p.doc, p.copy)' # Text(p.doc)'
               PROVE  \E g \in Importers : doc'[g] = p.doc /\ copy'[g] = p.copy
    BY <1>0 DEF PartsAreDisturbed
  <2>1. PICK g \in Importers : doc[g] = p.doc /\ copy[g] = p.copy
    BY <1>0, SameText DEF PartsAreDisturbed, Stored
  <2>2. g # h
    BY <1>0, <2>1 DEF CopyInv, Numbered, Sent
  <2> QED BY <1>0, <2>1, <2>2 DEF CopyInv, Typed
<1>5. Done'
  BY <1>0, SameText DEF Done, Place, CopyInv, Typed
<1> QED BY <1>1, <1>2, <1>3, <1>4, <1>5

\* A turn of the loop.
LEMMA ChunkStore ==
    ASSUME StoreInv, CopyInv, NEW h \in Importers, ChunkPage(h)
    PROVE  StoreInv'
<1> USE DocsAssumption DEF StoreInv
<1> DEFINE d == doc[h]
           n == pageIndex[h]
<1>0. /\ pc[h] = "chunking" /\ d \in Docs /\ d # NoDoc /\ n \in Nat /\ n < Len(Pages(d))
      /\ chunks' = [chunks EXCEPT ![h] = @ \cup PageChunks(h)]
      /\ bookIndex' = [bookIndex EXCEPT ![h] = @ + Cardinality(PageChunks(h))]
      /\ pageIndex' = [pageIndex EXCEPT ![h] = @ + 1]
      /\ UNCHANGED <<entries, doc, copy, pc, points, stray, Sent, succeeded, imports, failures,
                     disturbed>>
  BY DEF ChunkPage, storeVars, CopyInv, Typed, TypeOK, Sent
<1>a. /\ PageChunks(h) \subseteq Chunks
      /\ {Place(c) : c \in PageChunks(h)} = Page(d, n + 1)
      /\ Cardinality(PageChunks(h)) = Pages(d)[n + 1]
      /\ \A c \in PageChunks(h) : InOrder(c)
  BY <1>0, PageIsChunked
<1>b. /\ n \in 0..(Len(Pages(d)) - 1) /\ Len(Pages(d)) \in Nat
      /\ Pages(d)[n + 1] \in Nat
      /\ Upto(d, n + 1) = Upto(d, n) \cup Page(d, n + 1)
      /\ Cardinality(Upto(d, n + 1)) = Cardinality(Upto(d, n)) + Pages(d)[n + 1]
  <2>1. entries[d] \in Seq(Blank..MaxParagraphs)
    BY <1>0 DEF TypeOK
  <2>2. n \in 0..(Len(Pages(d)) - 1) /\ Len(Pages(d)) \in Nat
    BY <1>0, <2>1, TextByPages
  <2> HIDE DEF d, n
  <2> QED BY <2>1, <2>2, UptoPage
<1>c. /\ pageIndex'[h] = n + 1
      /\ bookIndex'[h] = bookIndex[h] + Pages(d)[n + 1]
      /\ chunks'[h] = chunks[h] \cup PageChunks(h)
      /\ \A g \in Importers : g # h => /\ pageIndex'[g] = pageIndex[g]
                                       /\ bookIndex'[g] = bookIndex[g]
                                       /\ chunks'[g] = chunks[g]
  BY <1>0, <1>a DEF TypeOK, CopyInv, Typed
<1> HIDE DEF d, n
<1>1. TypeOK'
  <2>1. pageIndex' \in [Importers -> Nat]
    BY <1>0 DEF TypeOK
  <2>2. bookIndex' \in [Importers -> Nat]
    BY <1>0, <1>a, <1>b DEF TypeOK
  <2>3. \A g \in Importers : chunks'[g] \subseteq Chunks
    BY <1>a, <1>c DEF TypeOK
  <2> QED BY <1>0, <2>1, <2>2, <2>3 DEF TypeOK
<1>2. Progress'
  <2> SUFFICES ASSUME NEW g \in Importers, doc'[g] # NoDoc
               PROVE  Going(g)'
    BY DEF Progress
  <2>1. \A e, c : Stored(e, c)' = Stored(e, c)
    BY <1>0 DEF Stored
  <2>2. CASE g = h
    <3>1. /\ bookIndex[h] = Cardinality(Upto(d, n))
          /\ {Place(c) : c \in chunks[h]} \cup Stored(d, copy[h]) = Upto(d, n)
          /\ copy[h] > 0
      BY <1>0 DEF Progress, Going, d, n
    <3>2. {Place(c) : c \in chunks'[h]} \cup Stored(d, copy[h]) = Upto(d, n + 1)
      BY <1>a, <1>b, <1>c, <3>1
    <3>3. bookIndex'[h] = Cardinality(Upto(d, n + 1))
      BY <1>b, <1>c, <3>1
    <3>4. doc'[h] = d /\ copy'[h] = copy[h] /\ pc'[h] = "chunking" /\ pageIndex'[h] <= Len(Pages(d))
      BY <1>0, <1>b, <1>c DEF d
    <3> QED BY <1>0, <1>c, <2>1, <2>2, <3>1, <3>2, <3>3, <3>4, SameText DEF Going, Place
  <2>3. CASE g # h
    BY <1>0, <1>c, <2>1, <2>3, SameText DEF Progress, Going, Place
  <2> QED BY <2>2, <2>3
<1>3. Numbering'
  BY <1>0, <1>a, <1>c, SameText DEF Numbering
<1>4. PartsAreDisturbed' /\ Done'
  BY <1>0, SameText DEF PartsAreDisturbed, Done, Stored, Place
<1> QED BY <1>1, <1>2, <1>3, <1>4

\* The end of the loop.
LEMMA UpsertStore ==
    ASSUME StoreInv, CopyInv, NEW h \in Importers, Upsert(h)
    PROVE  StoreInv'
<1> USE DEF StoreInv
<1>0. /\ pc[h] = "chunking" /\ pageIndex[h] = Len(Pages(doc[h]))
      /\ pc' = [pc EXCEPT ![h] = "upserting"]
      /\ UNCHANGED <<entries, doc, copy, pageIndex, bookIndex, chunks, points, stray, Sent,
                     succeeded, imports, failures, disturbed>>
  BY DEF Upsert, storeVars, Sent
<1>1. TypeOK'
  BY <1>0 DEF TypeOK
<1>2. Progress'
  <2>1. \A e, c : Stored(e, c)' = Stored(e, c)
    BY <1>0 DEF Stored
  <2>2. \A g \in Importers : pc'[g] = "upserting" => pc[g] = "upserting" \/ g = h
    BY <1>0 DEF CopyInv, Typed
  <2> QED BY <1>0, <2>1, <2>2, SameText DEF Progress, Going, Place
<1>3. Numbering' /\ PartsAreDisturbed' /\ Done'
  BY <1>0, SameText DEF Numbering, PartsAreDisturbed, Done, Stored, Place
<1> QED BY <1>1, <1>2, <1>3

\* A point lands.
LEMMA Landed ==
    ASSUME StoreInv, CopyInv, NEW h \in Importers, Land(h)
    PROVE  \E c \in chunks[h] :
             /\ pc[h] = "upserting" /\ doc[h] # NoDoc /\ doc[h] \in Docs
             /\ points' = points \cup {c}
             /\ chunks'[h] = chunks[h] \ {c}
             /\ \A g \in Importers : g # h => chunks'[g] = chunks[g]
             /\ c \in Chunks /\ c.doc = doc[h] /\ c.copy = copy[h]
             /\ InOrder(c)
             /\ Stored(doc[h], copy[h])' = Stored(doc[h], copy[h]) \cup {Place(c)}
             /\ \A e, x : e # doc[h] \/ x # copy[h] => Stored(e, x)' = Stored(e, x)
             /\ c \in points \/ Place(c) \notin Stored(doc[h], copy[h])
<1> USE DEF StoreInv
<1>0. PICK c \in chunks[h] :
         /\ points' = points \cup {c}
         /\ chunks' = [chunks EXCEPT ![h] = @ \ {c}]
         /\ pc[h] = "upserting"
         /\ UNCHANGED <<doc, copy>>
  BY DEF Land
<1>1. /\ Imports(h, c) /\ doc[h] # NoDoc /\ doc[h] \in Docs /\ c \in Chunks
      /\ \A p \in points : p.copy = c.copy /\ SamePlace(p, c) => p = c
  BY DEF CopyInv, OwnChunks, TypeOK, SamePlace, Sent
<1>2. /\ chunks'[h] = chunks[h] \ {c}
      /\ \A g \in Importers : g # h => chunks'[g] = chunks[g]
  BY <1>0 DEF CopyInv, Typed
<1>3. Stored(doc[h], copy[h])' = Stored(doc[h], copy[h]) \cup {Place(c)}
  BY <1>0, <1>1 DEF Stored, Place, Imports
<1>4. \A e, x : e # doc[h] \/ x # copy[h] => Stored(e, x)' = Stored(e, x)
  BY <1>0, <1>1 DEF Stored, Imports
<1>5. c \in points \/ Place(c) \notin Stored(doc[h], copy[h])
  BY <1>1 DEF Stored, Place, Imports, SamePlace
<1> QED BY <1>0, <1>1, <1>2, <1>3, <1>4, <1>5 DEF Imports, Numbering

\* A landed point turns a chunk into text that is stored.
LEMMA LandStore ==
    ASSUME StoreInv, CopyInv, NEW h \in Importers, Land(h)
    PROVE  StoreInv'
<1> USE DocsAssumption DEF StoreInv
<1>0. UNCHANGED <<entries, doc, copy, pageIndex, bookIndex, pc, stray, succeeded, imports,
                  failures, disturbed>>
  BY DEF Land
<1>a. PICK c \in chunks[h] :
             /\ pc[h] = "upserting" /\ doc[h] # NoDoc /\ doc[h] \in Docs
             /\ points' = points \cup {c}
             /\ chunks'[h] = chunks[h] \ {c}
             /\ \A g \in Importers : g # h => chunks'[g] = chunks[g]
             /\ c \in Chunks /\ c.doc = doc[h] /\ c.copy = copy[h]
             /\ InOrder(c)
             /\ Stored(doc[h], copy[h])' = Stored(doc[h], copy[h]) \cup {Place(c)}
             /\ \A e, x : e # doc[h] \/ x # copy[h] => Stored(e, x)' = Stored(e, x)
  BY Landed
<1>1. TypeOK'
  BY <1>0, <1>a DEF TypeOK
<1>2. Progress'
  <2> SUFFICES ASSUME NEW g \in Importers, doc[g] # NoDoc, Going(g)
               PROVE  Going(g)'
    BY <1>0 DEF Progress
  <2>1. CASE g = h
    <3>1. Stored(doc[g], copy[g])' = Stored(doc[g], copy[g]) \cup {Place(c)}
      BY <1>a, <2>1
    <3>2. {Place(b) : b \in chunks[g]} \cup Stored(doc[g], copy[g])
            = {Place(b) : b \in chunks'[g]} \cup (Stored(doc[g], copy[g]) \cup {Place(c)})
      BY <1>a, <2>1
    <3> QED BY <1>0, <3>1, <3>2, SameText DEF Going, Place
  <2>2. CASE g # h
    <3>1. copy[g] # copy[h]
      BY <1>a, <2>2 DEF CopyInv, Numbered
    <3>2. Stored(doc[g], copy[g])' = Stored(doc[g], copy[g]) /\ chunks'[g] = chunks[g]
      BY <1>0, <1>a, <2>2, <3>1
    <3> QED BY <1>0, <3>2, SameText DEF Going, Place
  <2> QED BY <2>1, <2>2
<1>3. Numbering'
  BY <1>0, <1>a, SameText DEF Numbering, Sent
<1>4. PartsAreDisturbed'
  <2> SUFFICES ASSUME NEW p \in points', p.doc \notin disturbed,
                      p.doc # doc[h] \/ p.copy # copy[h]
               PROVE  \/ Stored(p.doc, p.copy)' = Text(p.doc)'
                      \/ \E g \in Importers : doc'[g] = p.doc /\ copy'[g] = p.copy
    BY <1>0 DEF PartsAreDisturbed
  <2>1. p \in points /\ Stored(p.doc, p.copy)' = Stored(p.doc, p.copy)
    BY <1>a
  <2> QED BY <1>0, <2>1, SameText DEF PartsAreDisturbed
<1>5. Done'
  BY <1>0, <1>a, SameText DEF Done, Place
<1> QED BY <1>1, <1>2, <1>3, <1>4, <1>5

\* A stray point lands beside the copies of the imports that go on.
LEMMA StrayStore ==
    ASSUME StoreInv, CopyInv, LandStray
    PROVE  StoreInv'
<1> USE DocsAssumption DEF StoreInv
<1>0. UNCHANGED <<entries, doc, copy, pageIndex, bookIndex, chunks, pc, succeeded, imports,
                  failures, disturbed>>
  BY DEF LandStray, importVars
<1>a. PICK c \in stray : points' = points \cup {c} /\ stray' = stray \ {c}
  BY DEF LandStray
<1>b. /\ c \in Chunks /\ c.doc \in disturbed /\ Sent' = Sent
      /\ \A g \in Importers : doc[g] # NoDoc => copy[g] # c.copy
  BY <1>a DEF TypeOK, CopyInv, Strays, Sent
<1>c. \A e, x : e # c.doc \/ x # c.copy => Stored(e, x)' = Stored(e, x)
  BY <1>a DEF Stored
<1>1. TypeOK'
  BY <1>0, <1>a, <1>b DEF TypeOK
<1>2. Progress'
  <2> SUFFICES ASSUME NEW g \in Importers, doc[g] # NoDoc, Going(g)
               PROVE  Going(g)'
    BY <1>0 DEF Progress
  <2>0. PICK e, x : e = doc[g] /\ x = copy[g]
    OBVIOUS
  <2>1. Stored(doc[g], copy[g])' = Stored(doc[g], copy[g])
    <3>1. x # c.copy
      BY <1>b, <2>0
    <3>2. Stored(e, x)' = Stored(e, x)
      BY <3>1, <1>c
    <3> QED BY <1>0, <2>0, <3>2
  <2> QED BY <1>0, <2>1, SameText DEF Going, Place
<1>3. Numbering'
  BY <1>0, <1>b, SameText DEF Numbering
<1>4. PartsAreDisturbed'
  <2> SUFFICES ASSUME NEW p \in points', p.doc \notin disturbed
               PROVE  \/ Stored(p.doc, p.copy)' = Text(p.doc)'
                      \/ \E g \in Importers : doc'[g] = p.doc /\ copy'[g] = p.copy
    BY <1>0 DEF PartsAreDisturbed
  <2>1. p \in points /\ Stored(p.doc, p.copy)' = Stored(p.doc, p.copy)
    BY <1>a, <1>b, <1>c
  <2> QED BY <1>0, <2>1, SameText DEF PartsAreDisturbed
<1>5. Done'
  BY <1>0, <1>a, SameText DEF Done, Place
<1> QED BY <1>1, <1>2, <1>3, <1>4, <1>5

\* The end of an import, whether it is done or throws.
LEMMA LeaveStore ==
    ASSUME StoreInv, CopyInv, CopyInv', NEW h \in Importers, LeaveImport(h), doc[h] # NoDoc,
           UNCHANGED <<entries, copy, pageIndex, bookIndex, points, imports>>,
           stray' \subseteq stray \cup chunks[h],
           failures' \in 0..MaxFailures,
           disturbed' \in {disturbed, disturbed \cup {doc[h]}},
           \/ UNCHANGED succeeded
           \/ /\ succeeded' = succeeded \cup {doc[h]}
              /\ pc[h] = "upserting" /\ chunks[h] = {},
           doc[h] \in disturbed' \/ (pc[h] = "upserting" /\ chunks[h] = {})
    PROVE  StoreInv'
<1> USE DocsAssumption DEF StoreInv
<1>0. /\ doc' = [doc EXCEPT ![h] = NoDoc]
      /\ chunks' = [chunks EXCEPT ![h] = {}]
      /\ pc' = [pc EXCEPT ![h] = "idle"]
      /\ doc[h] \in Docs
  BY DEF LeaveImport, TypeOK
<1>a. /\ doc'[h] = NoDoc /\ chunks'[h] = {}
      /\ \A g \in Importers : g # h =>
            doc'[g] = doc[g] /\ chunks'[g] = chunks[g] /\ pc'[g] = pc[g]
  BY <1>0 DEF CopyInv, Typed
<1>b. \A e, c : Stored(e, c)' = Stored(e, c)
  BY DEF Stored
<1>c. pc[h] = "upserting" /\ chunks[h] = {} => Stored(doc[h], copy[h]) = Text(doc[h])
  <2>1. ASSUME pc[h] = "upserting", chunks[h] = {}
        PROVE  Stored(doc[h], copy[h]) = Text(doc[h])
    <3>1. Upto(doc[h], Len(Pages(doc[h]))) = Text(doc[h])
      BY <1>0, UptoPage DEF TypeOK
    <3> QED BY <2>1, <3>1 DEF Progress, Going
  <2> QED BY <2>1
<1>1. TypeOK'
  BY <1>0, <1>a DEF TypeOK
<1>2. Progress'
  <2> SUFFICES ASSUME NEW g \in Importers, g # h, doc[g] # NoDoc, Going(g)
               PROVE  Going(g)'
    BY <1>a DEF Progress
  <2> QED BY <1>a, <1>b, SameText DEF Going, Place
<1>3. Numbering'
  <2>1. \A p \in Sent' : p \in Sent \/ p \in chunks[h]
    BY DEF Sent
  <2>2. \A p \in Sent' : InOrder(p)
    BY <2>1 DEF Numbering
  <2> QED BY <1>a, <2>2, SameText DEF Numbering
<1>4. PartsAreDisturbed'
  <2> SUFFICES ASSUME NEW p \in points, p.doc \notin disturbed',
                      Stored(p.doc, p.copy) # Text(p.doc)
               PROVE  \E g \in Importers : doc'[g] = p.doc /\ copy'[g] = p.copy
    BY <1>b, SameText DEF PartsAreDisturbed
  <2>1. PICK g \in Importers : doc[g] = p.doc /\ copy[g] = p.copy
    BY DEF PartsAreDisturbed
  <2>2. g # h
    BY <1>c, <2>1
  <2> QED BY <1>a, <2>1, <2>2
<1>5. Done'
  <2> SUFFICES ASSUME NEW d \in succeeded', d \notin disturbed'
               PROVE  /\ \A g \in Importers : doc'[g] # d
                      /\ Text(d) \subseteq {Place(p) : p \in {q \in points : q.doc = d}}
    BY SameText DEF Done, Place
  <2>1. CASE d \in succeeded
    <3>1. d \in Docs /\ d \notin disturbed
      BY <2>1 DEF TypeOK
    <3> QED BY <1>a, <2>1, <3>1 DEF Done
  <2>2. CASE d \notin succeeded
    <3>1. d = doc[h] /\ Stored(d, copy[h]) = Text(d)
      BY <1>c, <2>2
    <3>2. \A g \in Importers : doc'[g] # d
      BY <1>0, <1>a, <3>1 DEF CopyInv, Overlaps
    <3> QED BY <3>1, <3>2 DEF Stored, Place
  <2> QED BY <2>1, <2>2
<1> QED BY <1>1, <1>2, <1>3, <1>4, <1>5

\* What is chunked and what is stored, at every moment, is the text up to the page reached.
THEOREM StoreInvariance == Spec => []StoreInv
<1>1. CopyInv /\ CopyInv' /\ StoreInv /\ [Next]_vars => StoreInv'
  <2> SUFFICES ASSUME CopyInv, CopyInv', StoreInv, [Next]_vars PROVE StoreInv'
    OBVIOUS
  <2>1. ASSUME NEW h \in Importers, FinishImport(h) PROVE StoreInv'
    <3>1. doc[h] # NoDoc /\ failures \in 0..MaxFailures
      BY <2>1 DEF FinishImport, CopyInv, Typed, StoreInv, TypeOK
    <3> QED BY <2>1, <3>1, LeaveStore DEF FinishImport
  <2>2. ASSUME NEW h \in Importers, ImportThrows(h) PROVE StoreInv'
    <3>1. doc[h] # NoDoc /\ failures' \in 0..MaxFailures
      BY <2>2, BoundsAssumption DEF ImportThrows, CopyInv, Typed, StoreInv, TypeOK
    <3> QED BY <2>2, <3>1, LeaveStore DEF ImportThrows
  <2>3. CASE UNCHANGED vars
    <3>1. /\ UNCHANGED <<entries, doc, copy, pageIndex, bookIndex, chunks, pc, points,
                         stray, Sent, succeeded, imports, failures, disturbed>>
          /\ \A e, c : Stored(e, c)' = Stored(e, c)
      BY <2>3 DEF vars, importVars, storeVars, Stored, Sent
    <3> QED BY <3>1, SameText DEF StoreInv, TypeOK, Progress, Going, Numbering,
               PartsAreDisturbed, Done, Place
  <2> QED BY <2>1, <2>2, <2>3, BeginStore, ChunkStore, UpsertStore, LandStore, StrayStore
          DEF Next, Import
<1> QED BY <1>1, InitStore, CopyInvariance, PTL DEF Spec

\* The variables have their types: chunks and points are numbered with naturals.
THEOREM TypeCorrect == Spec => []TypeOK
<1>1. StoreInv => TypeOK
  BY DEF StoreInv
<1> QED BY <1>1, StoreInvariance, PTL

\* Every point is a paragraph of its document, numbered by the paragraphs before it in
\* the document, however its pages are split and whatever else is imported meanwhile.
THEOREM Order == Spec => []ReadingOrder
<1>1. StoreInv => ReadingOrder
  BY DEF StoreInv, Numbering, InOrder, Place, ReadingOrder, Sent
<1> QED BY <1>1, StoreInvariance, PTL

\* A part of a document is in the index only while its import is under way or if an
\* import of the document was disturbed.
THEOREM Parts == Spec => []PartsAreDisturbed
<1>1. StoreInv => PartsAreDisturbed
  BY DEF StoreInv
<1> QED BY <1>1, StoreInvariance, PTL

\* A chat about a document that was imported undisturbed gets Limit different paragraphs
\* of it, or all of them, whatever the other imports do.
THEOREM CleanChat == Spec => []CleanChatIsFull
<1>1. CopyInv /\ StoreInv => CleanChatIsFull
  <2> SUFFICES ASSUME CopyInv, StoreInv, NEW d \in succeeded, d \notin disturbed,
                      NEW R \in SearchVectorStore({d}),
                      NEW C, C = IF R = {} THEN NoResults ELSE Contexts(R)
               PROVE  LET all == {<<d, s>> : s \in Text(d)} IN
                        C = all \/ (C \subseteq all /\ Cardinality(C) = Limit)
    BY DEF CleanChatIsFull, ChatDocument
  <2> DEFINE all == {<<d, s>> : s \in Text(d)}
  <2>1. C = {<<d, Place(p)>> : p \in R}
    <3>1. \A p \in R : p.doc = d
      BY SearchReturnsPoints
    <3> QED BY <3>1 DEF NoResults, Contexts, Place
  <2>2. R \subseteq points /\ \A p \in R : p.doc = d /\ Place(p) \in Text(d)
    BY SearchReturnsPoints DEF StoreInv, Numbering, InOrder, Sent
  <2>3. C \subseteq all
    BY <2>1, <2>2
  <2>4. CASE Cardinality(R) = Limit
    <3> DEFINE f == [p \in R |-> <<d, Place(p)>>]
    <3>1. \A p, q \in R : Place(p) = Place(q) => p = q
      <4> SUFFICES ASSUME NEW p \in R, NEW q \in R, Place(p) = Place(q) PROVE p = q
        OBVIOUS
      <4>1. p.copy = q.copy
        BY <2>2 DEF CopyInv, Overlaps, Sent
      <4> QED BY <2>2, <4>1 DEF CopyInv, OncePerCopy, SamePlace, Place, Sent
    <3>2. f \in Bijection(R, C)
      BY <2>1, <3>1 DEF Bijection, Injection, Surjection, IsInjective
    <3>3. IsFiniteSet(C)
      <4>1. IsFiniteSet({d} \X Text(d))
        <5>1. IsFiniteSet(Text(d))
          BY TextIsFinite DEF StoreInv, TypeOK
        <5> QED BY <5>1, FS_Singleton, FS_Product
      <4>2. C \subseteq {d} \X Text(d)
        BY <2>3
      <4> QED BY <4>1, <4>2, FS_Subset
    <3>4. IsFiniteSet(R)
      BY <3>2, <3>3, FS_Injection DEF ExistsInjection, Bijection
    <3>5. Cardinality(C) = Cardinality(R)
      BY <3>2, <3>4, FS_Bijection DEF ExistsBijection
    <3> QED BY <2>3, <2>4, <3>5
  <2>5. CASE R = Matching({d})
    <3>1. all \subseteq C
      <4> SUFFICES ASSUME NEW s \in Text(d) PROVE \E p \in R : Place(p) = s
        BY <2>1
      <4>1. PICK p \in points : p.doc = d /\ Place(p) = s
        BY DEF StoreInv, Done
      <4> QED BY <2>5, <4>1 DEF Matching
    <3> QED BY <2>3, <3>1
  <2> QED BY <2>4, <2>5 DEF SearchVectorStore, BestOf
<1> QED BY <1>1, CopyInvariance, StoreInvariance, PTL

-----------------------------------------------------------------------------
(***************************************************************************)
(* The import implements ImportService.                                    *)
(***************************************************************************)

\* The copies of d that a search can find as a whole.
Whole(d) == {c \in 1..imports : Stored(d, c) = Text(d)}

\* There are finitely many whole copies, and none only if the number is 0.
LEMMA WholeIsFinite ==
    ASSUME TypeOK, NEW d
    PROVE  /\ IsFiniteSet(Whole(d)) /\ Cardinality(Whole(d)) \in Nat
           /\ Whole(d) # {} => Cardinality(Whole(d)) > 0
<1>1. IsFiniteSet(1..imports) /\ Whole(d) \subseteq 1..imports
  BY FS_Interval DEF TypeOK, Whole
<1>2. IsFiniteSet(Whole(d)) /\ Cardinality(Whole(d)) \in Nat
  BY <1>1, FS_Subset, FS_CardinalityType
<1>3. Whole(d) # {} => Cardinality(Whole(d)) # 0
  BY <1>2, FS_EmptySet
<1> QED BY <1>2, <1>3

\* WholeCopies in terms of Whole, before and after a step.
LEMMA WholeCopiesIs ==
    /\ \A d : WholeCopies(d) = IF Text(d) = {} THEN 1 ELSE Cardinality(Whole(d))
    /\ \A d : WholeCopies(d)' = IF Text(d)' = {} THEN 1 ELSE Cardinality(Whole(d)')
BY DEF WholeCopies, Whole

\* What leaves the copies of a document alone leaves their number alone.
LEMMA SameCopies ==
    ASSUME TypeOK, UNCHANGED <<entries, imports>>, NEW d,
           \A c \in 1..imports : Stored(d, c)' = Stored(d, c)
    PROVE  WholeCopies(d)' = WholeCopies(d)
<1>1. Whole(d)' = Whole(d)
  BY SameText DEF Whole
<1> QED BY <1>1, SameText, WholeCopiesIs

\* The status and the copies that ImportService sees.
Status == [d \in Docs |-> IF d \in succeeded THEN "Succeeded" ELSE "Created"]
Copies == [d \in Docs |-> WholeCopies(d)]

\* A step of ImportService, or none.
Serves == Service!Next \/ UNCHANGED <<Status, Copies>>

\* An import that begins adds an empty copy: it is whole of an empty document only.
LEMMA BeginServes ==
    ASSUME StoreInv, CopyInv, NEW h \in Importers, NEW d \in Docs, BeginImport(h, d)
    PROVE  UNCHANGED <<Status, Copies>>
<1>1. /\ imports \in Nat /\ imports' = imports + 1
      /\ UNCHANGED <<entries, points, succeeded>>
  BY DEF BeginImport, storeVars, StoreInv, TypeOK
<1>2. \A e, c : Stored(e, c)' = Stored(e, c)
  BY <1>1 DEF Stored
<1>3. \A e : Stored(e, imports + 1) = {}
  BY <1>1 DEF Stored, CopyInv, Numbered, Sent
<1>4. ASSUME NEW e \in Docs PROVE WholeCopies(e)' = WholeCopies(e)
  <2>1. CASE Text(e) = {}
    BY <1>1, <2>1, SameText, WholeCopiesIs
  <2>2. CASE Text(e) # {}
    <3>1. Whole(e)' = Whole(e)
      BY <1>1, <1>2, <1>3, <2>2, SameText DEF Whole
    <3> QED BY <1>1, <3>1, SameText, WholeCopiesIs
  <2> QED BY <2>1, <2>2
<1> QED BY <1>1, <1>4 DEF Status, Copies

\* The point that makes a copy whole is the Index of ImportService; any other is no step.
LEMMA PointServes ==
    ASSUME StoreInv, NEW c \in Chunks, InOrder(c), points' = points \cup {c},
           UNCHANGED <<entries, succeeded, imports>>,
           \A p \in points : p.copy = c.copy /\ SamePlace(p, c) => p = c
    PROVE  Serves
<1>d. PICK d, x : d = c.doc /\ x = c.copy
  OBVIOUS
<1>a. /\ d \in Docs
      /\ Stored(d, x)' = Stored(d, x) \cup {Place(c)}
      /\ \A e, y : e # d \/ y # x => Stored(e, y)' = Stored(e, y)
      /\ c \in points \/ Place(c) \notin Stored(d, x)
  <2>1. d \in Docs
    BY <1>d DEF Chunks
  <2>2. Stored(d, x)' = Stored(d, x) \cup {Place(c)}
    BY <1>d DEF Stored, Place
  <2>3. \A e, y : e # d \/ y # x => Stored(e, y)' = Stored(e, y)
    BY <1>d DEF Stored
  <2>4. c \in points \/ Place(c) \notin Stored(d, x)
    BY <1>d DEF Stored, Place, SamePlace
  <2> QED BY <2>1, <2>2, <2>3, <2>4
<1>c. TypeOK /\ Place(c) \in Text(d)
  BY <1>d DEF StoreInv, InOrder
<1>1. \A e \in Docs : e # d => WholeCopies(e)' = WholeCopies(e)
  BY <1>a, <1>c, SameCopies
<1>2. CASE c \in points \/ Stored(d, x)' # Text(d) \/ x \notin 1..imports
  <2>1. WholeCopies(d)' = WholeCopies(d)
    <3>1. CASE c \in points
      <4>1. \A y : Stored(d, y)' = Stored(d, y)
        BY <3>1 DEF Stored
      <4> QED BY <1>c, <4>1, SameCopies
    <3>2. CASE c \notin points /\ Stored(d, x)' # Text(d)
      <4>1. Whole(d)' = Whole(d)
        BY <1>a, <1>c, <3>2, SameText DEF Whole
      <4> QED BY <4>1, SameText, WholeCopiesIs
    <3>3. CASE x \notin 1..imports
      BY <1>a, <1>c, <3>3, SameCopies
    <3> QED BY <1>2, <3>1, <3>2, <3>3
  <2> QED BY <1>1, <2>1 DEF Serves, Status, Copies
<1>3. CASE c \notin points /\ Stored(d, x)' = Text(d) /\ x \in 1..imports
  <2>1. Whole(d)' = Whole(d) \cup {x} /\ x \notin Whole(d)
    BY <1>a, <1>c, <1>3, SameText DEF Whole
  <2>2. Cardinality(Whole(d)') = Cardinality(Whole(d)) + 1
    BY <1>c, <2>1, WholeIsFinite, FS_AddElement
  <2>3. WholeCopies(d)' = WholeCopies(d) + 1
    BY <1>c, <2>2, SameText, WholeCopiesIs
  <2>4. Service!Index(d)
    BY <1>1, <1>a, <2>3 DEF Service!Index
  <2> QED BY <1>a, <2>4 DEF Serves, Service!Next
<1> QED BY <1>2, <1>3

\* So is a point that lands for an import that goes on, or for one that threw.
LEMMA LandServes ==
    ASSUME StoreInv, CopyInv, LandStray \/ \E h \in Importers : Land(h)
    PROVE  Serves
<1>1. ASSUME NEW h \in Importers, Land(h) PROVE Serves
  <2>1. PICK c \in chunks[h] : points' = points \cup {c}
    BY <1>1 DEF Land
  <2>2. /\ c \in Chunks /\ InOrder(c)
        /\ \A p \in points : p.copy = c.copy /\ SamePlace(p, c) => p = c
    BY DEF StoreInv, TypeOK, Numbering, CopyInv, OwnChunks, Sent
  <2> QED BY <1>1, <2>1, <2>2, PointServes DEF Land
<1>2. CASE LandStray
  <2>1. PICK c \in stray : points' = points \cup {c}
    BY <1>2 DEF LandStray
  <2>2. /\ c \in Chunks /\ InOrder(c)
        /\ \A p \in points : p.copy = c.copy /\ SamePlace(p, c) => p = c
    BY DEF StoreInv, TypeOK, Numbering, CopyInv, OncePerCopy, Sent
  <2> QED BY <1>2, <2>1, <2>2, PointServes DEF LandStray
<1> QED BY <1>1, <1>2

\* An import that commits has a whole copy: it is the Complete of ImportService.
LEMMA LeaveServes ==
    ASSUME StoreInv, CopyInv, NEW h \in Importers, doc[h] # NoDoc,
           UNCHANGED <<entries, points, imports>>,
           \/ UNCHANGED succeeded
           \/ /\ succeeded' = succeeded \cup {doc[h]}
              /\ pc[h] = "upserting" /\ chunks[h] = {}
    PROVE  Serves
<1>1. TypeOK /\ doc[h] \in Docs /\ \A d, c : Stored(d, c)' = Stored(d, c)
  BY DEF StoreInv, TypeOK, Stored
<1>2. \A d \in Docs : WholeCopies(d)' = WholeCopies(d)
  BY <1>1, SameCopies
<1>3. CASE succeeded' = succeeded
  BY <1>2, <1>3 DEF Serves, Status, Copies
<1>4. CASE succeeded' # succeeded
  <2>1. /\ succeeded' = succeeded \cup {doc[h]} /\ doc[h] \notin succeeded
        /\ pc[h] = "upserting" /\ chunks[h] = {}
    BY <1>4
  <2>2. copy[h] \in Whole(doc[h])
    <3>1. Upto(doc[h], Len(Pages(doc[h]))) = Text(doc[h])
      BY <1>1, UptoPage DEF TypeOK
    <3>2. Stored(doc[h], copy[h]) = Text(doc[h])
      BY <2>1, <3>1 DEF StoreInv, Progress, Going
    <3>3. copy[h] \in 1..imports
      BY DEF StoreInv, Progress, Going, CopyInv, Typed, Numbered
    <3> QED BY <3>2, <3>3 DEF Whole
  <2>3. WholeCopies(doc[h]) > 0
    BY <1>1, <2>2, WholeIsFinite, WholeCopiesIs
  <2>4. PICK d \in Docs : d = doc[h]
    BY <1>1
  <2>5. Service!Complete(d)
    BY <1>1, <1>2, <2>1, <2>3, <2>4 DEF Service!Complete
  <2> QED BY <2>5 DEF Serves, Service!Next
<1> QED BY <1>3, <1>4

\* Every step of the chunk-by-chunk import is a step of ImportService or none: copies come
\* one at a time and stay, and a job succeeds only with a whole copy in the index.
THEOREM Implements == Spec => ImplementsImport
<1>1. StoreInv /\ CopyInv /\ [Next]_vars => Serves
  <2> SUFFICES ASSUME StoreInv, CopyInv, [Next]_vars PROVE Serves
    OBVIOUS
  <2>1. ASSUME UNCHANGED <<entries, points, succeeded, imports>> PROVE Serves
    <3>1. TypeOK /\ \A d, c : Stored(d, c)' = Stored(d, c)
      BY <2>1 DEF StoreInv, Stored
    <3> QED BY <2>1, <3>1, SameCopies DEF Serves, Status, Copies
  <2>2. ASSUME NEW h \in Importers, NEW d \in Docs, BeginImport(h, d) PROVE Serves
    BY <2>2, BeginServes DEF Serves
  <2>3. ASSUME NEW h \in Importers, ChunkPage(h) \/ Upsert(h) PROVE Serves
    BY <2>1, <2>3 DEF ChunkPage, Upsert, storeVars
  <2>4. ASSUME NEW h \in Importers, FinishImport(h) \/ ImportThrows(h) PROVE Serves
    <3>1. doc[h] # NoDoc
      BY <2>4 DEF FinishImport, ImportThrows, CopyInv, Typed
    <3> QED BY <2>4, <3>1, LeaveServes DEF FinishImport, ImportThrows
  <2>5. CASE UNCHANGED vars
    BY <2>1, <2>5 DEF vars, storeVars
  <2> QED BY <2>2, <2>3, <2>4, <2>5, LandServes DEF Next, Import
<1>2. Serves => [Service!Next]_(Service!vars)
  BY DEF Serves, Status, Copies, Service!vars
<1> QED BY <1>1, <1>2, CopyInvariance, StoreInvariance, PTL DEF Spec, ImplementsImport
=============================================================================
