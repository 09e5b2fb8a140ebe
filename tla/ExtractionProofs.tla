---------------------------- MODULE ExtractionProofs ----------------------------
(***************************************************************************)
(* What the extractors find in a syntax tree, for every tree: the stacks   *)
(* of the walk say of each node what the nodes around it say, so that      *)
(* symbols, parents, exports and callers are those of the lexical          *)
(* definitions.                                                            *)
(***************************************************************************)
EXTENDS Extraction, SequenceTheorems, FiniteSetTheorems, WellFoundedInduction, TLAPS

-------------------------------------------------------------------------------
(* Least and greatest members *)

(* A set of natural numbers has a least member.                            *)
LEMMA Least ==
  ASSUME NEW S \in SUBSET Nat, S # {}
  PROVE  \E m \in S : \A n \in S : m <= n
<1>1. PICK m \in S : \A n \in S : ~(<<n, m>> \in OpToRel(<, Nat))
  BY WFMin, NatLessThanWellFounded
<1>2. ASSUME NEW n \in S, n < m PROVE FALSE
  BY <1>1, <1>2 DEF OpToRel
<1> QED
  BY <1>2

(* A set of natural numbers none of which is above x has a greatest one.   *)
LEMMA Greatest ==
  ASSUME NEW S \in SUBSET Nat, S # {}, NEW x \in Nat, \A n \in S : n <= x
  PROVE  \E m \in S : \A n \in S : n <= m
<1> DEFINE D == {d \in Nat : x - d \in S}
<1>1. PICK n \in S : TRUE
  OBVIOUS
<1>2. x - n \in D
  <2>1. n \in Nat /\ n <= x
    OBVIOUS
  <2>2. x - n \in Nat /\ x - (x - n) = n
    BY <2>1
  <2> QED
    BY <2>2
<1>3. PICK d \in D : \A e \in D : d <= e
  <2>1. D \in SUBSET Nat /\ D # {}
    BY <1>2
  <2> HIDE DEF D
  <2> QED
    BY <2>1, Least
<1>4. ASSUME NEW k \in S PROVE k <= x - d
  <2>1. k \in Nat /\ k <= x
    OBVIOUS
  <2>2. x - k \in Nat /\ x - (x - k) = k
    BY <2>1
  <2>3. d <= x - k /\ d \in Nat
    BY <1>3, <2>2
  <2> QED
    BY <2>1, <2>3
<1> QED
  BY <1>3, <1>4

(* Latest is the greatest member, if there is one.                         *)
LEMMA LatestIsGreatest ==
  ASSUME NEW S \in SUBSET Nat, S # {}, NEW x \in Nat, \A n \in S : n <= x
  PROVE  Latest(S) \in S /\ \A n \in S : n <= Latest(S)
<1>1. \E m \in S : \A n \in S : n <= m
  BY Greatest
<1> QED
  BY <1>1 DEF Latest

LEMMA LatestIsUnique ==
  ASSUME NEW S \in SUBSET Nat, NEW m \in S, \A n \in S : n <= m
  PROVE  Latest(S) = m
<1>1. Latest(S) \in S /\ \A n \in S : n <= Latest(S)
  BY DEF Latest
<1>2. Latest(S) <= m /\ m <= Latest(S) /\ Latest(S) \in Nat /\ m \in Nat
  BY <1>1
<1> QED
  BY <1>2

-------------------------------------------------------------------------------
(* Syntax trees *)

LEMMA TreeFacts ==
  ASSUME IsTree(tree)
  PROVE  /\ tree.language \in Languages
         /\ Size \in Nat /\ 1 \in 1 .. Size /\ End(1) = Size
         /\ Type(1) \in {"program", "ERROR"}
         /\ \A n \in 2 .. Size : Type(n) # "program"
         /\ \A n \in 1 .. Size : /\ Type(n) \in TypesOf(tree.language)
                                 /\ End(n) \in Nat /\ n <= End(n) /\ End(n) <= Size
         /\ \A n \in 1 .. Size : \A m \in n .. End(n) : m \in 1 .. Size /\ End(m) <= End(n)
<1>1. tree.nodes \in Seq([type : TypesOf(tree.language), end : Nat])
  BY DEF IsTree
<1>2. Size \in Nat
  BY <1>1, LenProperties DEF Size
<1>3. \A n \in 1 .. Size : tree.nodes[n] \in [type : TypesOf(tree.language), end : Nat]
  BY <1>1, ElementOfSeq DEF Size
<1>4. \A n \in 1 .. Size : End(n) \in n .. Size
  BY DEF IsTree, Size, End
<1>5. \A n \in 1 .. Size : Type(n) \in TypesOf(tree.language) /\ End(n) \in Nat
  BY <1>3 DEF Type, End
<1>6. \A n \in 1 .. Size : End(n) \in Nat /\ n <= End(n) /\ End(n) <= Size
  BY <1>2, <1>4, <1>5
<1>7. \A n \in 1 .. Size : \A m \in n .. End(n) : m \in 1 .. Size /\ End(m) <= End(n)
  <2> SUFFICES ASSUME NEW n \in 1 .. Size, NEW m \in n .. End(n)
               PROVE  m \in 1 .. Size /\ End(m) <= End(n)
    OBVIOUS
  <2>1. End(m) <= End(n)
    BY DEF IsTree, Size, End
  <2> QED
    BY <1>2, <1>6, <2>1
<1>8. Size > 0 /\ End(1) = Size /\ Type(1) \in {"program", "ERROR"} /\ tree.language \in Languages
      /\ \A n \in 2 .. Size : Type(n) # "program"
  BY DEF IsTree, Size, End, Type
<1> QED
  BY <1>2, <1>5, <1>6, <1>7, <1>8

LEMMA AboveFacts ==
  ASSUME IsTree(tree), NEW n \in 1 .. Size
  PROVE  /\ \A a : a \in Above(n) <=> a \in 1 .. Size /\ a < n /\ n <= End(a)
         /\ Above(n) \in SUBSET Nat /\ Above(n) \subseteq 1 .. Size
         /\ \A a \in Above(n) : a < n /\ a <= Size
         /\ n = 1 => Above(n) = {}
         /\ n # 1 => 1 \in Above(n)
<1>1. Size \in Nat /\ n \in Nat /\ n <= Size /\ End(1) = Size /\ 1 \in 1 .. Size
  BY TreeFacts
<1>2. \A a : a \in Above(n) <=> a \in 1 .. Size /\ a < n /\ n <= End(a)
  BY <1>1 DEF Above
<1> QED
  BY <1>1, <1>2

(* What is around a node that is around another is around that one, too.   *)
LEMMA AboveIsTransitive ==
  ASSUME IsTree(tree), NEW n \in 1 .. Size, NEW b \in Above(n), NEW a \in Above(b)
  PROVE  a \in Above(n)
<1>1. b \in 1 .. Size /\ b < n /\ n <= End(b)
  BY AboveFacts
<1>2. a \in 1 .. Size /\ a < b /\ b <= End(a)
  BY <1>1, AboveFacts
<1>3. End(b) <= End(a) /\ End(a) \in Nat /\ End(b) \in Nat
  BY <1>1, <1>2, TreeFacts
<1>4. a < n /\ n <= End(a)
  BY <1>1, <1>2, <1>3
<1> QED
  BY <1>2, <1>4, AboveFacts

(* Of two nodes around a third, the earlier is around the later.           *)
LEMMA AboveIsChain ==
  ASSUME IsTree(tree), NEW n \in 1 .. Size, NEW a \in Above(n), NEW b \in Above(n), a < b
  PROVE  a \in Above(b)
<1>1. b \in 1 .. Size /\ b < n /\ a \in 1 .. Size /\ n <= End(a)
  BY AboveFacts
<1>2. b <= End(a)
  BY <1>1, TreeFacts
<1> QED
  BY <1>1, <1>2, AboveFacts

LEMMA UpFacts ==
  ASSUME IsTree(tree), NEW n \in 1 .. Size, n # 1
  PROVE  /\ Up(n) \in Above(n) /\ Up(n) \in 1 .. Size /\ Up(n) < n /\ n <= End(Up(n))
         /\ \A a \in Above(n) : a <= Up(n)
         /\ Above(n) = Above(Up(n)) \cup {Up(n)}
<1>1. Above(n) \in SUBSET Nat /\ Above(n) # {} /\ \A a \in Above(n) : a <= Size
  BY AboveFacts
<1>2. Up(n) \in Above(n) /\ \A a \in Above(n) : a <= Up(n)
  BY <1>1, LatestIsGreatest, TreeFacts DEF Up
<1>3. Up(n) \in 1 .. Size /\ Up(n) < n /\ n <= End(Up(n))
  BY <1>2, AboveFacts
<1>4. ASSUME NEW a \in Above(n) PROVE a \in Above(Up(n)) \cup {Up(n)}
  <2>1. a \in Nat /\ a <= Up(n) /\ Up(n) \in Nat
    BY <1>1, <1>2
  <2>2. CASE a < Up(n)
    BY <1>2, <2>2, AboveIsChain
  <2> QED
    BY <2>1, <2>2
<1>5. ASSUME NEW a \in Above(Up(n)) PROVE a \in Above(n)
  BY <1>2, AboveIsTransitive
<1> QED
  BY <1>2, <1>3, <1>4, <1>5

(* The parent is the only node around another with none in between.        *)
LEMMA UpIsUnique ==
  ASSUME IsTree(tree), NEW n \in 1 .. Size, NEW u \in Above(n),
         \A a \in Above(n) : a <= u
  PROVE  n # 1 /\ Up(n) = u
<1>1. Above(n) \in SUBSET Nat /\ n # 1
  BY AboveFacts
<1> QED
  BY <1>1, LatestIsUnique DEF Up

(* The children of n up to m, as the recursion of Children has them.       *)
Lists(n, m, f) ==
  f = [k \in n .. m |->
         IF k = n THEN << >> ELSE IF Up(k) = n THEN Append(f[k - 1], k) ELSE f[k - 1]]

LEMMA ListsExist ==
  ASSUME NEW n \in Nat, NEW m \in Nat, n <= m
  PROVE  \E f : Lists(n, m, f)
<1> DEFINE Bad == {k \in Nat : n <= k /\ ~ \E f : Lists(n, k, f)}
<1>1. SUFFICES ASSUME Bad # {} PROVE FALSE
  OBVIOUS
<1>2. PICK k \in Bad : \A j \in Bad : k <= j
  <2>1. Bad \in SUBSET Nat
    OBVIOUS
  <2> HIDE DEF Bad
  <2> QED
    BY <1>1, <2>1, Least
<1>3. CASE k = n
  <2>1. Lists(n, n, [j \in n .. n |-> << >>])
    BY DEF Lists
  <2> QED
    BY <1>2, <1>3, <2>1
<1>4. CASE k # n
  <2>1. k - 1 \in Nat /\ k \in Nat /\ n <= k - 1 /\ ~(k <= k - 1)
    BY <1>2, <1>4
  <2>2. PICK g : Lists(n, k - 1, g)
    BY <1>2, <2>1
  <2> DEFINE last == IF Up(k) = n THEN Append(g[k - 1], k) ELSE g[k - 1]
             f == [j \in n .. k |-> IF j = k THEN last ELSE g[j]]
  <2>3. \A j \in n .. k - 1 : f[j] = g[j]
    BY <2>1
  <2>4. ASSUME NEW j \in n .. k
        PROVE  f[j] = IF j = n THEN << >>
                      ELSE IF Up(j) = n THEN Append(f[j - 1], j) ELSE f[j - 1]
    <3>1. CASE j = k
      <4>1. f[j] = last /\ f[j - 1] = g[j - 1] /\ j # n
        BY <1>4, <2>1, <2>3, <3>1
      <4> QED
        BY <3>1, <4>1
    <3>2. CASE j # k
      <4>1. j \in n .. k - 1 /\ (j # n => j - 1 \in n .. k - 1)
        BY <2>1, <3>2
      <4>2. g[j] = IF j = n THEN << >>
                   ELSE IF Up(j) = n THEN Append(g[j - 1], j) ELSE g[j - 1]
        BY <2>2, <4>1 DEF Lists
      <4> QED
        BY <2>3, <4>1, <4>2
    <3> QED
      BY <3>1, <3>2
  <2>5. f = [j \in n .. k |-> f[j]]
    OBVIOUS
  <2> HIDE DEF f
  <2>6. Lists(n, k, f)
    BY <2>4, <2>5 DEF Lists
  <2> QED
    BY <1>2, <2>6
<1> QED
  BY <1>3, <1>4

(* The children of n are one after the other all the way to its end.       *)
AreChildren(n, m, c) ==
  /\ c \in Seq(1 .. Size)
  /\ m = n <=> c = << >>
  /\ \A i \in 1 .. Len(c) : n < c[i] /\ c[i] <= m /\ Up(c[i]) = n
  /\ c # << >> => c[1] = n + 1 /\ m <= End(c[Len(c)])
  /\ \A i \in 1 .. Len(c) - 1 : c[i + 1] = End(c[i]) + 1

(* Appending an element to a sequence.                                     *)
LEMMA AppendFacts ==
  ASSUME NEW T, NEW s \in Seq(T), NEW x \in T
  PROVE  /\ Append(s, x) \in Seq(T) /\ Append(s, x) # << >>
         /\ Len(s) \in Nat /\ Len(Append(s, x)) = Len(s) + 1
         /\ \A i \in 1 .. Len(s) : Append(s, x)[i] = s[i]
         /\ Append(s, x)[Len(s) + 1] = x
<1>1. Len(s) \in Nat
  BY LenProperties
<1>2. Append(s, x) \in Seq(T) /\ Len(Append(s, x)) = Len(s) + 1
  BY AppendProperties
<1>3. Append(s, x) # << >>
  BY <1>1, <1>2, EmptySeq
<1>4. /\ \A i \in 1 .. Len(s) : Append(s, x)[i] = s[i]
      /\ Append(s, x)[Len(s) + 1] = x
  BY <1>1, AppendProperties
<1> QED
  BY <1>1, <1>2, <1>3, <1>4

(* One node further: it is a child, or in the last child so far.           *)
LEMMA ChildrenStep ==
  ASSUME IsTree(tree), NEW n \in 1 .. Size, NEW m \in n + 1 .. End(n), NEW c,
         AreChildren(n, m - 1, c)
  PROVE  AreChildren(n, m, IF Up(m) = n THEN Append(c, m) ELSE c)
<1>1. /\ n \in Nat /\ m \in Nat /\ n < m /\ m <= End(n) /\ m \in 1 .. Size /\ m # 1
      /\ End(n) \in Nat /\ Size \in Nat
  BY TreeFacts
<1>2. n \in Above(m)
  BY <1>1, AboveFacts
<1>3. Up(m) \in Above(m) /\ \A a \in Above(m) : a <= Up(m)
  BY <1>1, UpFacts
<1>4. Up(m) \in 1 .. Size /\ Up(m) < m /\ m <= End(Up(m)) /\ n <= Up(m)
  BY <1>1, <1>2, <1>3, UpFacts
<1>5. c \in Seq(1 .. Size) /\ Len(c) \in Nat
  BY LenProperties DEF AreChildren
<1> DEFINE l == c[Len(c)]
<1>6. ASSUME c # << >>
      PROVE  /\ Len(c) \in 1 .. Len(c) /\ l \in 1 .. Size
             /\ n < l /\ l <= m - 1 /\ Up(l) = n /\ l # 1 /\ m - 1 <= End(l)
             /\ End(l) \in Nat
             /\ \A a \in Above(l) : a <= n
  <2>1. Len(c) \in 1 .. Len(c)
    BY <1>5, <1>6, EmptySeq
  <2>2. l \in 1 .. Size
    BY <1>5, <2>1, ElementOfSeq
  <2>3. n < l /\ l <= m - 1 /\ Up(l) = n /\ m - 1 <= End(l)
    BY <1>6, <2>1 DEF AreChildren
  <2>4. l # 1 /\ End(l) \in Nat
    BY <1>1, <2>2, <2>3, TreeFacts
  <2> QED
    BY <2>1, <2>2, <2>3, <2>4, UpFacts
<1> HIDE DEF l
<1>7. CASE Up(m) = n
  <2>1. c # << >> => End(l) = m - 1
    <3> SUFFICES ASSUME c # << >>, End(l) # m - 1 PROVE FALSE
      OBVIOUS
    <3>1. l < m /\ m <= End(l)
      BY <1>1, <1>6
    <3>2. l \in Above(m)
      BY <1>1, <1>6, <3>1, AboveFacts
    <3> QED
      BY <1>1, <1>3, <1>6, <1>7, <3>2
  <2>2. c = << >> => m = n + 1
    <3>1. c = << >> => m - 1 = n
      BY DEF AreChildren
    <3> QED
      BY <1>1, <3>1
  <2> DEFINE d == Append(c, m)
  <2>3. /\ d \in Seq(1 .. Size) /\ d # << >> /\ Len(d) = Len(c) + 1
        /\ \A i \in 1 .. Len(c) : d[i] = c[i]
        /\ d[Len(c) + 1] = m
    BY <1>1, <1>5, AppendFacts
  <2> HIDE DEF d
  <2>4. \A i \in 1 .. Len(d) : n < d[i] /\ d[i] <= m /\ Up(d[i]) = n
    <3> SUFFICES ASSUME NEW i \in 1 .. Len(d) PROVE n < d[i] /\ d[i] <= m /\ Up(d[i]) = n
      OBVIOUS
    <3>1. CASE i = Len(c) + 1
      BY <1>1, <1>7, <2>3, <3>1
    <3>2. CASE i # Len(c) + 1
      <4>1. i \in 1 .. Len(c)
        BY <1>5, <2>3, <3>2
      <4>2. n < c[i] /\ c[i] <= m - 1 /\ Up(c[i]) = n /\ c[i] \in 1 .. Size
        BY <1>5, <4>1, ElementOfSeq DEF AreChildren
      <4> QED
        BY <1>1, <2>3, <4>1, <4>2
    <3> QED
      BY <3>1, <3>2
  <2>5. d[1] = n + 1
    <3>1. CASE c = << >>
      <4>1. Len(c) = 0
        BY <3>1, EmptySeq
      <4> QED
        BY <2>2, <2>3, <3>1, <4>1
    <3>2. CASE c # << >>
      <4>1. c[1] = n + 1 /\ 1 \in 1 .. Len(c)
        BY <1>5, <1>6, <3>2 DEF AreChildren
      <4> QED
        BY <2>3, <4>1
    <3> QED
      BY <3>1, <3>2
  <2>6. m <= End(d[Len(d)])
    BY <1>1, <2>3, TreeFacts
  <2>7. \A i \in 1 .. Len(d) - 1 : d[i + 1] = End(d[i]) + 1
    <3> SUFFICES ASSUME NEW i \in 1 .. Len(d) - 1 PROVE d[i + 1] = End(d[i]) + 1
      OBVIOUS
    <3>1. i \in 1 .. Len(c) /\ d[i] = c[i] /\ c # << >>
      <4>1. i \in 1 .. Len(c)
        BY <1>5, <2>3
      <4>2. c # << >>
        BY <4>1, EmptySeq
      <4> QED
        BY <2>3, <4>1, <4>2
    <3>2. CASE i = Len(c)
      <4>1. d[i + 1] = m /\ d[i] = l /\ End(l) = m - 1
        BY <2>1, <2>3, <3>1, <3>2 DEF l
      <4> QED
        BY <1>1, <4>1
    <3>3. CASE i # Len(c)
      <4>1. i \in 1 .. Len(c) - 1 /\ i + 1 \in 1 .. Len(c)
        BY <1>5, <3>1, <3>3
      <4>2. d[i + 1] = c[i + 1] /\ c[i + 1] = End(c[i]) + 1
        BY <2>3, <4>1 DEF AreChildren
      <4> QED
        BY <3>1, <4>2
    <3> QED
      BY <3>2, <3>3
  <2>8. ~(m = n) /\ d # << >>
    BY <1>1, <2>3
  <2>9. AreChildren(n, m, d)
    BY <2>3, <2>4, <2>5, <2>6, <2>7, <2>8 DEF AreChildren
  <2> QED
    BY <1>7, <2>9 DEF d
<1>8. CASE Up(m) # n
  <2>1. n < Up(m)
    BY <1>1, <1>4, <1>8
  <2>2. c # << >>
    <3>1. SUFFICES ASSUME c = << >> PROVE FALSE
      OBVIOUS
    <3>2. m - 1 = n
      BY <3>1 DEF AreChildren
    <3> QED
      BY <1>1, <1>4, <2>1, <3>2
  <2>3. m <= End(l)
    <3>1. SUFFICES ASSUME ~(m <= End(l)) PROVE FALSE
      OBVIOUS
    <3>2. End(l) = m - 1
      BY <1>1, <1>6, <2>2, <3>1
    <3>3. CASE l <= Up(m)
      <4>1. Up(m) \in l .. End(l)
        BY <1>1, <1>4, <1>6, <2>2, <3>2, <3>3
      <4>2. End(Up(m)) <= End(l) /\ End(Up(m)) \in Nat
        BY <1>4, <1>6, <2>2, <4>1, TreeFacts
      <4> QED
        BY <1>1, <1>4, <3>2, <4>2
    <3>4. CASE Up(m) < l
      <4>1. l <= End(Up(m))
        <5>1. End(Up(m)) \in Nat
          BY <1>4, TreeFacts
        <5> QED
          BY <1>1, <1>4, <1>6, <2>2, <5>1
      <4>2. Up(m) \in Above(l)
        BY <1>4, <1>6, <2>2, <3>4, <4>1, AboveFacts
      <4>3. Up(m) <= n
        BY <1>6, <2>2, <4>2
      <4> QED
        BY <1>1, <1>4, <2>1, <4>3
    <3> QED
      BY <1>1, <1>4, <1>6, <2>2, <3>3, <3>4
  <2>4. \A i \in 1 .. Len(c) : n < c[i] /\ c[i] <= m /\ Up(c[i]) = n
    <3> SUFFICES ASSUME NEW i \in 1 .. Len(c) PROVE n < c[i] /\ c[i] <= m /\ Up(c[i]) = n
      OBVIOUS
    <3>1. n < c[i] /\ c[i] <= m - 1 /\ Up(c[i]) = n /\ c[i] \in 1 .. Size
      BY <1>5, ElementOfSeq DEF AreChildren
    <3> QED
      BY <1>1, <3>1
  <2>5. c[1] = n + 1 /\ \A i \in 1 .. Len(c) - 1 : c[i + 1] = End(c[i]) + 1
    BY <2>2 DEF AreChildren
  <2>6. AreChildren(n, m, c)
    BY <1>1, <1>5, <2>2, <2>3, <2>4, <2>5 DEF AreChildren, l
  <2> QED
    BY <1>8, <2>6
<1> QED
  BY <1>7, <1>8

LEMMA ChildrenAreChildren ==
  ASSUME IsTree(tree), NEW n \in 1 .. Size
  PROVE  AreChildren(n, End(n), Children(n))
<1>1. n \in Nat /\ End(n) \in Nat /\ n <= End(n)
  BY TreeFacts
<1>2. \E g : Lists(n, End(n), g)
  BY <1>1, ListsExist
<1>3. PICK f : Lists(n, End(n), f) /\ Children(n) = f[End(n)]
  BY <1>2 DEF Lists, Children
<1>4. \A k \in n .. End(n) :
         f[k] = IF k = n THEN << >> ELSE IF Up(k) = n THEN Append(f[k - 1], k) ELSE f[k - 1]
  BY <1>3, Zenon DEF Lists
<1> DEFINE Bad == {k \in n .. End(n) : ~AreChildren(n, k, f[k])}
<1>5. Bad = {}
  <2>1. SUFFICES ASSUME Bad # {} PROVE FALSE
    OBVIOUS
  <2>2. PICK k \in Bad : \A j \in Bad : k <= j
    <3>1. Bad \in SUBSET Nat
      BY <1>1
    <3> HIDE DEF Bad
    <3> QED
      BY <2>1, <3>1, Least
  <2>3. k \in n .. End(n) /\ ~AreChildren(n, k, f[k])
    BY <2>2
  <2>4. CASE k = n
    <3>1. f[n] = << >>
      BY <1>4, <2>3, <2>4
    <3>2. AreChildren(n, n, << >>)
      BY EmptySeq DEF AreChildren
    <3> QED
      BY <2>3, <2>4, <3>1, <3>2
  <2>5. CASE k # n
    <3>1. k - 1 \in n .. End(n) /\ k \in n + 1 .. End(n) /\ ~(k <= k - 1)
      BY <1>1, <2>3, <2>5
    <3>2. AreChildren(n, k - 1, f[k - 1])
      BY <2>2, <3>1
    <3>3. AreChildren(n, k, IF Up(k) = n THEN Append(f[k - 1], k) ELSE f[k - 1])
      BY <3>1, <3>2, ChildrenStep
    <3>4. f[k] = IF Up(k) = n THEN Append(f[k - 1], k) ELSE f[k - 1]
      BY <1>4, <2>3, <2>5
    <3> QED
      BY <2>3, <3>3, <3>4
  <2> QED
    BY <2>4, <2>5
<1>6. End(n) \in n .. End(n)
  BY <1>1
<1>7. AreChildren(n, End(n), f[End(n)])
  BY <1>5, <1>6
<1> QED
  BY <1>3, <1>7

-------------------------------------------------------------------------------
(* The course of the walk *)

(* The nodes that the walk is in, and those it has entered.                *)
Inside ==
  IF events = << >> THEN {}
  ELSE IF Head(events).leaving THEN Above(Head(events).node) \cup {Head(events).node}
  ELSE Above(Head(events).node)

Entered ==
  IF events = << >> THEN 1 .. Size
  ELSE IF Head(events).leaving THEN 1 .. End(Head(events).node)
  ELSE 1 .. Head(events).node - 1

(* After a node and what is in it come its next sibling, or the end of its *)
(* parent.                                                                 *)
After(n) == IF End(n) < End(Up(n)) THEN Entering(End(n) + 1) ELSE Leaving(Up(n))

Walking ==
  /\ tree \in Trees
  /\ events \in Seq([node : 1 .. Size, leaving : BOOLEAN])
  /\ events # << >> => events[Len(events)].node = 1
  /\ \A i \in 1 .. Len(events) - 1 :
        events[i].node # 1 /\ events[i + 1] = After(events[i].node)

LEMMA TreeIsTree ==
  Walking => IsTree(tree)
BY TreesAreSyntax DEF Walking

(* The tree stays as it is, and with it what is defined of it.             *)
LEMMA TreeStays ==
  ASSUME tree' = tree
  PROVE  /\ Size' = Size
         /\ \A n : /\ Type(n)' = Type(n) /\ End(n)' = End(n) /\ Above(n)' = Above(n)
                   /\ Up(n)' = Up(n) /\ After(n)' = After(n) /\ Trusted(n)' = Trusted(n)
<1>1. Size' = Size
  BY DEF Size
<1>2. \A n : Type(n)' = Type(n) /\ End(n)' = End(n)
  BY DEF Type, End
<1>3. \A n : Above(n)' = Above(n)
  BY DEF Above, End
<1>4. \A n : Up(n)' = Up(n)
  BY <1>3 DEF Up, Latest
<1>5. \A n : After(n)' = After(n)
  BY <1>2, <1>4 DEF After, Entering, Leaving
<1>6. \A n : Trusted(n)' = Trusted(n)
  BY DEF Trusted, End, Type
<1> QED
  BY <1>1, <1>2, <1>3, <1>4, <1>5, <1>6

(* A sequence whose head is replaced by others.                            *)
LEMMA ReplaceHead ==
  ASSUME NEW T, NEW s \in Seq(T), NEW x \in T, NEW t \in Seq(T), t # << >>,
         NEW e, e = s \o <<x>> \o Tail(t)
  PROVE  /\ e \in Seq(T) /\ Len(s) \in Nat /\ Len(t) \in Nat /\ Len(t) >= 1
         /\ Len(e) = Len(s) + Len(t)
         /\ \A i \in 1 .. Len(s) : e[i] = s[i]
         /\ e[Len(s) + 1] = x
         /\ \A i \in Len(s) + 2 .. Len(e) : i - Len(s) \in 1 .. Len(t) /\ e[i] = t[i - Len(s)]
<1>1. Len(s) \in Nat /\ Len(t) \in Nat /\ Len(t) >= 1
  BY LenProperties, EmptySeq
<1>2. Tail(t) \in Seq(T) /\ Len(Tail(t)) = Len(t) - 1
      /\ \A i \in 1 .. Len(t) - 1 : Tail(t)[i] = t[i + 1]
  BY <1>1, HeadTailProperties
<1> DEFINE r == <<x>> \o Tail(t)
<1>3. <<x>> \in Seq(T) /\ Len(<<x>>) = 1 /\ <<x>>[1] = x
  OBVIOUS
<1>4. /\ r \in Seq(T) /\ Len(r) = Len(t)
      /\ r[1] = x /\ \A i \in 2 .. Len(t) : r[i] = t[i]
  <2>1. r \in Seq(T) /\ Len(r) = Len(t)
    BY <1>1, <1>2, <1>3, ConcatProperties
  <2>2. \A i \in 1 .. Len(t) :
           r[i] = IF i <= 1 THEN <<x>>[i] ELSE Tail(t)[i - 1]
    BY <1>1, <1>2, <1>3, ConcatProperties
  <2>3. r[1] = x
    BY <1>1, <1>3, <2>2
  <2>4. ASSUME NEW i \in 2 .. Len(t) PROVE r[i] = t[i]
    <3>1. i - 1 \in 1 .. Len(t) - 1 /\ i \in 1 .. Len(t) /\ ~(i <= 1) /\ (i - 1) + 1 = i
      BY <1>1
    <3> QED
      BY <1>2, <2>2, <3>1
  <2> QED
    BY <2>1, <2>3, <2>4
<1>5. e = s \o r
  BY <1>2, <1>3 DEF r
<1> HIDE DEF r
<1>6. e \in Seq(T) /\ Len(e) = Len(s) + Len(t)
  BY <1>4, <1>5, ConcatProperties
<1>7. \A i \in 1 .. Len(s) + Len(t) : e[i] = IF i <= Len(s) THEN s[i] ELSE r[i - Len(s)]
  BY <1>4, <1>5, ConcatProperties
<1>8. \A i \in 1 .. Len(s) : e[i] = s[i]
  BY <1>1, <1>7
<1>9. e[Len(s) + 1] = x
  <2>1. Len(s) + 1 \in 1 .. Len(s) + Len(t) /\ ~(Len(s) + 1 <= Len(s)) /\ (Len(s) + 1) - Len(s) = 1
    BY <1>1
  <2> QED
    BY <1>4, <1>7, <2>1
<1>10. ASSUME NEW i \in Len(s) + 2 .. Len(e)
       PROVE  i - Len(s) \in 1 .. Len(t) /\ e[i] = t[i - Len(s)]
  <2>1. i \in 1 .. Len(s) + Len(t) /\ ~(i <= Len(s)) /\ i - Len(s) \in 2 .. Len(t)
    BY <1>1, <1>6
  <2>2. e[i] = r[i - Len(s)]
    BY <1>7, <2>1
  <2> QED
    BY <1>1, <1>4, <2>1, <2>2
<1> QED
  BY <1>1, <1>6, <1>8, <1>9, <1>10

(* What comes first.                                                       *)
LEMMA AtFacts ==
  ASSUME Walking, NEW n \in 1 .. Size, NEW l \in BOOLEAN, At(n, l)
  PROVE  /\ events # << >> /\ Head(events) = events[1]
         /\ events[1] = [node |-> n, leaving |-> l]
         /\ events[1].node = n /\ events[1].leaving = l
         /\ Len(events) \in Nat /\ Len(events) >= 1
         /\ n = 1 <=> Len(events) = 1
         /\ n # 1 => events[2] = After(n)
<1>1. events \in Seq([node : 1 .. Size, leaving : BOOLEAN]) /\ events # << >>
  BY DEF Walking, At
<1>2. Len(events) \in Nat /\ Len(events) >= 1 /\ Head(events) = events[1]
  BY <1>1, LenProperties, EmptySeq
<1>3. events[1] = [node |-> n, leaving |-> l]
  BY <1>2 DEF At
<1>4. events[1].node = n /\ events[1].leaving = l
  BY <1>3
<1>5. CASE Len(events) = 1
  BY <1>1, <1>2, <1>3, <1>4, <1>5 DEF Walking
<1>6. CASE Len(events) # 1
  <2>1. 1 \in 1 .. Len(events) - 1
    <3>1. Len(events) \in Nat /\ Len(events) >= 1 /\ Len(events) # 1
      BY <1>2, <1>6
    <3>2. \A k \in Nat : k >= 1 /\ k # 1 => 1 \in 1 .. k - 1
      OBVIOUS
    <3> QED
      BY <3>1, <3>2
  <2>2. n # 1 /\ events[1 + 1] = After(n)
    BY <1>4, <2>1 DEF Walking
  <2> QED
    BY <1>1, <1>2, <1>3, <1>4, <1>6, <2>2
<1> QED
  BY <1>5, <1>6

EventType == [node : 1 .. Size, leaving : BOOLEAN]

Entrance(n) ==
  [i \in 1 .. Len(Children(n)) |-> Entering(Children(n)[i])] \o <<Leaving(n)>> \o Tail(events)

(* The walk goes into a node: to its first child, or back out.             *)
LEMMA Advances ==
  ASSUME Walking, NEW n \in 1 .. Size, At(n, FALSE),
         NEW e, e = Entrance(n)
  PROVE  /\ e \in Seq(EventType) /\ e # << >> /\ e[Len(e)].node = 1
         /\ \A i \in 1 .. Len(e) - 1 : e[i].node # 1 /\ e[i + 1] = After(e[i].node)
         /\ e[1] = IF End(n) = n THEN Leaving(n) ELSE Entering(n + 1)
<1> DEFINE c == Children(n)
           s == [i \in 1 .. Len(c) |-> Entering(c[i])]
<1>0. IsTree(tree)
  BY TreeIsTree
<1>1. AreChildren(n, End(n), c)
  BY <1>0, ChildrenAreChildren
<1>2. n \in Nat /\ End(n) \in Nat /\ n <= End(n) /\ End(n) <= Size /\ Size \in Nat
  BY <1>0, TreeFacts
<1> HIDE DEF c
<1>3. Len(c) \in Nat /\ c \in Seq(1 .. Size)
  BY <1>1, LenProperties DEF AreChildren
<1>4. \A i \in 1 .. Len(c) :
         /\ c[i] \in 1 .. Size /\ n < c[i] /\ c[i] <= End(n) /\ Up(c[i]) = n /\ c[i] # 1
         /\ End(c[i]) \in Nat /\ End(c[i]) <= End(n)
  <2> SUFFICES ASSUME NEW i \in 1 .. Len(c)
               PROVE  /\ c[i] \in 1 .. Size /\ n < c[i] /\ c[i] <= End(n) /\ Up(c[i]) = n
                      /\ c[i] # 1 /\ End(c[i]) \in Nat /\ End(c[i]) <= End(n)
    OBVIOUS
  <2>1. c[i] \in 1 .. Size /\ n < c[i] /\ c[i] <= End(n) /\ Up(c[i]) = n
    BY <1>1, <1>3, ElementOfSeq DEF AreChildren
  <2>2. c[i] \in n .. End(n) /\ c[i] # 1
    BY <1>2, <2>1
  <2> QED
    BY <1>0, <2>1, <2>2, TreeFacts
<1>5. s \in Seq(EventType) /\ Len(s) = Len(c) /\ \A i \in 1 .. Len(c) : s[i] = Entering(c[i])
  <2>1. \A i \in 1 .. Len(c) : Entering(c[i]) \in EventType
    BY <1>4 DEF EventType, Entering
  <2> QED
    BY <1>3, <2>1
<1> HIDE DEF s
<1>6. Leaving(n) \in EventType
  BY DEF Leaving, EventType
<1>7. events \in Seq(EventType) /\ events # << >>
  BY DEF Walking, At, EventType
<1>8. e = s \o <<Leaving(n)>> \o Tail(events)
  BY DEF Entrance, s, c
<1>9. /\ e \in Seq(EventType) /\ Len(events) \in Nat /\ Len(events) >= 1
      /\ Len(e) = Len(c) + Len(events)
      /\ \A i \in 1 .. Len(c) : e[i] = Entering(c[i])
      /\ e[Len(c) + 1] = Leaving(n)
      /\ \A i \in Len(c) + 2 .. Len(e) :
            i - Len(c) \in 1 .. Len(events) /\ e[i] = events[i - Len(c)]
  <2>1. /\ e \in Seq(EventType) /\ Len(events) \in Nat /\ Len(events) >= 1
        /\ Len(e) = Len(s) + Len(events)
        /\ \A i \in 1 .. Len(s) : e[i] = s[i]
        /\ e[Len(s) + 1] = Leaving(n)
        /\ \A i \in Len(s) + 2 .. Len(e) :
              i - Len(s) \in 1 .. Len(events) /\ e[i] = events[i - Len(s)]
    <3>1. s \in Seq(EventType)
      BY <1>5
    <3> QED
      BY <1>6, <1>7, <1>8, <3>1, ReplaceHead
  <2>2. Len(s) = Len(c)
    BY <1>5
  <2>3. \A i \in 1 .. Len(c) : e[i] = Entering(c[i])
    BY <1>5, <2>1
  <2> QED
    BY <2>1, <2>2, <2>3
<1>10. e # << >> /\ Len(e) \in 1 .. Len(e)
  BY <1>3, <1>9, EmptySeq
<1>11. e[Len(e)].node = 1
  <2>1. CASE Len(events) = 1
    <3>1. e[Len(e)] = Leaving(n) /\ n = 1
      BY <1>9, <2>1, AtFacts
    <3> QED
      BY <3>1 DEF Leaving
  <2>2. CASE Len(events) # 1
    <3>0. /\ Len(c) \in Nat /\ Len(events) \in Nat /\ Len(events) >= 1 /\ Len(events) # 1
          /\ Len(e) = Len(c) + Len(events)
      BY <1>3, <1>9, <2>2
    <3>1. Len(e) \in Len(c) + 2 .. Len(e) /\ Len(e) - Len(c) = Len(events)
      BY <3>0
    <3>2. e[Len(e)] = events[Len(events)]
      BY <1>9, <3>1
    <3> QED
      BY <1>7, <3>2 DEF Walking
  <2> QED
    BY <2>1, <2>2
<1>12. ASSUME NEW i \in 1 .. Len(e) - 1
       PROVE  e[i].node # 1 /\ e[i + 1] = After(e[i].node)
  <2>1. CASE i <= Len(c)
    <3>1. i \in 1 .. Len(c) /\ c # << >>
      BY <1>3, <2>1, EmptySeq
    <3>2. e[i] = Entering(c[i])
      BY <1>9, <3>1
    <3>3. e[i].node = c[i] /\ c[i] # 1 /\ Up(c[i]) = n /\ End(c[i]) \in Nat /\ End(c[i]) <= End(n)
      BY <1>4, <3>1, <3>2 DEF Entering
    <3>4. CASE i = Len(c)
      <4>1. End(n) <= End(c[i])
        BY <1>1, <3>1, <3>4 DEF AreChildren
      <4>2. After(c[i]) = Leaving(n)
        BY <1>2, <3>3, <4>1 DEF After
      <4> QED
        BY <1>9, <3>3, <3>4, <4>2
    <3>5. CASE i # Len(c)
      <4>1. i \in 1 .. Len(c) - 1 /\ i + 1 \in 1 .. Len(c)
        BY <1>3, <3>1, <3>5
      <4>2. c[i + 1] = End(c[i]) + 1 /\ c[i + 1] <= End(n)
        BY <1>1, <1>4, <4>1 DEF AreChildren
      <4>3. After(c[i]) = Entering(End(c[i]) + 1)
        BY <1>2, <3>3, <4>2 DEF After
      <4>4. e[i + 1] = Entering(c[i + 1])
        BY <1>9, <4>1
      <4> QED
        BY <3>3, <4>2, <4>3, <4>4
    <3> QED
      BY <3>4, <3>5
  <2>2. CASE i = Len(c) + 1
    <3>1. Len(events) # 1 /\ i + 1 \in Len(c) + 2 .. Len(e) /\ (i + 1) - Len(c) = 2
      BY <1>3, <1>9, <2>2
    <3>2. e[i + 1] = events[2] /\ e[i] = Leaving(n)
      BY <1>9, <2>2, <3>1
    <3>3. n # 1 /\ events[2] = After(n)
      BY <3>1, AtFacts
    <3>4. e[i].node = n
      BY <3>2 DEF Leaving
    <3> QED
      BY <3>2, <3>3, <3>4
  <2>3. CASE i > Len(c) + 1
    <3>1. /\ i \in Len(c) + 2 .. Len(e) /\ i + 1 \in Len(c) + 2 .. Len(e)
          /\ (i + 1) - Len(c) = (i - Len(c)) + 1 /\ i - Len(c) \in 1 .. Len(events) - 1
      BY <1>3, <1>9, <2>3
    <3>2. e[i] = events[i - Len(c)] /\ e[i + 1] = events[(i - Len(c)) + 1]
      BY <1>9, <3>1
    <3> QED
      BY <3>1, <3>2 DEF Walking
  <2>4. i \in Nat /\ Len(c) \in Nat
    <3>1. Len(e) \in Nat /\ Len(c) \in Nat
      BY <1>3, <1>9
    <3> QED
      BY <3>1
  <2> QED
    BY <2>1, <2>2, <2>3, <2>4
<1>13. e[1] = IF End(n) = n THEN Leaving(n) ELSE Entering(n + 1)
  <2>1. CASE c = << >>
    <3>1. Len(c) = 0 /\ End(n) = n
      BY <1>1, <2>1, EmptySeq DEF AreChildren
    <3> QED
      BY <1>9, <3>1
  <2>2. CASE c # << >>
    <3>1. 1 \in 1 .. Len(c) /\ End(n) # n /\ c[1] = n + 1
      <4>1. Len(c) # 0
        BY <1>3, <2>2, EmptySeq
      <4> QED
        BY <1>1, <1>3, <2>2, <4>1 DEF AreChildren
    <3> QED
      BY <1>9, <3>1
  <2> QED
    BY <2>1, <2>2
<1> QED
  BY <1>9, <1>10, <1>11, <1>12, <1>13

(* Entering a node.                                                        *)
LEMMA EnterProgress ==
  ASSUME Walking, NEW n \in 1 .. Size, At(n, FALSE), tree' = tree, events' = Entrance(n)
  PROVE  /\ Walking'
         /\ Inside = Above(n) /\ Inside' = Above(n) \cup {n}
         /\ Entered = 1 .. n - 1 /\ Entered' = 1 .. n
<1>0. IsTree(tree)
  BY TreeIsTree
<1>1. /\ n \in Nat /\ End(n) \in Nat /\ n <= End(n) /\ Size \in Nat
      /\ \A m \in n .. End(n) : m \in 1 .. Size /\ End(m) <= End(n)
  BY <1>0, TreeFacts
<1>2. /\ events # << >> /\ Head(events) = events[1]
      /\ events[1].node = n /\ events[1].leaving = FALSE
  BY AtFacts
<1>3. Inside = Above(n) /\ Entered = 1 .. n - 1
  BY <1>2 DEF Inside, Entered
<1>4. /\ events' \in Seq(EventType) /\ events' # << >> /\ events'[Len(events')].node = 1
      /\ \A i \in 1 .. Len(events') - 1 :
            events'[i].node # 1 /\ events'[i + 1] = After(events'[i].node)
      /\ events'[1] = IF End(n) = n THEN Leaving(n) ELSE Entering(n + 1)
  BY Advances
<1>5. Size' = Size /\ \A m : After(m)' = After(m) /\ Above(m)' = Above(m) /\ End(m)' = End(m)
  BY TreeStays
<1>6. Walking'
  <2>1. tree' \in Trees
    BY DEF Walking
  <2>2. events' \in Seq([node : 1 .. Size', leaving : BOOLEAN])
    BY <1>4, <1>5 DEF EventType
  <2>3. (\A i \in 1 .. Len(events) - 1 :
            events[i].node # 1 /\ events[i + 1] = After(events[i].node))'
    BY <1>4, <1>5
  <2> QED
    BY <1>4, <2>1, <2>2, <2>3 DEF Walking
<1>7. Head(events') = events'[1]
  BY <1>4
<1>8. CASE End(n) = n
  <2>1. Head(events').node = n /\ Head(events').leaving = TRUE
    BY <1>4, <1>7, <1>8 DEF Leaving
  <2>2. Inside' = Above(n) \cup {n} /\ Entered' = 1 .. End(n)
    BY <1>4, <1>5, <2>1 DEF Inside, Entered
  <2> QED
    BY <1>3, <1>6, <1>8, <2>2
<1>9. CASE End(n) # n
  <2>1. Head(events').node = n + 1 /\ Head(events').leaving = FALSE
    BY <1>4, <1>7, <1>9 DEF Entering
  <2>2. Inside' = Above(n + 1) /\ Entered' = 1 .. (n + 1) - 1
    BY <1>4, <1>5, <2>1 DEF Inside, Entered
  <2>3. (n + 1) - 1 = n
    BY <1>1
  <2>4. n + 1 \in 1 .. Size /\ n + 1 <= End(n)
    BY <1>1, <1>9
  <2>5. Above(n + 1) = Above(n) \cup {n}
    <3>1. n \in Above(n + 1)
      BY <1>0, <1>1, <2>4, AboveFacts
    <3>2. ASSUME NEW a \in Above(n) PROVE a \in Above(n + 1)
      BY <1>0, <2>4, <3>1, AboveIsTransitive
    <3>3. ASSUME NEW a \in Above(n + 1) PROVE a \in Above(n) \cup {n}
      <4>1. a \in 1 .. Size /\ a < n + 1 /\ n + 1 <= End(a) /\ End(a) \in Nat
        BY <1>0, <2>4, <3>3, AboveFacts, TreeFacts
      <4>2. a = n \/ (a < n /\ n <= End(a))
        BY <1>1, <4>1
      <4> QED
        BY <1>0, <4>1, <4>2, AboveFacts
    <3> QED
      BY <3>1, <3>2, <3>3
  <2> QED
    BY <1>3, <1>6, <2>2, <2>3, <2>5
<1> QED
  BY <1>8, <1>9

(* Leaving it.                                                             *)
LEMMA LeaveProgress ==
  ASSUME Walking, NEW n \in 1 .. Size, At(n, TRUE), tree' = tree, events' = Tail(events)
  PROVE  /\ Walking'
         /\ Inside = Above(n) \cup {n} /\ Inside' = Above(n)
         /\ Entered = 1 .. End(n) /\ Entered' = 1 .. End(n)
<1>0. IsTree(tree)
  BY TreeIsTree
<1>1. /\ n \in Nat /\ End(n) \in Nat /\ n <= End(n) /\ End(n) <= Size /\ Size \in Nat
      /\ End(1) = Size
      /\ \A m \in n .. End(n) : m \in 1 .. Size /\ End(m) <= End(n)
  BY <1>0, TreeFacts
<1>2. /\ events # << >> /\ Head(events) = events[1]
      /\ events[1].node = n /\ events[1].leaving = TRUE
      /\ Len(events) \in Nat /\ Len(events) >= 1
      /\ n = 1 <=> Len(events) = 1
      /\ n # 1 => events[2] = After(n)
  BY AtFacts
<1>3. Inside = Above(n) \cup {n} /\ Entered = 1 .. End(n)
  BY <1>2 DEF Inside, Entered
<1>4. events \in Seq(EventType)
  BY DEF Walking, EventType
<1>5. /\ events' \in Seq(EventType) /\ Len(events') = Len(events) - 1
      /\ \A i \in 1 .. Len(events) - 1 : events'[i] = events[i + 1]
  BY <1>2, <1>4, HeadTailProperties
<1>6. Size' = Size /\ \A m : After(m)' = After(m) /\ Above(m)' = Above(m) /\ End(m)' = End(m)
  BY TreeStays
<1>7. Walking'
  <2>1. tree' \in Trees
    BY DEF Walking
  <2>2. events' \in Seq([node : 1 .. Size', leaving : BOOLEAN])
    BY <1>5, <1>6 DEF EventType
  <2>3. ASSUME NEW i \in 1 .. Len(events') - 1
        PROVE  events'[i].node # 1 /\ events'[i + 1] = After(events'[i].node)
    <3>1. /\ i \in 1 .. Len(events) - 1 /\ i + 1 \in 1 .. Len(events) - 1
          /\ (i + 1) + 1 = i + 2
      BY <1>2, <1>5
    <3>2. events'[i] = events[i + 1] /\ events'[i + 1] = events[(i + 1) + 1]
      BY <1>5, <3>1
    <3>3. events[i + 1].node # 1 /\ events[(i + 1) + 1] = After(events[i + 1].node)
      BY <3>1 DEF Walking
    <3> QED
      BY <3>2, <3>3
  <2>5. (\A i \in 1 .. Len(events) - 1 :
            events[i].node # 1 /\ events[i + 1] = After(events[i].node))'
    BY <1>6, <2>3
  <2>4. ASSUME events' # << >> PROVE events'[Len(events')].node = 1
    <3>1. Len(events') # 0
      BY <1>5, <2>4, EmptySeq
    <3>2. Len(events') \in 1 .. Len(events) - 1 /\ Len(events') + 1 = Len(events)
      BY <1>2, <1>5, <3>1
    <3>3. events'[Len(events')] = events[Len(events)]
      BY <1>5, <3>2
    <3> QED
      BY <1>2, <3>3 DEF Walking
  <2> QED
    BY <2>1, <2>2, <2>4, <2>5 DEF Walking
<1>8. CASE n = 1
  <2>1. events' = << >>
    BY <1>2, <1>5, <1>8, EmptySeq
  <2>2. Inside' = {} /\ Entered' = 1 .. Size
    BY <1>6, <2>1 DEF Inside, Entered
  <2>3. Above(n) = {}
    BY <1>0, <1>8, AboveFacts
  <2> QED
    BY <1>1, <1>3, <1>7, <1>8, <2>2, <2>3
<1>9. CASE n # 1
  <2>0. Len(events) \in Nat /\ Len(events) >= 1 /\ Len(events) # 1
    BY <1>2, <1>9
  <2>1. events' # << >> /\ 1 \in 1 .. Len(events) - 1
    <3>1. \A k \in Nat : k >= 1 /\ k # 1 => 1 \in 1 .. k - 1 /\ k - 1 # 0
      OBVIOUS
    <3>2. 1 \in 1 .. Len(events) - 1 /\ Len(events') # 0
      BY <1>5, <2>0, <3>1
    <3> QED
      BY <3>2, EmptySeq
  <2>2. events'[1] = events[1 + 1] /\ events'[1] = Head(events')
    BY <1>5, <2>1
  <2>3. Head(events') = After(n)
    BY <1>2, <1>9, <2>2, 1 + 1 = 2
  <2>4. /\ Up(n) \in 1 .. Size /\ Up(n) < n /\ n <= End(Up(n))
        /\ Above(n) = Above(Up(n)) \cup {Up(n)}
    BY <1>0, <1>9, UpFacts
  <2>5. End(Up(n)) \in Nat /\ End(Up(n)) <= Size /\ End(n) <= End(Up(n))
    <3>1. n \in Up(n) .. End(Up(n))
      BY <1>1, <2>4, TreeFacts, <1>0
    <3> QED
      BY <1>0, <2>4, <3>1, TreeFacts
  <2>6. CASE End(n) < End(Up(n))
    <3> DEFINE m == End(n) + 1
    <3>1. m \in 1 .. Size /\ m - 1 = End(n) /\ m <= End(Up(n)) /\ m \in Nat /\ n < m
      BY <1>1, <2>5, <2>6
    <3>2. Head(events').node = m /\ Head(events').leaving = FALSE
      <4>1. Head(events') = [node |-> m, leaving |-> FALSE]
        BY <2>3, <2>6 DEF After, Entering
      <4>2. \A h, k : h = [node |-> k, leaving |-> FALSE] => h.node = k /\ h.leaving = FALSE
        OBVIOUS
      <4> QED
        BY <4>1, <4>2, Zenon
    <3> HIDE DEF m
    <3>3. Inside' = Above(m) /\ Entered' = 1 .. m - 1
      BY <1>6, <2>1, <3>2 DEF Inside, Entered
    <3>4. Up(n) \in Above(m)
      <4>1. Up(n) < m
        BY <1>1, <2>4, <3>1
      <4> QED
        BY <1>0, <2>4, <3>1, <4>1, AboveFacts
    <3>5. ASSUME NEW a \in Above(n) PROVE a \in Above(m)
      BY <1>0, <2>4, <3>1, <3>4, AboveIsTransitive
    <3>6. ASSUME NEW a \in Above(m) PROVE a \in Above(n)
      <4>1. a \in 1 .. Size /\ a < m /\ m <= End(a) /\ End(a) \in Nat
        BY <1>0, <3>1, AboveFacts, TreeFacts
      <4>2. CASE n <= a
        <5>1. a \in n .. End(n)
          BY <1>1, <3>1, <4>1, <4>2
        <5>2. End(a) <= End(n)
          BY <1>1, <5>1
        <5> QED
          BY <1>1, <3>1, <4>1, <5>2
      <4>3. CASE a < n
        <5>1. n <= End(a)
          BY <1>1, <3>1, <4>1
        <5> QED
          BY <1>0, <4>1, <4>3, <5>1, AboveFacts
      <4> QED
        BY <1>1, <4>1, <4>2, <4>3
    <3>7. Above(m) = Above(n)
      BY <3>5, <3>6
    <3> QED
      BY <1>3, <1>7, <3>1, <3>3, <3>7
  <2>7. CASE ~(End(n) < End(Up(n)))
    <3>1. Head(events').node = Up(n) /\ Head(events').leaving = TRUE
      <4>1. Head(events') = [node |-> Up(n), leaving |-> TRUE]
        BY <2>3, <2>7 DEF After, Leaving
      <4>2. \A h, k : h = [node |-> k, leaving |-> TRUE] => h.node = k /\ h.leaving = TRUE
        OBVIOUS
      <4> QED
        BY <4>1, <4>2, Zenon
    <3>2. Inside' = Above(Up(n)) \cup {Up(n)} /\ Entered' = 1 .. End(Up(n))
      BY <1>6, <2>1, <3>1 DEF Inside, Entered
    <3>3. End(Up(n)) = End(n)
      BY <1>1, <2>5, <2>7
    <3> QED
      BY <1>3, <1>7, <2>4, <3>2, <3>3
  <2> QED
    BY <2>6, <2>7
<1> QED
  BY <1>8, <1>9

-------------------------------------------------------------------------------
(* Stacks: the members of a set of numbers in increasing order *)

InOrder(q, S) ==
  /\ q \in Seq(Nat)
  /\ \A i, j \in 1 .. Len(q) : i < j => q[i] < q[j]
  /\ S = {q[i] : i \in 1 .. Len(q)}

LEMMA InOrderFacts ==
  ASSUME NEW q, NEW S, InOrder(q, S)
  PROVE  /\ Len(q) \in Nat /\ S \in SUBSET Nat
         /\ \A i \in 1 .. Len(q) : q[i] \in S /\ q[i] \in Nat
         /\ S = {} <=> q = << >>
         /\ S # {} => /\ Len(q) \in 1 .. Len(q) /\ Last(q) = q[Len(q)] /\ Last(q) \in S
                      /\ \A m \in S : m <= Last(q)
                      /\ Latest(S) = Last(q)
<1>1. Len(q) \in Nat /\ \A i \in 1 .. Len(q) : q[i] \in S /\ q[i] \in Nat
  BY LenProperties, ElementOfSeq DEF InOrder
<1>2. S \in SUBSET Nat
  BY <1>1 DEF InOrder
<1>3. S = {} => q = << >>
  <2>1. SUFFICES ASSUME q # << >> PROVE S # {}
    OBVIOUS
  <2>2. Len(q) # 0
    BY <1>1, <2>1, EmptySeq DEF InOrder
  <2> QED
    BY <1>1, <2>2
<1>4. q = << >> => S = {}
  <2>1. SUFFICES ASSUME q = << >> PROVE S = {}
    OBVIOUS
  <2>2. Len(q) = 0
    BY <2>1, EmptySeq
  <2>3. 1 .. Len(q) = {}
    BY <2>2
  <2> QED
    BY <2>3 DEF InOrder
<1>5. ASSUME S # {}
      PROVE  /\ Len(q) \in 1 .. Len(q) /\ Last(q) = q[Len(q)] /\ Last(q) \in S
             /\ \A m \in S : m <= Last(q)
             /\ Latest(S) = Last(q)
  <2>1. q # << >>
    BY <1>4, <1>5
  <2>2. Len(q) # 0
    BY <1>1, <2>1, EmptySeq DEF InOrder
  <2>3. Len(q) \in 1 .. Len(q) /\ Last(q) = q[Len(q)]
    BY <1>1, <2>2 DEF Last
  <2>4. ASSUME NEW m \in S PROVE m <= q[Len(q)]
    <3>1. PICK i \in 1 .. Len(q) : m = q[i]
      BY DEF InOrder
    <3>2. i = Len(q) \/ i < Len(q)
      BY <1>1
    <3>3. q[i] \in Nat /\ q[Len(q)] \in Nat
      BY <1>1, <2>3
    <3>4. CASE i < Len(q)
      <4>1. q[i] < q[Len(q)]
        BY <2>3, <3>4 DEF InOrder
      <4> QED
        BY <3>1, <3>3, <4>1
    <3> QED
      BY <3>1, <3>2, <3>3, <3>4
  <2>5. q[Len(q)] \in S
    BY <1>1, <2>3
  <2>6. Latest(S) = q[Len(q)]
    BY <1>2, <2>4, <2>5, LatestIsUnique
  <2> QED
    BY <2>3, <2>4, <2>5, <2>6
<1> QED
  BY <1>1, <1>2, <1>3, <1>4, <1>5

LEMMA InOrderAppend ==
  ASSUME NEW q, NEW S, InOrder(q, S), NEW n \in Nat, \A m \in S : m < n
  PROVE  InOrder(Append(q, n), S \cup {n})
<1> DEFINE r == Append(q, n)
<1>1. /\ r \in Seq(Nat) /\ Len(q) \in Nat /\ Len(r) = Len(q) + 1
      /\ \A i \in 1 .. Len(q) : r[i] = q[i]
      /\ r[Len(q) + 1] = n
  BY AppendFacts DEF InOrder
<1>2. \A i \in 1 .. Len(q) : q[i] \in S /\ q[i] \in Nat
  BY InOrderFacts
<1> HIDE DEF r
<1>3. \A i \in 1 .. Len(r) : i \in 1 .. Len(q) \/ i = Len(q) + 1
  BY <1>1
<1>4. \A i \in 1 .. Len(q) : i \in 1 .. Len(r) /\ i < Len(q) + 1
  BY <1>1
<1>5. Len(q) + 1 \in 1 .. Len(r) /\ \A i \in 1 .. Len(r) : ~(Len(q) + 1 < i)
  BY <1>1
<1>6. ASSUME NEW i \in 1 .. Len(r), NEW j \in 1 .. Len(r), i < j PROVE r[i] < r[j]
  <2>1. i \in 1 .. Len(q)
    BY <1>3, <1>5, <1>6
  <2>2. CASE j \in 1 .. Len(q)
    BY <1>1, <1>6, <2>1, <2>2 DEF InOrder
  <2>3. CASE j = Len(q) + 1
    BY <1>1, <1>2, <2>1, <2>3
  <2> QED
    BY <1>3, <2>2, <2>3
<1>7. S \cup {n} = {r[i] : i \in 1 .. Len(r)}
  <2>1. ASSUME NEW m \in S PROVE m \in {r[i] : i \in 1 .. Len(r)}
    <3>1. PICK i \in 1 .. Len(q) : m = q[i]
      BY DEF InOrder
    <3> QED
      BY <1>1, <1>4, <3>1
  <2>2. n \in {r[i] : i \in 1 .. Len(r)}
    BY <1>1, <1>5
  <2>3. ASSUME NEW i \in 1 .. Len(r) PROVE r[i] \in S \cup {n}
    BY <1>1, <1>2, <1>3
  <2> QED
    BY <2>1, <2>2, <2>3
<1>8. InOrder(r, S \cup {n})
  BY <1>1, <1>6, <1>7 DEF InOrder
<1> QED
  BY <1>8 DEF r

(* All but the last.                                                       *)
LEMMA FrontFacts ==
  ASSUME NEW T, NEW s \in Seq(T), s # << >>
  PROVE  /\ SubSeq(s, 1, Len(s) - 1) \in Seq(T)
         /\ Len(s) \in Nat /\ Len(s) >= 1
         /\ Len(SubSeq(s, 1, Len(s) - 1)) = Len(s) - 1
         /\ \A i \in 1 .. Len(s) - 1 : SubSeq(s, 1, Len(s) - 1)[i] = s[i]
<1>1. Len(s) \in Nat /\ Len(s) >= 1
  <2>1. Len(s) \in Nat /\ Len(s) # 0
    BY LenProperties, EmptySeq
  <2> QED
    BY <2>1
<1>2. \A i \in 1 .. Len(s) - 1 : i \in 1 .. Len(s) /\ s[i] \in T
  BY <1>1, ElementOfSeq
<1>3. SubSeq(s, 1, Len(s) - 1) = [i \in 1 .. Len(s) - 1 |-> s[i]]
  <2>1. (1 - 1) + 0 = 0 /\ 1 + ((Len(s) - 1) - 1) = Len(s) - 1
    BY <1>1
  <2> QED
    BY <1>1
<1> DEFINE r == [i \in 1 .. Len(s) - 1 |-> s[i]]
<1>4. r \in Seq(T) /\ Len(r) = Len(s) - 1
  BY <1>1, <1>2
<1> QED
  BY <1>1, <1>3, <1>4

LEMMA InOrderFront ==
  ASSUME NEW q, NEW S, InOrder(q, S), NEW n \in S, \A m \in S : m <= n
  PROVE  InOrder(SubSeq(q, 1, Len(q) - 1), S \ {n})
<1> DEFINE r == SubSeq(q, 1, Len(q) - 1)
<1>1. /\ Len(q) \in Nat /\ S \in SUBSET Nat /\ q # << >> /\ Len(q) \in 1 .. Len(q)
      /\ \A i \in 1 .. Len(q) : q[i] \in S /\ q[i] \in Nat
      /\ Last(q) = q[Len(q)] /\ Last(q) \in S /\ \A m \in S : m <= Last(q)
  BY InOrderFacts
<1>2. q[Len(q)] = n
  <2>1. n <= q[Len(q)] /\ q[Len(q)] <= n /\ n \in Nat /\ q[Len(q)] \in Nat
    BY <1>1
  <2> QED
    BY <2>1
<1>3. /\ r \in Seq(Nat) /\ Len(r) = Len(q) - 1
      /\ \A i \in 1 .. Len(q) - 1 : r[i] = q[i]
  BY <1>1, FrontFacts DEF InOrder
<1> HIDE DEF r
<1>4. /\ \A i \in 1 .. Len(r) : i \in 1 .. Len(q) - 1 /\ i \in 1 .. Len(q) /\ i < Len(q)
      /\ \A i \in 1 .. Len(q) : i = Len(q) \/ i \in 1 .. Len(r)
  BY <1>1, <1>3
<1>5. \A i \in 1 .. Len(r) : r[i] = q[i] /\ q[i] < n
  BY <1>1, <1>2, <1>3, <1>4 DEF InOrder
<1>6. \A i, j \in 1 .. Len(r) : i < j => r[i] < r[j]
  BY <1>4, <1>5 DEF InOrder
<1>7. S \ {n} = {r[i] : i \in 1 .. Len(r)}
  <2>1. ASSUME NEW m \in S \ {n} PROVE m \in {r[i] : i \in 1 .. Len(r)}
    <3>1. PICK i \in 1 .. Len(q) : m = q[i]
      BY DEF InOrder
    <3>2. i \in 1 .. Len(r)
      BY <1>2, <1>4, <3>1
    <3> QED
      BY <1>5, <3>1, <3>2
  <2>2. ASSUME NEW i \in 1 .. Len(r) PROVE r[i] \in S \ {n}
    <3>1. r[i] = q[i] /\ q[i] \in S /\ q[i] < n /\ n \in Nat
      BY <1>1, <1>4, <1>5
    <3> QED
      BY <3>1
  <2> QED
    BY <2>1, <2>2
<1>8. InOrder(r, S \ {n})
  BY <1>3, <1>6, <1>7 DEF InOrder
<1> QED
  BY <1>8 DEF r

-------------------------------------------------------------------------------
(* Symbols, in terms of the tree alone *)

(* What nothing is a symbol in, and what is in that; the declarations that *)
(* push a scope, and what is a symbol.                                     *)
Shut(n) == Type(n) \in Opaque \/ (IsContainer(n) /\ ~Trusted(n))
Behind(n) == \E a \in Above(n) : Shut(a)
Symbolic(n) == IsContainer(n) /\ Trusted(n) /\ ~Behind(n)
IsDeclared(n) == (IsContainer(n) \/ IsConstant(n)) /\ Trusted(n) /\ ~Behind(n)

Containing(n) == {a \in Above(n) : IsContainer(a)}
ParentOf(n) == IF Containing(n) = {} THEN Nobody ELSE Latest(Containing(n))

(* An export statement is around, with no class body and no statement      *)
(* block between it and the node.                                          *)
InExport(A) ==
  LET exports == {a \in A : Type(a) = "export"}
  IN exports # {} /\ \A a \in A : Type(a) \in {"class_body", "block"} => a < Latest(exports)

PartsOf(n) == IF Type(n) = "fields" THEN {1, 2} ELSE {1}
SymbolsAt(n) ==
  {[node |-> n, part |-> i, parent |-> ParentOf(n), exported |-> InExport(Above(n))] :
      i \in IF IsDeclared(n) THEN PartsOf(n) ELSE {}}

Surrounding(n) == {a \in Above(n) : IsContainer(a) \/ Type(a) \in Opaque}
IsOwned(n) ==
  /\ Surrounding(n) # {} /\ Symbolic(Latest(Surrounding(n)))
  /\ Type(Latest(Surrounding(n))) \in Callables
  /\ \A a \in Above(n) : Type(a) = "decorator" =>
        tree.language = "python" /\ a < Latest(Surrounding(n))
CallerOf(n) == IF IsOwned(n) THEN Latest(Surrounding(n)) ELSE Nobody
CallsAt(n) ==
  IF Type(n) = "call" /\ Trusted(n) THEN {[node |-> n, caller |-> CallerOf(n)]} ELSE {}

LEMMA SymbolsStay ==
  ASSUME tree' = tree
  PROVE  \A n : /\ Shut(n)' = Shut(n) /\ Behind(n)' = Behind(n) /\ Symbolic(n)' = Symbolic(n)
                /\ SymbolsAt(n)' = SymbolsAt(n) /\ CallsAt(n)' = CallsAt(n)
<1>1. /\ Size' = Size
      /\ \A n : /\ Type(n)' = Type(n) /\ End(n)' = End(n) /\ Above(n)' = Above(n)
                /\ Up(n)' = Up(n) /\ Trusted(n)' = Trusted(n)
  BY TreeStays
<1>2. \A n : IsContainer(n)' = IsContainer(n)
  BY <1>1 DEF IsContainer, IsMember, HoldsMembers
<1>3. \A n : Shut(n)' = Shut(n)
  BY <1>1, <1>2 DEF Shut
<1>4. \A n : Behind(n)' = Behind(n)
  BY <1>1, <1>3 DEF Behind
<1>5. \A n : Symbolic(n)' = Symbolic(n)
  BY <1>1, <1>2, <1>4 DEF Symbolic
<1>6. \A n : Containing(n)' = Containing(n)
  BY <1>1, <1>2 DEF Containing
<1>7. \A n : ParentOf(n)' = ParentOf(n)
  <2>1. \A n : Latest(Containing(n))' = Latest(Containing(n))
    BY <1>6 DEF Latest
  <2> QED
    BY <1>6, <2>1 DEF ParentOf
<1>8. \A n : IsModuleDeclaration(n)' = IsModuleDeclaration(n)
  BY <1>1 DEF IsModuleDeclaration
<1>9. \A n : {a \in Above(n) : IsContainer(a)}' = {a \in Above(n) : IsContainer(a)}
  BY <1>1, <1>2
<1>10. \A n : IsConstant(n)' = IsConstant(n)
  BY <1>1, <1>8, <1>9 DEF IsConstant, Latest
<1>11. \A n : IsDeclared(n)' = IsDeclared(n)
  BY <1>1, <1>2, <1>4, <1>10 DEF IsDeclared
<1>12. \A n : PartsOf(n)' = PartsOf(n)
  BY <1>1 DEF PartsOf
<1>13. \A n : InExport(Above(n))' = InExport(Above(n))
  BY <1>1 DEF InExport, Latest
<1>14. \A n : SymbolsAt(n)' = SymbolsAt(n)
  BY <1>7, <1>11, <1>12, <1>13 DEF SymbolsAt
<1>15. \A n : Surrounding(n)' = Surrounding(n)
  BY <1>1, <1>2 DEF Surrounding
<1>16. \A n : Latest(Surrounding(n))' = Latest(Surrounding(n))
  BY <1>15 DEF Latest
<1>17. \A n : IsOwned(n)' = IsOwned(n)
  BY <1>1, <1>5, <1>15, <1>16 DEF IsOwned
<1>18. \A n : CallsAt(n)' = CallsAt(n)
  BY <1>1, <1>16, <1>17 DEF CallsAt, CallerOf
<1> QED
  BY <1>3, <1>4, <1>5, <1>14, <1>18

(* What a node is depends on its type.                                     *)
LEMMA KindFacts ==
  ASSUME IsTree(tree), NEW n \in 1 .. Size
  PROVE  /\ IsContainer(n) =>
               /\ Type(n) \in {"class", "interface", "function", "binding", "method"}
               /\ Type(n) \notin Opaque /\ n # 1
         /\ Type(n) \in {"class", "interface", "function", "binding"} => IsContainer(n)
         /\ Shut(n) => Type(n) \in Opaque \/ IsContainer(n)
         /\ Symbolic(n) => ~Shut(n)
<1>1. Type(1) \in {"program", "ERROR"}
  BY TreeFacts
<1>2. Type(n) \in Opaque <=> Type(n) \in {"record", "anonymous", "namespace", "class_expression"}
  BY DEF Opaque
<1>3. IsContainer(n) =>
         Type(n) \in {"class", "interface", "function", "binding", "method"}
  BY DEF IsContainer, IsMember, Containers
<1>4. Type(n) \in {"class", "interface", "function", "binding"} => IsContainer(n)
  BY DEF IsContainer, Containers
<1>5. IsContainer(n) => Type(n) \notin Opaque /\ n # 1
  BY <1>1, <1>2, <1>3
<1>6. Symbolic(n) => ~Shut(n)
  BY <1>5 DEF Symbolic, Shut
<1> QED
  BY <1>3, <1>4, <1>5, <1>6 DEF Shut

(* What is behind something shut is behind something that is not itself    *)
(* behind anything.                                                        *)
LEMMA OutermostShut ==
  ASSUME IsTree(tree), NEW n \in 1 .. Size, Behind(n)
  PROVE  \E a \in Above(n) : Shut(a) /\ ~Behind(a)
<1> DEFINE S == {a \in Above(n) : Shut(a)}
<1>1. S \in SUBSET Nat /\ S # {}
  BY AboveFacts DEF Behind
<1>2. PICK m \in S : \A a \in S : m <= a
  BY <1>1, Least
<1>3. m \in Above(n) /\ Shut(m) /\ m \in 1 .. Size
  BY <1>2, AboveFacts
<1>4. ASSUME Behind(m) PROVE FALSE
  <2>1. PICK a \in Above(m) : Shut(a)
    BY <1>4 DEF Behind
  <2>2. a \in S
    BY <1>3, <2>1, AboveIsTransitive
  <2>3. a < m /\ m <= a /\ a \in Nat /\ m \in Nat
    BY <1>1, <1>2, <1>3, <2>1, <2>2, AboveFacts
  <2> QED
    BY <2>3
<1> QED
  BY <1>3, <1>4

LEMMA BehindFacts ==
  ASSUME IsTree(tree), NEW n \in 1 .. Size, NEW a \in Above(n)
  PROVE  /\ Shut(a) => Behind(n)
         /\ Behind(a) => Behind(n)
         /\ ~Behind(n) /\ IsContainer(a) => Symbolic(a)
<1>1. Shut(a) => Behind(n)
  BY DEF Behind
<1>2. Behind(a) => Behind(n)
  BY AboveIsTransitive DEF Behind
<1> QED
  BY <1>1, <1>2 DEF Symbolic, Shut

(* What is behind nothing is in symbols only.                              *)
LEMMA ContainingIsSymbolic ==
  ASSUME IsTree(tree), NEW n \in 1 .. Size, ~Behind(n)
  PROVE  Containing(n) = {a \in Above(n) : Symbolic(a)}
BY BehindFacts DEF Containing, Symbolic

-------------------------------------------------------------------------------
(* What the stacks say *)

Owning ==
  pushed.scope \cup pushed.barrier \cup
      (IF tree.language = "python" THEN pushed.decorator ELSE {})
OwnerBy(n) == IF n \in pushed.scope /\ Type(n) \in Callables THEN n ELSE Nobody

(* The open nodes that have pushed something.                              *)
Marked ==
  /\ pushed \in [scope : SUBSET Nat, barrier : SUBSET Nat, decorator : SUBSET Nat]
  /\ pushed.scope = {a \in Inside : Symbolic(a)}
  /\ pushed.decorator = {a \in Inside : Type(a) = "decorator"}
  /\ pushed.barrier \subseteq Inside
  /\ \A b \in pushed.barrier : (Shut(b) \/ Behind(b)) /\ Type(b) # "decorator"
  /\ \A a \in Inside : Shut(a) /\ ~Behind(a) => a \in pushed.barrier

Counted == IsFiniteSet(pushed.barrier) /\ barriers = Cardinality(pushed.barrier)

Owned ==
  \E w : /\ InOrder(w, Owning)
         /\ owners \in Seq(Nat \cup {Nobody}) /\ Len(owners) = Len(w)
         /\ \A i \in 1 .. Len(w) : owners[i] = OwnerBy(w[i])

OnStacks == Marked /\ Counted /\ InOrder(scopes, pushed.scope) /\ Owned

(* No barrier is open exactly if the next node is behind nothing.          *)
LEMMA BarriersFacts ==
  ASSUME IsTree(tree), NEW n \in 1 .. Size, Inside = Above(n), Marked, Counted
  PROVE  /\ barriers \in Nat
         /\ barriers = 0 <=> ~Behind(n)
         /\ barriers > 0 <=> Behind(n)
<1>1. barriers \in Nat /\ (barriers = 0 <=> pushed.barrier = {})
  BY FS_CardinalityType, FS_EmptySet DEF Counted
<1>2. ASSUME NEW b \in pushed.barrier PROVE Behind(n)
  <2>1. b \in Above(n) /\ (Shut(b) \/ Behind(b))
    BY DEF Marked
  <2> QED
    BY <2>1, BehindFacts
<1>3. ASSUME Behind(n) PROVE pushed.barrier # {}
  <2>1. PICK a \in Above(n) : Shut(a) /\ ~Behind(a)
    BY <1>3, OutermostShut
  <2> QED
    BY <2>1 DEF Marked
<1>4. barriers = 0 <=> ~Behind(n)
  BY <1>1, <1>2, <1>3
<1> QED
  BY <1>1, <1>4

(* Then the stack of scopes has what contains the node, the last of which  *)
(* is its parent.                                                          *)
LEMMA ScopesFacts ==
  ASSUME IsTree(tree), NEW n \in 1 .. Size, Inside = Above(n), OnStacks, ~Behind(n)
  PROVE  /\ scopes = << >> <=> Containing(n) = {}
         /\ Containing(n) # {} => Last(scopes) = Latest(Containing(n))
         /\ Parent = ParentOf(n)
         /\ n # 1 /\ Type(Up(n)) \in {"class", "interface"} =>
               /\ Symbolic(Up(n)) /\ scopes # << >> /\ Last(scopes) = Up(n)
         /\ n # 1 /\ Type(Up(n)) \in BodyTypes /\ Type(Up(Up(n))) \in {"class", "interface"} =>
               /\ Symbolic(Up(Up(n))) /\ scopes # << >> /\ Last(scopes) = Up(Up(n))
<1>1. pushed.scope = Containing(n)
  BY ContainingIsSymbolic DEF OnStacks, Marked
<1>2. InOrder(scopes, Containing(n))
  BY <1>1 DEF OnStacks
<1>3. scopes = << >> <=> Containing(n) = {}
  BY <1>2, InOrderFacts
<1>4. Containing(n) # {} => Last(scopes) = Latest(Containing(n))
  BY <1>2, InOrderFacts
<1>5. Parent = ParentOf(n)
  BY <1>3, <1>4 DEF Parent, ParentOf
<1>6. ASSUME n # 1, Type(Up(n)) \in {"class", "interface"}
      PROVE  Symbolic(Up(n)) /\ scopes # << >> /\ Last(scopes) = Up(n)
  <2>1. Up(n) \in Above(n) /\ Up(n) \in 1 .. Size /\ \A a \in Above(n) : a <= Up(n)
    BY <1>6, UpFacts
  <2>2. IsContainer(Up(n))
    BY <1>6, <2>1, KindFacts
  <2>3. Symbolic(Up(n))
    BY <2>1, <2>2, BehindFacts
  <2>4. Up(n) \in Containing(n)
    BY <2>1, <2>2 DEF Containing
  <2>5. Containing(n) \in SUBSET Nat /\ \A a \in Containing(n) : a <= Up(n)
    BY <2>1, AboveFacts DEF Containing
  <2>6. Latest(Containing(n)) = Up(n)
    BY <2>4, <2>5, LatestIsUnique
  <2> QED
    BY <1>3, <1>4, <2>3, <2>4, <2>6
<1>7. ASSUME n # 1, Type(Up(n)) \in BodyTypes, Type(Up(Up(n))) \in {"class", "interface"}
      PROVE  Symbolic(Up(Up(n))) /\ scopes # << >> /\ Last(scopes) = Up(Up(n))
  <2>1. Up(n) \in Above(n) /\ Up(n) \in 1 .. Size /\ Above(n) = Above(Up(n)) \cup {Up(n)}
    BY <1>7, UpFacts
  <2>2. Up(n) # 1 /\ ~IsContainer(Up(n))
    BY <1>7, <2>1, TreeFacts, KindFacts DEF BodyTypes
  <2>3. /\ Up(Up(n)) \in Above(Up(n)) /\ Up(Up(n)) \in 1 .. Size
        /\ \A a \in Above(Up(n)) : a <= Up(Up(n))
    BY <2>1, <2>2, UpFacts
  <2>4. IsContainer(Up(Up(n)))
    BY <1>7, <2>3, KindFacts
  <2>5. Up(Up(n)) \in Above(n) /\ Symbolic(Up(Up(n)))
    BY <2>1, <2>3, <2>4, BehindFacts
  <2>6. Up(Up(n)) \in Containing(n)
    BY <2>4, <2>5 DEF Containing
  <2>7. Containing(n) \in SUBSET Nat /\ \A a \in Containing(n) : a <= Up(Up(n))
    BY <2>1, <2>2, <2>3, AboveFacts DEF Containing
  <2>8. Latest(Containing(n)) = Up(Up(n))
    BY <2>6, <2>7, LatestIsUnique
  <2> QED
    BY <1>3, <1>4, <2>5, <2>6, <2>8
<1> QED
  BY <1>3, <1>4, <1>5, <1>6, <1>7

(* The stack of owners follows the set of those that are on it.            *)
LEMMA OwnersStay ==
  ASSUME Owned, Owning' = Owning, owners' = owners,
         \A m \in Owning : OwnerBy(m)' = OwnerBy(m)
  PROVE  Owned'
<1>1. PICK w : /\ InOrder(w, Owning)
               /\ owners \in Seq(Nat \cup {Nobody}) /\ Len(owners) = Len(w)
               /\ \A i \in 1 .. Len(w) : owners[i] = OwnerBy(w[i])
  BY DEF Owned
<1>2. \A i \in 1 .. Len(w) : w[i] \in Owning
  BY <1>1, InOrderFacts
<1>3. \A i \in 1 .. Len(w) : owners'[i] = OwnerBy(w[i])'
  BY <1>1, <1>2
<1>4. InOrder(w, Owning')
  BY <1>1
<1>5. InOrder(w, Owning)'
  BY <1>4 DEF InOrder
<1> QED
  BY <1>1, <1>3, <1>5 DEF Owned

LEMMA OwnersGrow ==
  ASSUME Owned, NEW n \in Nat, \A m \in Owning : m < n,
         Owning' = Owning \cup {n}, owners' = Append(owners, OwnerBy(n)'),
         OwnerBy(n)' \in Nat \cup {Nobody},
         \A m \in Owning : OwnerBy(m)' = OwnerBy(m)
  PROVE  Owned'
<1>1. PICK w : /\ InOrder(w, Owning)
               /\ owners \in Seq(Nat \cup {Nobody}) /\ Len(owners) = Len(w)
               /\ \A i \in 1 .. Len(w) : owners[i] = OwnerBy(w[i])
  BY DEF Owned
<1>2. Len(w) \in Nat /\ \A i \in 1 .. Len(w) : w[i] \in Owning
  BY <1>1, InOrderFacts
<1> DEFINE v == Append(w, n)
<1>3. InOrder(v, Owning \cup {n})
  BY <1>1, InOrderAppend
<1>4. Len(v) = Len(w) + 1 /\ v[Len(w) + 1] = n /\ \A i \in 1 .. Len(w) : v[i] = w[i]
  BY <1>1, AppendFacts DEF InOrder
<1> HIDE DEF v
<1>5. /\ owners' \in Seq(Nat \cup {Nobody}) /\ Len(owners') = Len(owners) + 1
      /\ \A i \in 1 .. Len(owners) : owners'[i] = owners[i]
      /\ owners'[Len(owners) + 1] = OwnerBy(n)'
  BY <1>1, AppendFacts
<1>6. Len(owners') = Len(v)
  BY <1>1, <1>4, <1>5
<1>7. ASSUME NEW i \in 1 .. Len(v) PROVE owners'[i] = OwnerBy(v[i])'
  <2>1. i \in 1 .. Len(w) \/ i = Len(w) + 1
    BY <1>2, <1>4
  <2>2. CASE i \in 1 .. Len(w)
    BY <1>1, <1>2, <1>4, <1>5, <2>2
  <2>3. CASE i = Len(w) + 1
    <3>1. v[i] = n /\ owners'[i] = OwnerBy(n)'
      BY <1>1, <1>4, <1>5, <2>3
    <3> QED
      BY <3>1
  <2> QED
    BY <2>1, <2>2, <2>3
<1>8. InOrder(v, Owning)'
  BY <1>3 DEF InOrder
<1> QED
  BY <1>5, <1>6, <1>7, <1>8 DEF Owned

LEMMA OwnersShrink ==
  ASSUME Owned, NEW n \in Owning, \A m \in Owning : m <= n,
         Owning' = Owning \ {n}, owners' = SubSeq(owners, 1, Len(owners) - 1),
         \A m \in Owning \ {n} : OwnerBy(m)' = OwnerBy(m)
  PROVE  Owned'
<1>1. PICK w : /\ InOrder(w, Owning)
               /\ owners \in Seq(Nat \cup {Nobody}) /\ Len(owners) = Len(w)
               /\ \A i \in 1 .. Len(w) : owners[i] = OwnerBy(w[i])
  BY DEF Owned
<1> DEFINE v == SubSeq(w, 1, Len(w) - 1)
<1>2. w # << >> /\ Len(w) \in Nat /\ w \in Seq(Nat)
  BY <1>1, InOrderFacts DEF InOrder
<1>3. InOrder(v, Owning \ {n})
  BY <1>1, InOrderFront
<1>4. Len(v) = Len(w) - 1 /\ \A i \in 1 .. Len(w) - 1 : v[i] = w[i]
  BY <1>2, FrontFacts
<1> HIDE DEF v
<1>5. owners # << >>
  <2>1. Len(w) # 0
    BY <1>2, EmptySeq
  <2> QED
    BY <1>1, <2>1, EmptySeq
<1>6. /\ owners' \in Seq(Nat \cup {Nobody}) /\ Len(owners') = Len(owners) - 1
      /\ \A i \in 1 .. Len(owners) - 1 : owners'[i] = owners[i]
  BY <1>1, <1>5, FrontFacts
<1>7. Len(owners') = Len(v)
  BY <1>1, <1>4, <1>6
<1>8. ASSUME NEW i \in 1 .. Len(v) PROVE owners'[i] = OwnerBy(v[i])'
  <2>1. i \in 1 .. Len(w) /\ i \in 1 .. Len(w) - 1
    BY <1>2, <1>4
  <2>2. v[i] \in Owning \ {n}
    BY <1>3, InOrderFacts
  <2>3. owners'[i] = OwnerBy(w[i]) /\ v[i] = w[i]
    BY <1>1, <1>4, <1>6, <2>1
  <2> QED
    BY <2>2, <2>3
<1>9. InOrder(v, Owning)'
  BY <1>3 DEF InOrder
<1> QED
  BY <1>6, <1>7, <1>8, <1>9 DEF Owned

(* What entering a node may do to the stacks: a symbol pushes a scope, what *)
(* is shut, or a declaration behind that, a barrier; a decorator is noted.  *)
Scoping(n) ==
  /\ Symbolic(n)
  /\ scopes' = Append(scopes, n) /\ barriers' = barriers
  /\ owners' = Append(owners, IF Type(n) \in Callables THEN n ELSE Nobody)
  /\ pushed' = [pushed EXCEPT !.scope = @ \cup {n}]

Barring(n) ==
  /\ Shut(n) \/ Behind(n)
  /\ Type(n) # "decorator"
  /\ scopes' = scopes /\ barriers' = barriers + 1
  /\ owners' = Append(owners, Nobody)
  /\ pushed' = [pushed EXCEPT !.barrier = @ \cup {n}]

Decorating(n) ==
  /\ Type(n) = "decorator"
  /\ scopes' = scopes /\ barriers' = barriers
  /\ owners' = IF tree.language = "python" THEN Append(owners, Nobody) ELSE owners
  /\ pushed' = [pushed EXCEPT !.decorator = @ \cup {n}]

Keeping(n) ==
  /\ ~Symbolic(n) /\ (Shut(n) => Behind(n)) /\ Type(n) # "decorator"
  /\ scopes' = scopes /\ barriers' = barriers /\ owners' = owners /\ pushed' = pushed

Stacking(n) == Scoping(n) \/ Barring(n) \/ Decorating(n) \/ Keeping(n)

(* The sets of pushed after a step.                                        *)
Marking(n, S, B, D) ==
  /\ S \in SUBSET {n} /\ B \in SUBSET {n} /\ D \in SUBSET {n}
  /\ pushed' = [scope |-> pushed.scope \cup S, barrier |-> pushed.barrier \cup B,
                decorator |-> pushed.decorator \cup D]
  /\ n \in S <=> Symbolic(n)
  /\ n \in B => (Shut(n) \/ Behind(n)) /\ Type(n) # "decorator"
  /\ Shut(n) /\ ~Behind(n) => n \in B
  /\ n \in D <=> Type(n) = "decorator"

LEMMA MarkedGrows ==
  ASSUME IsTree(tree), NEW n \in 1 .. Size, tree' = tree,
         Inside = Above(n), Inside' = Above(n) \cup {n}, Marked,
         NEW S, NEW B, NEW D, Marking(n, S, B, D)
  PROVE  Marked'
<1> USE DEF Marking
<1>1. \A m : /\ Type(m)' = Type(m) /\ Shut(m)' = Shut(m) /\ Behind(m)' = Behind(m)
             /\ Symbolic(m)' = Symbolic(m)
  BY TreeStays, SymbolsStay
<1>2. n \in Nat
  BY TreeFacts
<1>3. /\ pushed'.scope = pushed.scope \cup S
      /\ pushed'.barrier = pushed.barrier \cup B
      /\ pushed'.decorator = pushed.decorator \cup D
  OBVIOUS
<1>4. pushed.scope \in SUBSET Nat /\ pushed.barrier \in SUBSET Nat /\ pushed.decorator \in SUBSET Nat
  BY DEF Marked
<1>5. pushed' \in [scope : SUBSET Nat, barrier : SUBSET Nat, decorator : SUBSET Nat]
  <2>1. S \in SUBSET Nat /\ B \in SUBSET Nat /\ D \in SUBSET Nat
    BY <1>2
  <2> QED
    BY <1>4, <2>1
<1>6. pushed'.scope = {a \in Inside' : Symbolic(a)'}
  <2>1. pushed.scope = {a \in Above(n) : Symbolic(a)}
    BY DEF Marked
  <2>2. S = {a \in {n} : Symbolic(a)}
    OBVIOUS
  <2> QED
    BY <1>1, <1>3, <2>1, <2>2
<1>7. pushed'.decorator = {a \in Inside' : Type(a)' = "decorator"}
  <2>1. pushed.decorator = {a \in Above(n) : Type(a) = "decorator"}
    BY DEF Marked
  <2>2. D = {a \in {n} : Type(a) = "decorator"}
    OBVIOUS
  <2> QED
    BY <1>1, <1>3, <2>1, <2>2
<1>8. pushed'.barrier \subseteq Inside'
  BY <1>3 DEF Marked
<1>9. \A b \in pushed'.barrier : (Shut(b)' \/ Behind(b)') /\ Type(b)' # "decorator"
  BY <1>1, <1>3 DEF Marked
<1>10. \A a \in Inside' : Shut(a)' /\ ~Behind(a)' => a \in pushed'.barrier
  BY <1>1, <1>3 DEF Marked
<1> QED
  BY <1>5, <1>6, <1>7, <1>8, <1>9, <1>10 DEF Marked

LEMMA OwningFacts ==
  ASSUME IsTree(tree), NEW n \in 1 .. Size, Inside = Above(n), Marked
  PROVE  /\ Owning \subseteq Above(n)
         /\ \A m \in Owning : m \in Nat /\ m < n
         /\ \A m \in pushed.scope : m \in Nat /\ m < n
         /\ n \notin pushed.scope /\ n \notin pushed.barrier /\ n \notin pushed.decorator
<1>1. /\ pushed.scope \subseteq Above(n) /\ pushed.barrier \subseteq Above(n)
      /\ pushed.decorator \subseteq Above(n)
  BY DEF Marked
<1>2. n \in Nat /\ \A a \in Above(n) : a \in Nat /\ a < n
  BY TreeFacts, AboveFacts
<1>3. n \notin Above(n)
  BY <1>2
<1> QED
  BY <1>1, <1>2, <1>3 DEF Owning

LEMMA StackingKeeps ==
  ASSUME IsTree(tree), NEW n \in 1 .. Size, tree' = tree,
         Inside = Above(n), Inside' = Above(n) \cup {n}, OnStacks, Stacking(n)
  PROVE  OnStacks' /\ pushed'.scope = {a \in Above(n) \cup {n} : Symbolic(a)}
<1>0. Marked /\ Counted /\ InOrder(scopes, pushed.scope) /\ Owned
  BY DEF OnStacks
<1>1. /\ n \in Nat /\ Owning \subseteq Above(n)
      /\ \A m \in Owning : m \in Nat /\ m < n
      /\ \A m \in pushed.scope : m \in Nat /\ m < n
      /\ n \notin pushed.scope /\ n \notin pushed.barrier /\ n \notin pushed.decorator
  BY <1>0, OwningFacts, TreeFacts
<1>2. \A m : Type(m)' = Type(m) /\ Symbolic(m)' = Symbolic(m)
  BY TreeStays, SymbolsStay
<1>3. DOMAIN pushed = {"scope", "barrier", "decorator"}
      /\ pushed = [scope |-> pushed.scope, barrier |-> pushed.barrier,
                   decorator |-> pushed.decorator]
  BY <1>0 DEF Marked
<1>4. Symbolic(n) => ~Shut(n) /\ ~Behind(n) /\ Type(n) # "decorator"
  BY KindFacts DEF Symbolic
<1>5. Marked' => pushed'.scope = {a \in Above(n) \cup {n} : Symbolic(a)}
  BY <1>2 DEF Marked
<1>6. CASE Scoping(n)
  <2>1. pushed' = [scope |-> pushed.scope \cup {n}, barrier |-> pushed.barrier \cup {},
                   decorator |-> pushed.decorator \cup {}]
    BY <1>3, <1>6 DEF Scoping
  <2>2. Marked'
    <3>1. Symbolic(n)
      BY <1>6 DEF Scoping
    <3> QED
      <4>1. Marking(n, {n}, {}, {})
        BY <1>4, <2>1, <3>1 DEF Marking
      <4> QED
        BY <1>0, <4>1, MarkedGrows
  <2>3. pushed'.scope = pushed.scope \cup {n} /\ pushed'.barrier = pushed.barrier
        /\ pushed'.decorator = pushed.decorator
    BY <2>1
  <2>4. Counted'
    BY <1>0, <1>6, <2>3 DEF Counted, Scoping
  <2>5. InOrder(scopes, pushed.scope)'
    <3>1. InOrder(Append(scopes, n), pushed.scope \cup {n})
      BY <1>0, <1>1, InOrderAppend
    <3>2. scopes' = Append(scopes, n)
      BY <1>6 DEF Scoping
    <3> QED
      BY <2>3, <3>1, <3>2 DEF InOrder
  <2>6. Owned'
    <3>1. Owning' = Owning \cup {n}
      BY <2>3 DEF Owning
    <3>2. OwnerBy(n)' = IF Type(n) \in Callables THEN n ELSE Nobody
      BY <1>2, <2>3 DEF OwnerBy
    <3>3. owners' = Append(owners, OwnerBy(n)')
      BY <1>6, <3>2 DEF Scoping
    <3>4. \A m \in Owning : OwnerBy(m)' = OwnerBy(m)
      BY <1>1, <1>2, <2>3 DEF OwnerBy
    <3>5. OwnerBy(n)' \in Nat \cup {Nobody}
      BY <1>1, <3>2
    <3> QED
      BY <1>0, <1>1, <3>1, <3>3, <3>4, <3>5, OwnersGrow
  <2> QED
    BY <1>5, <2>2, <2>4, <2>5, <2>6 DEF OnStacks
<1>7. CASE Barring(n)
  <2>0. ~Symbolic(n)
    BY <1>4, <1>7 DEF Barring
  <2>1. pushed' = [scope |-> pushed.scope \cup {}, barrier |-> pushed.barrier \cup {n},
                   decorator |-> pushed.decorator \cup {}]
    BY <1>3, <1>7 DEF Barring
  <2>2. Marked'
    <3>1. (Shut(n) \/ Behind(n)) /\ Type(n) # "decorator"
      BY <1>7 DEF Barring
    <3> QED
      <4>1. Marking(n, {}, {n}, {})
        BY <2>0, <2>1, <3>1 DEF Marking
      <4> QED
        BY <1>0, <4>1, MarkedGrows
  <2>3. pushed'.scope = pushed.scope /\ pushed'.barrier = pushed.barrier \cup {n}
        /\ pushed'.decorator = pushed.decorator
    BY <2>1
  <2>4. Counted'
    <3>1. barriers' = barriers + 1
      BY <1>7 DEF Barring
    <3> QED
      BY <1>0, <1>1, <2>3, <3>1, FS_AddElement DEF Counted
  <2>5. InOrder(scopes, pushed.scope)'
    <3>1. scopes' = scopes
      BY <1>7 DEF Barring
    <3> QED
      BY <1>0, <2>3, <3>1 DEF InOrder
  <2>6. Owned'
    <3>1. Owning' = Owning \cup {n}
      BY <2>3 DEF Owning
    <3>2. OwnerBy(n)' = Nobody
      BY <1>1, <2>3 DEF OwnerBy
    <3>3. owners' = Append(owners, OwnerBy(n)')
      BY <1>7, <3>2 DEF Barring
    <3>4. \A m \in Owning : OwnerBy(m)' = OwnerBy(m)
      BY <1>2, <2>3 DEF OwnerBy
    <3>5. OwnerBy(n)' \in Nat \cup {Nobody}
      BY <3>2
    <3> QED
      BY <1>0, <1>1, <3>1, <3>3, <3>4, <3>5, OwnersGrow
  <2> QED
    BY <1>5, <2>2, <2>4, <2>5, <2>6 DEF OnStacks
<1>8. CASE Decorating(n)
  <2>0. Type(n) = "decorator" /\ ~Symbolic(n) /\ ~Shut(n)
    <3>1. Type(n) = "decorator" /\ ~Symbolic(n)
      BY <1>4, <1>8 DEF Decorating
    <3>2. ~IsContainer(n) /\ Type(n) \notin Opaque
      BY <3>1 DEF IsContainer, IsMember, Containers, Opaque
    <3> QED
      BY <3>1, <3>2 DEF Shut
  <2>1. pushed' = [scope |-> pushed.scope \cup {}, barrier |-> pushed.barrier \cup {},
                   decorator |-> pushed.decorator \cup {n}]
    BY <1>3, <1>8 DEF Decorating
  <2>2. Marked'
    <3>1. Marking(n, {}, {}, {n})
      BY <2>0, <2>1 DEF Marking
    <3> QED
      BY <1>0, <3>1, MarkedGrows
  <2>3. pushed'.scope = pushed.scope /\ pushed'.barrier = pushed.barrier
        /\ pushed'.decorator = pushed.decorator \cup {n}
    BY <2>1
  <2>4. Counted'
    BY <1>0, <1>8, <2>3 DEF Counted, Decorating
  <2>5. InOrder(scopes, pushed.scope)'
    <3>1. scopes' = scopes
      BY <1>8 DEF Decorating
    <3> QED
      BY <1>0, <2>3, <3>1 DEF InOrder
  <2>6. \A m \in Owning : OwnerBy(m)' = OwnerBy(m)
    BY <1>2, <2>3 DEF OwnerBy
  <2>7. Owned'
    <3>1. CASE tree.language = "python"
      <4>1. Owning' = Owning \cup {n}
        BY <2>3, <3>1 DEF Owning
      <4>2. OwnerBy(n)' = Nobody
        BY <1>1, <2>3 DEF OwnerBy
      <4>3. owners' = Append(owners, OwnerBy(n)')
        BY <1>8, <3>1, <4>2 DEF Decorating
      <4>4. OwnerBy(n)' \in Nat \cup {Nobody}
        BY <4>2
      <4> QED
        BY <1>0, <1>1, <2>6, <4>1, <4>3, <4>4, OwnersGrow
    <3>2. CASE tree.language # "python"
      <4>1. Owning' = Owning /\ owners' = owners
        BY <1>8, <2>3, <3>2 DEF Owning, Decorating
      <4> QED
        BY <1>0, <2>6, <4>1, OwnersStay
    <3> QED
      BY <3>1, <3>2
  <2> QED
    BY <1>5, <2>2, <2>4, <2>5, <2>7 DEF OnStacks
<1>9. CASE Keeping(n)
  <2>1. pushed' = [scope |-> pushed.scope \cup {}, barrier |-> pushed.barrier \cup {},
                   decorator |-> pushed.decorator \cup {}]
    BY <1>3, <1>9 DEF Keeping
  <2>2. Marked'
    <3>1. ~Symbolic(n) /\ (Shut(n) => Behind(n)) /\ Type(n) # "decorator"
      BY <1>9 DEF Keeping
    <3> QED
      <4>1. Marking(n, {}, {}, {})
        BY <2>1, <3>1 DEF Marking
      <4> QED
        BY <1>0, <4>1, MarkedGrows
  <2>3. pushed' = pushed /\ scopes' = scopes /\ owners' = owners /\ barriers' = barriers
    BY <1>9 DEF Keeping
  <2>4. Counted' /\ InOrder(scopes, pushed.scope)'
    BY <1>0, <2>3 DEF Counted, InOrder
  <2>5. \A m \in Owning : OwnerBy(m)' = OwnerBy(m)
    BY <1>2, <2>3 DEF OwnerBy
  <2>6. Owned'
    <3>1. Owning' = Owning
      BY <2>3 DEF Owning
    <3> QED
      BY <1>0, <2>3, <2>5, <3>1, OwnersStay
  <2> QED
    BY <1>5, <2>2, <2>4, <2>6 DEF OnStacks
<1> QED
  BY <1>6, <1>7, <1>8, <1>9 DEF Stacking

(* A node has pushed one owner if it is on the stack of them, else none.   *)
LEMMA OwnersPushedFacts ==
  ASSUME IsTree(tree), NEW n \in 1 .. Size, Marked
  PROVE  Cardinality(OwnersPushedBy(n)) = IF n \in Owning THEN 1 ELSE 0
<1>1. n \in pushed.scope => n \notin pushed.barrier /\ n \notin pushed.decorator
  <2>1. ASSUME n \in pushed.scope PROVE n \notin pushed.barrier /\ n \notin pushed.decorator
    <3>1. Symbolic(n)
      BY <2>1 DEF Marked
    <3>2. ~Shut(n) /\ ~Behind(n) /\ Type(n) # "decorator"
      BY <3>1, KindFacts DEF Symbolic
    <3> QED
      BY <3>2 DEF Marked
  <2> QED
    BY <2>1
<1>2. n \in pushed.barrier => n \notin pushed.decorator
  BY DEF Marked
<1>3. OwnersPushedBy(n) =
         (IF n \in pushed.scope THEN {"scope"} ELSE {})
            \cup (IF n \in pushed.barrier THEN {"barrier"} ELSE {})
            \cup (IF n \in pushed.decorator /\ tree.language = "python"
                  THEN {"decorator"} ELSE {})
  <2>1. pushed["scope"] = pushed.scope /\ pushed["barrier"] = pushed.barrier
        /\ pushed["decorator"] = pushed.decorator
    OBVIOUS
  <2> QED
    BY <2>1 DEF OwnersPushedBy
<1>4. n \in Owning <=> \/ n \in pushed.scope \/ n \in pushed.barrier
                       \/ n \in pushed.decorator /\ tree.language = "python"
  BY DEF Owning
<1>5. \A x : Cardinality({x}) = 1
  BY FS_Singleton
<1>6. Cardinality({}) = 0
  BY FS_EmptySet
<1>7. CASE n \notin Owning
  <2>1. OwnersPushedBy(n) = {}
    BY <1>3, <1>4, <1>7
  <2> QED
    BY <1>6, <1>7, <2>1
<1>8. CASE n \in Owning
  <2>1. \E x : OwnersPushedBy(n) = {x}
    <3>1. CASE n \in pushed.scope
      <4>1. OwnersPushedBy(n) = {"scope"}
        BY <1>1, <1>3, <3>1
      <4> QED
        BY <4>1
    <3>2. CASE n \in pushed.barrier
      <4>1. OwnersPushedBy(n) = {"barrier"}
        BY <1>1, <1>2, <1>3, <3>2
      <4> QED
        BY <4>1
    <3>3. CASE n \in pushed.decorator /\ tree.language = "python"
      <4>1. OwnersPushedBy(n) = {"decorator"}
        BY <1>1, <1>2, <1>3, <3>3
      <4> QED
        BY <4>1
    <3> QED
      BY <1>4, <1>8, <3>1, <3>2, <3>3
  <2> QED
    BY <1>5, <1>8, <2>1
<1> QED
  BY <1>7, <1>8

LEMMA LeavingKeeps ==
  ASSUME IsTree(tree), NEW n \in 1 .. Size, tree' = tree,
         Inside = Above(n) \cup {n}, Inside' = Above(n), OnStacks,
         owners' = SubSeq(owners, 1, Len(owners) - Cardinality(OwnersPushedBy(n))),
         scopes' = IF n \in pushed.scope THEN Front(scopes) ELSE scopes,
         barriers' = IF n \in pushed.barrier THEN barriers - 1 ELSE barriers,
         pushed' = [w \in DOMAIN pushed |-> pushed[w] \ {n}]
  PROVE  OnStacks'
<1>0. Marked /\ Counted /\ InOrder(scopes, pushed.scope) /\ Owned
  BY DEF OnStacks
<1>1. /\ pushed'.scope = pushed.scope \ {n} /\ pushed'.barrier = pushed.barrier \ {n}
      /\ pushed'.decorator = pushed.decorator \ {n}
      /\ pushed' \in [scope : SUBSET Nat, barrier : SUBSET Nat, decorator : SUBSET Nat]
  <2>1. pushed \in [scope : SUBSET Nat, barrier : SUBSET Nat, decorator : SUBSET Nat]
    BY <1>0 DEF Marked
  <2>2. pushed' = [scope |-> pushed.scope \ {n}, barrier |-> pushed.barrier \ {n},
                   decorator |-> pushed.decorator \ {n}]
    BY <2>1
  <2>3. pushed.scope \in SUBSET Nat /\ pushed.barrier \in SUBSET Nat
        /\ pushed.decorator \in SUBSET Nat
    BY <2>1
  <2> QED
    BY <2>2, <2>3
<1>2. \A m : /\ Type(m)' = Type(m) /\ Shut(m)' = Shut(m) /\ Behind(m)' = Behind(m)
             /\ Symbolic(m)' = Symbolic(m)
  BY TreeStays, SymbolsStay
<1>3. n \in Nat /\ n \notin Above(n) /\ \A a \in Above(n) : a \in Nat /\ a < n
  <2>1. n \in Nat /\ \A a \in Above(n) : a \in Nat /\ a < n
    BY TreeFacts, AboveFacts
  <2> QED
    BY <2>1
<1>4. Marked'
  <2>1. pushed'.scope = {a \in Inside' : Symbolic(a)'}
    BY <1>0, <1>1, <1>2, <1>3 DEF Marked
  <2>2. pushed'.decorator = {a \in Inside' : Type(a)' = "decorator"}
    BY <1>0, <1>1, <1>2, <1>3 DEF Marked
  <2>3. pushed'.barrier \subseteq Inside'
    BY <1>0, <1>1 DEF Marked
  <2>4. \A b \in pushed'.barrier : (Shut(b)' \/ Behind(b)') /\ Type(b)' # "decorator"
    BY <1>0, <1>1, <1>2 DEF Marked
  <2>5. \A a \in Inside' : Shut(a)' /\ ~Behind(a)' => a \in pushed'.barrier
    BY <1>0, <1>1, <1>2, <1>3 DEF Marked
  <2> QED
    BY <1>1, <2>1, <2>2, <2>3, <2>4, <2>5 DEF Marked
<1>5. Counted'
  <2>1. CASE n \in pushed.barrier
    BY <1>0, <1>1, <2>1, FS_RemoveElement DEF Counted
  <2>2. CASE n \notin pushed.barrier
    <3>1. pushed'.barrier = pushed.barrier /\ barriers' = barriers
      BY <1>1, <2>2
    <3> QED
      BY <1>0, <3>1 DEF Counted
  <2> QED
    BY <2>1, <2>2
<1>6. InOrder(scopes, pushed.scope)'
  <2>1. CASE n \in pushed.scope
    <3>1. \A m \in pushed.scope : m <= n
      BY <1>0, <1>3 DEF Marked
    <3>2. InOrder(SubSeq(scopes, 1, Len(scopes) - 1), pushed.scope \ {n})
      BY <1>0, <2>1, <3>1, InOrderFront
    <3>3. scopes' = SubSeq(scopes, 1, Len(scopes) - 1)
      BY <2>1 DEF Front
    <3> QED
      BY <1>1, <3>2, <3>3 DEF InOrder
  <2>2. CASE n \notin pushed.scope
    <3>1. pushed'.scope = pushed.scope /\ scopes' = scopes
      BY <1>1, <2>2
    <3> QED
      BY <1>0, <3>1 DEF InOrder
  <2> QED
    BY <2>1, <2>2
<1>7. Owned'
  <2>1. Owning' = Owning \ {n}
    BY <1>1 DEF Owning
  <2>2. \A m \in Owning \ {n} : OwnerBy(m)' = OwnerBy(m)
    BY <1>1, <1>2 DEF OwnerBy
  <2>3. Cardinality(OwnersPushedBy(n)) = IF n \in Owning THEN 1 ELSE 0
    BY <1>0, OwnersPushedFacts
  <2>4. CASE n \in Owning
    <3>1. owners' = SubSeq(owners, 1, Len(owners) - 1)
      BY <2>3, <2>4
    <3>2. \A m \in Owning : m <= n
      <4>1. \A m \in Owning : m \in Above(n) \cup {n}
        BY <1>0 DEF Owning, Marked
      <4> QED
        BY <1>3, <4>1
    <3> QED
      BY <1>0, <2>1, <2>2, <2>4, <3>1, <3>2, OwnersShrink
  <2>5. CASE n \notin Owning
    <3>1. owners' = SubSeq(owners, 1, Len(owners) - 0)
      BY <2>3, <2>5
    <3>2. owners \in Seq(Nat \cup {Nobody})
      BY <1>0 DEF Owned
    <3>3. owners' = owners
      <4>1. Len(owners) \in Nat /\ Len(owners) - 0 = Len(owners)
        BY <3>2, LenProperties
      <4>2. SubSeq(owners, 1, Len(owners)) = owners
        BY <3>2
      <4> QED
        BY <3>1, <4>1, <4>2
    <3>4. Owning' = Owning /\ Owning \ {n} = Owning
      BY <2>1, <2>5
    <3> QED
      BY <1>0, <2>2, <3>3, <3>4, OwnersStay
  <2> QED
    BY <2>4, <2>5
<1> QED
  BY <1>4, <1>5, <1>6, <1>7 DEF OnStacks

(* The top of the stack of owners is the lexical owner of a call.          *)
LEMMA CallerIsLexical ==
  ASSUME IsTree(tree), NEW n \in 1 .. Size, Inside = Above(n), OnStacks
  PROVE  CallerOf(n) =
            IF tree.language = "ecmascript" /\ pushed.decorator # {} THEN Nobody ELSE Owner
<1>0. Marked /\ Owned
  BY DEF OnStacks
<1>1. /\ \A a \in Above(n) : a \in 1 .. Size /\ a \in Nat /\ a < n
      /\ Above(n) \in SUBSET Nat
  BY AboveFacts
<1>2. /\ Surrounding(n) \subseteq Above(n) /\ Owning \subseteq Above(n)
      /\ \A a \in Surrounding(n) : IsContainer(a) \/ Type(a) \in Opaque
  BY <1>0, OwningFacts DEF Surrounding
<1>3. \A a \in Above(n) : Symbolic(a) => a \in Surrounding(n) /\ a \in pushed.scope
                                         /\ a \in Owning
  BY <1>0 DEF Symbolic, Surrounding, Marked, Owning
<1>4. \A a \in Above(n) : Shut(a) /\ ~Behind(a) => a \in Owning
  BY <1>0 DEF Marked, Owning
<1>5. \A a \in Above(n) : Shut(a) => a \in Surrounding(n)
  BY DEF Shut, Surrounding
<1>6. \A a \in pushed.scope : Symbolic(a) /\ a \in Above(n)
  BY <1>0 DEF Marked
<1>7. /\ Owning # {} => Latest(Owning) \in Owning /\ \A m \in Owning : m <= Latest(Owning)
      /\ Owner = IF Owning = {} THEN Nobody ELSE OwnerBy(Latest(Owning))
  <2>1. PICK w : /\ InOrder(w, Owning)
                 /\ owners \in Seq(Nat \cup {Nobody}) /\ Len(owners) = Len(w)
                 /\ \A i \in 1 .. Len(w) : owners[i] = OwnerBy(w[i])
    BY <1>0 DEF Owned
  <2>2. /\ Len(w) \in Nat /\ (Owning = {} <=> w = << >>)
        /\ Owning # {} => /\ Len(w) \in 1 .. Len(w) /\ Last(w) = w[Len(w)] /\ Last(w) \in Owning
                          /\ \A m \in Owning : m <= Last(w)
                          /\ Latest(Owning) = Last(w)
    BY <2>1, InOrderFacts
  <2>3. owners = << >> <=> Owning = {}
    <3>1. (owners = << >> <=> Len(owners) = 0) /\ (w = << >> <=> Len(w) = 0)
      BY <2>1, EmptySeq DEF InOrder
    <3> QED
      BY <2>1, <2>2, <3>1
  <2>4. ASSUME Owning # {} PROVE Last(owners) = OwnerBy(Latest(Owning))
    <3>1. Last(owners) = owners[Len(w)]
      BY <2>1 DEF Last
    <3> QED
      BY <2>1, <2>2, <2>4, <3>1
  <2> QED
    BY <2>2, <2>3, <2>4 DEF Owner
<1>8. Surrounding(n) # {} =>
         /\ Latest(Surrounding(n)) \in Surrounding(n)
         /\ \A a \in Surrounding(n) : a <= Latest(Surrounding(n))
  <2>1. Surrounding(n) \in SUBSET Nat /\ n \in Nat /\ \A a \in Surrounding(n) : a <= n
    BY <1>1, <1>2, TreeFacts
  <2> QED
    BY <2>1, LatestIsGreatest
<1>9. ASSUME NEW m \in Above(n), NEW x \in Above(n), Symbolic(m), Shut(x), x <= m
      PROVE  FALSE
  <2>1. x # m
    BY <1>1, <1>9, KindFacts
  <2>2. x < m /\ m \in 1 .. Size
    BY <1>1, <1>9, <2>1
  <2>3. x \in Above(m)
    BY <2>2, AboveIsChain
  <2> QED
    BY <1>9, <2>3 DEF Symbolic, Behind
<1>10. CASE tree.language = "ecmascript" /\ pushed.decorator # {}
  <2>1. PICK d \in Above(n) : Type(d) = "decorator"
    BY <1>0, <1>10 DEF Marked
  <2>2. ~IsOwned(n)
    BY <1>10, <2>1 DEF IsOwned
  <2> QED
    BY <1>10, <2>2 DEF CallerOf
<1>11. CASE ~(tree.language = "ecmascript" /\ pushed.decorator # {})
  <2>1. ASSUME Owning # {}, Latest(Owning) \in pushed.scope, Type(Latest(Owning)) \in Callables
        PROVE  IsOwned(n) /\ Latest(Surrounding(n)) = Latest(Owning)
    <3> DEFINE m == Latest(Owning)
    <3>1. m \in Above(n) /\ Symbolic(m) /\ m \in Surrounding(n) /\ m \in Nat
      BY <1>1, <1>3, <1>6, <2>1
    <3> HIDE DEF m
    <3>2. ASSUME NEW a \in Surrounding(n), ~(a <= m) PROVE FALSE
      <4>1. a \in Above(n) /\ a \in 1 .. Size
        BY <1>1, <1>2
      <4>2. a \notin Owning
        BY <1>7, <2>1, <3>2 DEF m
      <4>3. ~Symbolic(a) /\ (Shut(a) => Behind(a))
        BY <1>3, <1>4, <4>1, <4>2
      <4>4. Behind(a)
        BY <1>2, <4>1, <4>3 DEF Symbolic, Shut
      <4>5. PICK x \in Above(a) : Shut(x) /\ ~Behind(x)
        BY <4>1, <4>4, OutermostShut
      <4>6. x \in Above(n)
        BY <4>1, <4>5, AboveIsTransitive
      <4>7. x <= m
        BY <1>4, <1>7, <2>1, <4>5, <4>6 DEF m
      <4> QED
        BY <1>9, <3>1, <4>5, <4>6, <4>7
    <3>3. Latest(Surrounding(n)) = m
      <4>1. Surrounding(n) \in SUBSET Nat
        BY <1>1, <1>2
      <4> QED
        BY <3>1, <3>2, <4>1, LatestIsUnique
    <3>4. ASSUME NEW a \in Above(n), Type(a) = "decorator"
          PROVE  tree.language = "python" /\ a < m
      <4>1. a \in 1 .. Size /\ a \in pushed.decorator /\ a \in Nat
        BY <1>0, <1>1, <3>4 DEF Marked
      <4>2. Type(a) \in TypesOf(tree.language) /\ tree.language \in Languages
        BY <4>1, TreeFacts
      <4>3. tree.language = "python"
        BY <1>11, <3>4, <4>1, <4>2 DEF Languages, TypesOf
      <4>4. a \in Owning /\ a <= m
        BY <1>7, <4>1, <4>3 DEF m, Owning
      <4>5. a # m
        BY <3>1, <3>4, KindFacts, <4>1 DEF Symbolic
      <4> QED
        BY <3>1, <4>1, <4>3, <4>4, <4>5
    <3>5. Type(m) \in Callables
      BY <2>1 DEF m
    <3>6. IsOwned(n)
      BY <3>1, <3>3, <3>4, <3>5 DEF IsOwned
    <3> QED
      BY <3>3, <3>6 DEF m
  <2>2. ASSUME IsOwned(n)
        PROVE  /\ Owning # {} /\ Latest(Owning) = Latest(Surrounding(n))
               /\ Latest(Owning) \in pushed.scope /\ Type(Latest(Owning)) \in Callables
    <3> DEFINE m == Latest(Surrounding(n))
    <3>1. m \in Above(n) /\ Symbolic(m) /\ m \in Owning /\ m \in pushed.scope /\ m \in Nat
          /\ Type(m) \in Callables
      BY <1>1, <1>2, <1>3, <1>8, <2>2 DEF IsOwned
    <3>2. \A a \in Surrounding(n) : a <= m
      BY <1>8, <2>2 DEF IsOwned
    <3>3. \A a \in Above(n) : Type(a) = "decorator" => a < m
      BY <2>2 DEF IsOwned
    <3> HIDE DEF m
    <3>4. ASSUME NEW p \in Owning, ~(p <= m) PROVE FALSE
      <4>1. p \in Above(n) /\ p \in 1 .. Size /\ p \in Nat
        BY <1>1, <1>2
      <4>2. p \notin pushed.scope
        BY <1>3, <1>6, <3>2, <3>4
      <4>3. p \notin pushed.decorator
        <5>1. p \in pushed.decorator => Type(p) = "decorator"
          BY <1>0 DEF Marked
        <5> QED
          BY <3>1, <3>3, <3>4, <4>1, <5>1
      <4>4. p \in pushed.barrier
        BY <4>2, <4>3 DEF Owning
      <4>5. Shut(p) \/ Behind(p)
        BY <1>0, <4>4 DEF Marked
      <4>6. ~Shut(p)
        BY <1>5, <3>2, <3>4, <4>1
      <4>7. PICK x \in Above(p) : Shut(x)
        BY <4>5, <4>6 DEF Behind
      <4>8. x \in Above(n)
        BY <4>1, <4>7, AboveIsTransitive
      <4>9. x <= m
        BY <1>5, <3>2, <4>7, <4>8
      <4> QED
        BY <1>9, <3>1, <4>7, <4>8, <4>9
    <3>5. Latest(Owning) = m
      <4>1. Owning \in SUBSET Nat
        BY <1>1, <1>2
      <4> QED
        BY <3>1, <3>4, <4>1, LatestIsUnique
    <3> QED
      BY <3>1, <3>5 DEF m
  <2> QED
    BY <1>7, <1>11, <2>1, <2>2 DEF CallerOf, OwnerBy
<1> QED
  BY <1>10, <1>11

-------------------------------------------------------------------------------
(* What entering a node finds *)

Finding(n) == symbols' = symbols \cup SymbolsAt(n) /\ calls' = calls \cup CallsAt(n)

(* What holds when a node is next.                                         *)
Ready(n) ==
  /\ IsTree(tree) /\ n \in 1 .. Size
  /\ Inside = Above(n) /\ OnStacks
  /\ context = InExport(Above(n))

DeclaredTypes == {"class", "interface", "function", "binding", "method"}
ConstantTypes == {"field", "fields", "assignment", "static_readonly", "const"}

LEMMA LanguageFacts ==
  ASSUME IsTree(tree), NEW n \in 1 .. Size
  PROVE  /\ tree.language = "python" =>
               Type(n) \in {"program", "ERROR", "block", "call", "class", "decorator",
                            "function", "assignment"}
         /\ tree.language = "java" =>
               Type(n) \in {"program", "ERROR", "block", "call", "class", "record",
                            "anonymous", "method", "field", "fields"}
         /\ tree.language = "ecmascript" =>
               Type(n) \in {"program", "ERROR", "block", "call", "class", "decorator", "export",
                            "interface", "namespace", "class_expression", "function", "method",
                            "binding", "value", "const", "static_readonly", "class_body",
                            "interface_body"}
<1>1. Type(n) \in TypesOf(tree.language)
  BY TreeFacts
<1>2. TypesOf("python") = {"program", "ERROR", "block", "call", "class", "decorator",
                           "function", "assignment"}
  BY DEF TypesOf
<1>3. TypesOf("java") = {"program", "ERROR", "block", "call", "class", "record",
                         "anonymous", "method", "field", "fields"}
  BY DEF TypesOf
<1>4. TypesOf("ecmascript") = {"program", "ERROR", "block", "call", "class", "decorator",
                               "export", "interface", "namespace", "class_expression",
                               "function", "method", "binding", "value", "const",
                               "static_readonly", "class_body", "interface_body"}
  BY DEF TypesOf
<1> QED
  BY <1>1, <1>2, <1>3, <1>4

(* A node of some other type is no symbol, and pushes nothing.             *)
LEMMA PlainFacts ==
  ASSUME IsTree(tree), NEW n \in 1 .. Size
  PROVE  /\ Type(n) \notin DeclaredTypes => ~IsContainer(n)
         /\ Type(n) \notin DeclaredTypes /\ Type(n) \notin Opaque => ~Shut(n)
         /\ Type(n) \notin ConstantTypes => ~IsConstant(n)
         /\ Type(n) \in ConstantTypes => Type(n) \notin DeclaredTypes /\ Type(n) \notin Opaque
                                         /\ Type(n) # "decorator" /\ Type(n) # "call"
         /\ Type(n) \in Opaque => Type(n) \notin DeclaredTypes /\ Type(n) \notin ConstantTypes
                                  /\ Type(n) # "decorator" /\ Type(n) # "call"
<1>1. Type(n) \notin DeclaredTypes => ~IsContainer(n)
  BY KindFacts DEF DeclaredTypes
<1>2. Type(n) \notin DeclaredTypes /\ Type(n) \notin Opaque => ~Shut(n)
  BY <1>1 DEF Shut
<1>3. Type(n) \notin ConstantTypes => ~IsConstant(n)
  BY DEF IsConstant, ConstantTypes
<1>4. Type(n) \in ConstantTypes => Type(n) \notin DeclaredTypes /\ Type(n) \notin Opaque
                                   /\ Type(n) # "decorator" /\ Type(n) # "call"
  BY DEF ConstantTypes, DeclaredTypes, Opaque
<1>5. Type(n) \in Opaque => Type(n) \notin DeclaredTypes /\ Type(n) \notin ConstantTypes
                            /\ Type(n) # "decorator" /\ Type(n) # "call"
  BY DEF ConstantTypes, DeclaredTypes, Opaque
<1> QED
  BY <1>1, <1>2, <1>3, <1>4, <1>5

LEMMA EmitFinds ==
  ASSUME NEW n, Ready(n), IsDeclared(n), Type(n) # "call", Emit(n, PartsOf(n))
  PROVE  Finding(n)
<1>1. ~Behind(n)
  BY DEF IsDeclared
<1>2. Parent = ParentOf(n) /\ context = InExport(Above(n))
  BY <1>1, ScopesFacts DEF Ready
<1>3. SymbolsAt(n) =
         {[node |-> n, part |-> i, parent |-> Parent, exported |-> context] : i \in PartsOf(n)}
  BY <1>2 DEF SymbolsAt
<1>4. CallsAt(n) = {}
  BY DEF CallsAt
<1> QED
  BY <1>3, <1>4 DEF Emit, Finding

LEMMA NothingFinds ==
  ASSUME NEW n, ~IsDeclared(n), Type(n) # "call", symbols' = symbols, calls' = calls
  PROVE  Finding(n)
<1>1. SymbolsAt(n) = {} /\ CallsAt(n) = {}
  BY DEF SymbolsAt, CallsAt
<1> QED
  BY <1>1 DEF Finding

LEMMA CallFinds ==
  ASSUME NEW n, Ready(n), Type(n) = "call", NEW caller, Call(n, caller),
         caller = IF tree.language = "ecmascript" /\ pushed.decorator # {} THEN Nobody ELSE Owner
  PROVE  Stacking(n) /\ Finding(n)
<1>1. n \in 1 .. Size /\ IsTree(tree)
  BY DEF Ready
<1>2. Type(n) \notin DeclaredTypes /\ Type(n) \notin ConstantTypes /\ Type(n) \notin Opaque
      /\ Type(n) # "decorator"
  BY DEF DeclaredTypes, ConstantTypes, Opaque
<1>3. ~IsContainer(n) /\ ~IsConstant(n) /\ ~Shut(n)
  BY <1>1, <1>2, PlainFacts
<1>4. caller = CallerOf(n)
  BY <1>1, CallerIsLexical DEF Ready
<1>5. SymbolsAt(n) = {}
  BY <1>3 DEF SymbolsAt, IsDeclared
<1>6. calls' = calls \cup CallsAt(n)
  BY <1>4 DEF Call, CallsAt
<1>7. Finding(n)
  BY <1>5, <1>6 DEF Finding, Call
<1>8. Keeping(n)
  BY <1>2, <1>3 DEF Keeping, Symbolic, Call, stacks
<1> QED
  BY <1>7, <1>8 DEF Stacking

LEMMA DeclareFinds ==
  ASSUME NEW n, Ready(n), Type(n) \in DeclaredTypes, IsContainer(n) \/ Behind(n),
         NEW owner, owner = (IF Type(n) \in Callables THEN n ELSE Nobody), Declare(n, owner)
  PROVE  Stacking(n) /\ Finding(n)
<1>1. n \in 1 .. Size /\ IsTree(tree) /\ Inside = Above(n) /\ Marked /\ Counted
  BY DEF Ready, OnStacks
<1>2. Type(n) # "call" /\ Type(n) # "decorator" /\ PartsOf(n) = {1} /\ Type(n) \notin ConstantTypes
  BY DEF DeclaredTypes, PartsOf, ConstantTypes
<1>3. barriers \in Nat /\ (barriers = 0 <=> ~Behind(n)) /\ (barriers > 0 <=> Behind(n))
  BY <1>1, BarriersFacts
<1>4. CASE barriers = 0 /\ Trusted(n) /\ Emit(n, {1}) /\ PushScope(n, owner)
  <2>1. Symbolic(n) /\ IsDeclared(n)
    BY <1>3, <1>4 DEF Symbolic, IsDeclared
  <2>2. Finding(n)
    BY <1>2, <1>4, <2>1, EmitFinds
  <2>3. Scoping(n)
    BY <1>4, <2>1 DEF Scoping, PushScope
  <2> QED
    BY <2>2, <2>3 DEF Stacking
<1>5. CASE (barriers > 0 \/ ~Trusted(n)) /\ PushBarrier(n)
  <2>1. Behind(n) \/ ~Trusted(n)
    BY <1>3, <1>5
  <2>2. Shut(n) \/ Behind(n)
    BY <2>1 DEF Shut
  <2>3. ~IsDeclared(n)
    BY <2>1 DEF IsDeclared
  <2>4. Finding(n)
    BY <1>2, <1>5, <2>3, NothingFinds DEF PushBarrier, found
  <2>5. Barring(n)
    BY <1>2, <1>5, <2>2 DEF Barring, PushBarrier
  <2> QED
    BY <2>4, <2>5 DEF Stacking
<1> QED
  BY <1>4, <1>5 DEF Declare

LEMMA BarrierFinds ==
  ASSUME NEW n, Ready(n), Type(n) \in Opaque, PushBarrier(n)
  PROVE  Stacking(n) /\ Finding(n)
<1>1. n \in 1 .. Size /\ IsTree(tree)
  BY DEF Ready
<1>2. Type(n) \notin DeclaredTypes /\ Type(n) \notin ConstantTypes
      /\ Type(n) # "decorator" /\ Type(n) # "call"
  BY <1>1, PlainFacts
<1>3. ~IsContainer(n) /\ ~IsConstant(n)
  BY <1>1, <1>2, PlainFacts
<1>4. Finding(n)
  BY <1>2, <1>3, NothingFinds DEF PushBarrier, found, IsDeclared
<1>5. Barring(n)
  BY <1>2 DEF Barring, PushBarrier, Shut
<1> QED
  BY <1>4, <1>5 DEF Stacking

LEMMA PassFinds ==
  ASSUME NEW n, Ready(n), ~Symbolic(n), Shut(n) => Behind(n), ~IsDeclared(n),
         Type(n) # "decorator", Type(n) # "call", Pass
  PROVE  Stacking(n) /\ Finding(n)
<1>1. Finding(n)
  BY NothingFinds DEF Pass, found
<1>2. Keeping(n)
  BY DEF Keeping, Pass, stacks
<1> QED
  BY <1>1, <1>2 DEF Stacking

LEMMA ConstantFinds ==
  ASSUME NEW n, Ready(n), Type(n) \in ConstantTypes,
         \/ IsDeclared(n) /\ Constant(n, PartsOf(n))
         \/ ~IsDeclared(n) /\ Pass
  PROVE  Stacking(n) /\ Finding(n)
<1>1. n \in 1 .. Size /\ IsTree(tree)
  BY DEF Ready
<1>2. Type(n) \notin DeclaredTypes /\ Type(n) \notin Opaque
      /\ Type(n) # "decorator" /\ Type(n) # "call"
  BY <1>1, PlainFacts
<1>3. ~Symbolic(n) /\ ~Shut(n)
  BY <1>1, <1>2, PlainFacts DEF Symbolic
<1>4. CASE IsDeclared(n) /\ Constant(n, PartsOf(n))
  <2>1. Finding(n)
    BY <1>2, <1>4, EmitFinds DEF Constant
  <2>2. Keeping(n)
    BY <1>2, <1>3, <1>4 DEF Keeping, Constant, stacks
  <2> QED
    BY <2>1, <2>2 DEF Stacking
<1>5. CASE ~IsDeclared(n) /\ Pass
  BY <1>2, <1>3, <1>5, PassFinds
<1> QED
  BY <1>4, <1>5

(* A node of a type the extractor passes by.                               *)
LEMMA OtherFinds ==
  ASSUME NEW n, Ready(n), Type(n) \notin DeclaredTypes, Type(n) \notin ConstantTypes,
         Type(n) \notin Opaque, Type(n) # "decorator", Type(n) # "call", Pass
  PROVE  Stacking(n) /\ Finding(n)
<1>1. n \in 1 .. Size /\ IsTree(tree)
  BY DEF Ready
<1>2. ~IsContainer(n) /\ ~IsConstant(n) /\ ~Shut(n)
  BY <1>1, PlainFacts
<1> QED
  BY <1>2, PassFinds DEF Symbolic, IsDeclared

LEMMA DecoratorFinds ==
  ASSUME NEW n, Ready(n), Decorating(n), symbols' = symbols, calls' = calls
  PROVE  Stacking(n) /\ Finding(n)
<1>1. n \in 1 .. Size /\ IsTree(tree) /\ Type(n) = "decorator"
  BY DEF Ready, Decorating
<1>2. Type(n) \notin DeclaredTypes /\ Type(n) \notin ConstantTypes /\ Type(n) # "call"
  BY <1>1 DEF DeclaredTypes, ConstantTypes
<1>3. ~IsContainer(n) /\ ~IsConstant(n)
  BY <1>1, <1>2, PlainFacts
<1>4. Finding(n)
  BY <1>2, <1>3, NothingFinds DEF IsDeclared
<1> QED
  BY <1>4 DEF Stacking

(* The member of a class or an interface that is behind nothing.           *)
LEMMA MemberFacts ==
  ASSUME NEW n, Ready(n), ~Behind(n), n # 1
  PROVE  /\ Up(n) \in Above(n) /\ Up(n) \in 1 .. Size /\ Up(n) \in Nat /\ Up(n) < n
         /\ Type(Up(n)) \notin Opaque
         /\ Type(Up(n)) \in {"class", "interface"} =>
               Symbolic(Up(n)) /\ scopes # << >> /\ Last(scopes) = Up(n)
         /\ Type(Up(n)) \in BodyTypes /\ Type(Up(Up(n))) \in {"class", "interface"} =>
               Symbolic(Up(Up(n))) /\ scopes # << >> /\ Last(scopes) = Up(Up(n))
         /\ barriers = 0
<1>1. n \in 1 .. Size /\ IsTree(tree) /\ Inside = Above(n) /\ OnStacks /\ Marked /\ Counted
  BY DEF Ready, OnStacks
<1>2. Up(n) \in Above(n) /\ Up(n) \in 1 .. Size /\ Up(n) < n
  BY <1>1, UpFacts
<1>3. Type(Up(n)) \notin Opaque
  BY <1>2 DEF Behind, Shut
<1>4. Type(Up(n)) \in {"class", "interface"} =>
         Symbolic(Up(n)) /\ scopes # << >> /\ Last(scopes) = Up(n)
  BY <1>1, ScopesFacts
<1>5. Type(Up(n)) \in BodyTypes /\ Type(Up(Up(n))) \in {"class", "interface"} =>
         Symbolic(Up(Up(n))) /\ scopes # << >> /\ Last(scopes) = Up(Up(n))
  BY <1>1, ScopesFacts
<1>6. barriers = 0
  BY <1>1, BarriersFacts
<1> QED
  BY <1>2, <1>3, <1>4, <1>5, <1>6

LEMMA PythonFinds ==
  ASSUME NEW n, Ready(n), tree.language = "python", Python(n)
  PROVE  Stacking(n) /\ Finding(n)
<1>1. n \in 1 .. Size /\ IsTree(tree) /\ Inside = Above(n) /\ OnStacks /\ Marked /\ Counted
  BY DEF Ready, OnStacks
<1>2. CASE Type(n) = "decorator"
  <2>1. Decorating(n) /\ symbols' = symbols /\ calls' = calls
    BY <1>2 DEF Python, PythonTypes, Decorating, found
  <2> QED
    BY <2>1, DecoratorFinds
<1>3. CASE Type(n) = "class"
  <2>1. Declare(n, Nobody) /\ Type(n) \in DeclaredTypes /\ Type(n) \notin Callables
    BY <1>3 DEF Python, PythonTypes, DeclaredTypes, Callables
  <2>2. IsContainer(n)
    BY <1>1, <1>3, KindFacts
  <2> QED
    BY <2>1, <2>2, DeclareFinds
<1>4. CASE Type(n) = "function"
  <2>1. Declare(n, n) /\ Type(n) \in DeclaredTypes /\ Type(n) \in Callables
    BY <1>4 DEF Python, PythonTypes, DeclaredTypes, Callables
  <2>2. IsContainer(n)
    BY <1>1, <1>4, KindFacts
  <2> QED
    BY <2>1, <2>2, DeclareFinds
<1>5. CASE Type(n) = "assignment"
  <2>1. /\ IF barriers = 0 /\ (scopes = << >> \/ IsMemberOf({"class"})) /\ Trusted(n)
           THEN Constant(n, {1}) ELSE Pass
        /\ Type(n) \in ConstantTypes /\ PartsOf(n) = {1}
    BY <1>5 DEF Python, PythonTypes, ConstantTypes, PartsOf
  <2>2. barriers \in Nat /\ (barriers = 0 <=> ~Behind(n))
    BY <1>1, BarriersFacts
  <2>3. IsConstant(n) <=> Containing(n) = {} \/ Type(Latest(Containing(n))) = "class"
    BY <1>5 DEF IsConstant, Containing
  <2>4. ~IsContainer(n)
    BY <1>1, <2>1, PlainFacts
  <2>5. ~Behind(n) => (scopes = << >> \/ IsMemberOf({"class"}) <=> IsConstant(n))
    <3>1. SUFFICES ASSUME ~Behind(n)
                   PROVE  scopes = << >> \/ IsMemberOf({"class"}) <=> IsConstant(n)
      OBVIOUS
    <3>2. (scopes = << >> <=> Containing(n) = {})
          /\ (Containing(n) # {} => Last(scopes) = Latest(Containing(n)))
      BY <1>1, <3>1, ScopesFacts
    <3> QED
      BY <2>3, <3>2 DEF IsMemberOf
  <2>6. barriers = 0 /\ (scopes = << >> \/ IsMemberOf({"class"})) /\ Trusted(n) <=> IsDeclared(n)
    BY <2>2, <2>4, <2>5 DEF IsDeclared
  <2>7. \/ IsDeclared(n) /\ Constant(n, PartsOf(n))
        \/ ~IsDeclared(n) /\ Pass
    BY <2>1, <2>6
  <2> QED
    BY <2>1, <2>7, ConstantFinds
<1>6. CASE Type(n) = "call"
  <2>1. Call(n, Owner)
    BY <1>6 DEF Python, PythonTypes
  <2> QED
    BY <1>6, <2>1, CallFinds
<1>7. CASE Type(n) \notin PythonTypes
  <2>1. Pass
    BY <1>7 DEF Python, PythonTypes
  <2>2. Type(n) \in {"program", "ERROR", "block"}
    BY <1>1, <1>7, LanguageFacts DEF PythonTypes
  <2>3. Type(n) \notin DeclaredTypes /\ Type(n) \notin ConstantTypes /\ Type(n) \notin Opaque
        /\ Type(n) # "decorator" /\ Type(n) # "call"
    BY <2>2 DEF DeclaredTypes, ConstantTypes, Opaque
  <2> QED
    BY <2>1, <2>3, OtherFinds
<1> QED
  BY <1>2, <1>3, <1>4, <1>5, <1>6, <1>7 DEF PythonTypes

LEMMA JavaFinds ==
  ASSUME NEW n, Ready(n), tree.language = "java", Java(n)
  PROVE  Stacking(n) /\ Finding(n)
<1>1. n \in 1 .. Size /\ IsTree(tree) /\ Inside = Above(n) /\ OnStacks /\ Marked /\ Counted
  BY DEF Ready, OnStacks
<1>a. barriers \in Nat /\ (barriers = 0 <=> ~Behind(n))
  BY <1>1, BarriersFacts
<1>b. Type(n) \notin {"program", "ERROR"} => n # 1
  BY <1>1, TreeFacts
<1>c. n # 1 => Up(n) \in Above(n) /\ Up(n) \in 1 .. Size
  BY <1>1, UpFacts
<1>2. CASE Type(n) \in {"record", "anonymous"}
  <2>1. PushBarrier(n) /\ Type(n) \in Opaque
    BY <1>2 DEF Java, JavaTypes, Opaque
  <2> QED
    BY <2>1, BarrierFinds
<1>3. CASE Type(n) = "class"
  <2>1. Declare(n, Nobody) /\ Type(n) \in DeclaredTypes /\ Type(n) \notin Callables
    BY <1>3 DEF Java, JavaTypes, DeclaredTypes, Callables
  <2>2. IsContainer(n)
    BY <1>1, <1>3, KindFacts
  <2> QED
    BY <2>1, <2>2, DeclareFinds
<1>4. CASE Type(n) = "method"
  <2>1. /\ IF Type(Up(n)) \in TypeBodies /\ barriers = 0 /\ IsMemberOf({"class"})
           THEN Declare(n, n) ELSE Pass
        /\ Type(n) \in DeclaredTypes /\ Type(n) \in Callables /\ Type(n) \notin ConstantTypes
        /\ Type(n) # "decorator" /\ Type(n) # "call"
    BY <1>4 DEF Java, JavaTypes, DeclaredTypes, Callables, ConstantTypes
  <2>2. CASE Type(Up(n)) \in TypeBodies /\ barriers = 0 /\ IsMemberOf({"class"})
    <3>1. Type(Up(n)) \notin Opaque
      BY <1>4, <1>a, <1>b, <2>2, MemberFacts
    <3>2. IsContainer(n)
      BY <1>4, <2>2, <3>1 DEF IsContainer, IsMember, HoldsMembers, TypeBodies, Opaque
    <3> QED
      BY <2>1, <2>2, <3>2, DeclareFinds
  <2>3. CASE ~(Type(Up(n)) \in TypeBodies /\ barriers = 0 /\ IsMemberOf({"class"}))
    <3>1. ~IsContainer(n) \/ Behind(n)
      <4>1. SUFFICES ASSUME IsContainer(n), ~Behind(n) PROVE FALSE
        OBVIOUS
      <4>2. IsMember(n)
        BY <1>4, <4>1 DEF IsContainer, Containers
      <4>3. Type(Up(n)) = "class"
        BY <4>2 DEF IsMember, HoldsMembers
      <4>4. barriers = 0 /\ scopes # << >> /\ Last(scopes) = Up(n)
        BY <1>4, <1>b, <4>1, <4>3, MemberFacts
      <4> QED
        BY <2>3, <4>3, <4>4 DEF TypeBodies, IsMemberOf
    <3>2. ~Symbolic(n) /\ (Shut(n) => Behind(n)) /\ ~IsDeclared(n)
      <4>1. Type(n) \notin Opaque /\ ~IsConstant(n)
        BY <1>1, <1>4, <2>1, PlainFacts
      <4> QED
        BY <3>1, <4>1 DEF Symbolic, Shut, IsDeclared
    <3> QED
      BY <2>1, <2>3, <3>2, PassFinds
  <2> QED
    BY <2>2, <2>3
<1>5. CASE Type(n) \in {"field", "fields"}
  <2>1. /\ IF barriers = 0 /\ Trusted(n) /\ IsMemberOf({"class"}) /\ Type(Up(n)) \in TypeBodies
           THEN Constant(n, FieldParts(n)) ELSE Pass
        /\ Type(n) \in ConstantTypes /\ PartsOf(n) = FieldParts(n)
    BY <1>5 DEF Java, JavaTypes, ConstantTypes, PartsOf, FieldParts
  <2>2. IsConstant(n) <=> Type(Up(n)) = "class"
    BY <1>5 DEF IsConstant
  <2>3. ~IsContainer(n)
    BY <1>1, <2>1, PlainFacts
  <2>4. ASSUME ~Behind(n)
        PROVE  IsMemberOf({"class"}) /\ Type(Up(n)) \in TypeBodies <=> IsConstant(n)
    <3>1. /\ Type(Up(n)) \notin Opaque
          /\ Type(Up(n)) \in {"class", "interface"} => scopes # << >> /\ Last(scopes) = Up(n)
      BY <1>5, <1>b, <2>4, MemberFacts
    <3>2. Type(Up(n)) \in TypeBodies <=> Type(Up(n)) = "class"
      BY <3>1 DEF TypeBodies, Opaque
    <3>3. Type(Up(n)) = "class" => IsMemberOf({"class"})
      BY <3>1 DEF IsMemberOf
    <3> QED
      BY <2>2, <3>2, <3>3
  <2>5. barriers = 0 /\ Trusted(n) /\ IsMemberOf({"class"}) /\ Type(Up(n)) \in TypeBodies
           <=> IsDeclared(n)
    BY <1>a, <2>3, <2>4 DEF IsDeclared
  <2>6. \/ IsDeclared(n) /\ Constant(n, PartsOf(n))
        \/ ~IsDeclared(n) /\ Pass
    BY <2>1, <2>5
  <2> QED
    BY <2>1, <2>6, ConstantFinds
<1>6. CASE Type(n) = "call"
  <2>1. Call(n, Owner)
    BY <1>6 DEF Java, JavaTypes
  <2> QED
    BY <1>6, <2>1, CallFinds
<1>7. CASE Type(n) \notin JavaTypes
  <2>1. Pass
    BY <1>7 DEF Java, JavaTypes
  <2>2. Type(n) \in {"program", "ERROR", "block"}
    BY <1>1, <1>7, LanguageFacts DEF JavaTypes
  <2>3. Type(n) \notin DeclaredTypes /\ Type(n) \notin ConstantTypes /\ Type(n) \notin Opaque
        /\ Type(n) # "decorator" /\ Type(n) # "call"
    BY <2>2 DEF DeclaredTypes, ConstantTypes, Opaque
  <2> QED
    BY <2>1, <2>3, OtherFinds
<1> QED
  BY <1>2, <1>3, <1>4, <1>5, <1>6, <1>7 DEF JavaTypes

(* The bodies of the classes and interfaces that have pushed a scope.      *)
HasSymbol(b) ==
  Type(b) \in BodyTypes /\ Type(Up(b)) \in {"class", "interface"} /\ Symbolic(Up(b))
Bodies == {b \in 2 .. Size : Up(b) \in Entered /\ HasSymbol(b)}

(* A constant of a module is in nothing but an export statement.           *)
LEMMA ModuleFacts ==
  ASSUME IsTree(tree), NEW n \in 1 .. Size, n # 1, IsModuleDeclaration(n)
  PROVE  /\ \A a \in Above(n) : Type(a) \in {"program", "export"}
         /\ ~Behind(n)
<1>1. Up(n) \in 1 .. Size /\ Above(n) = Above(Up(n)) \cup {Up(n)}
  BY UpFacts
<1>2. \A m \in 1 .. Size : Type(m) = "program" => m = 1
  BY TreeFacts
<1>3. Above(1) = {} /\ Type(1) \in {"program", "ERROR"}
  BY AboveFacts, TreeFacts
<1>4. \A a \in Above(n) : Type(a) \in {"program", "export"}
  <2>1. CASE Type(Up(n)) = "program"
    BY <1>1, <1>2, <1>3, <2>1
  <2>2. CASE Type(Up(n)) = "export" /\ Type(Up(Up(n))) = "program"
    <3>1. Up(n) # 1
      BY <1>3, <2>2
    <3>2. Up(Up(n)) \in 1 .. Size /\ Above(Up(n)) = Above(Up(Up(n))) \cup {Up(Up(n))}
      BY <1>1, <3>1, UpFacts
    <3>3. Up(Up(n)) = 1
      BY <1>2, <2>2, <3>2
    <3> QED
      BY <1>1, <1>3, <2>2, <3>2, <3>3
  <2> QED
    BY <2>1, <2>2 DEF IsModuleDeclaration
<1>5. ASSUME NEW a \in Above(n) PROVE ~Shut(a)
  <2>1. a \in 1 .. Size
    BY AboveFacts
  <2>2. Type(a) \notin DeclaredTypes /\ Type(a) \notin Opaque
    BY <1>4 DEF DeclaredTypes, Opaque
  <2> QED
    BY <2>1, <2>2, PlainFacts
<1> QED
  BY <1>4, <1>5 DEF Behind

LEMMA EcmaScriptFinds ==
  ASSUME NEW n, Ready(n), tree.language = "ecmascript", EcmaScript(n),
         Entered = 1 .. n - 1, bodies = Bodies
  PROVE  Stacking(n) /\ Finding(n)
<1>1. n \in 1 .. Size /\ IsTree(tree) /\ Inside = Above(n) /\ OnStacks /\ Marked /\ Counted
      /\ n \in Nat
  BY TreeFacts DEF Ready, OnStacks
<1>a. barriers \in Nat /\ (barriers = 0 <=> ~Behind(n)) /\ (barriers > 0 <=> Behind(n))
  BY <1>1, BarriersFacts
<1>b. Type(n) \notin {"program", "ERROR"} => n # 1
  BY <1>1, TreeFacts
<1>c. n # 1 => /\ Up(n) \in Above(n) /\ Up(n) \in 1 .. Size /\ Up(n) < n
               /\ Above(n) = Above(Up(n)) \cup {Up(n)}
  BY <1>1, UpFacts
<1>d. n # 1 => (Up(n) \in bodies <=> HasSymbol(Up(n)))
  <2>1. SUFFICES ASSUME n # 1, HasSymbol(Up(n)) PROVE Up(n) \in bodies
    BY DEF Bodies
  <2>2. Up(n) # 1
    BY <1>1, <2>1, TreeFacts DEF HasSymbol, BodyTypes
  <2>3. Up(Up(n)) \in 1 .. Size /\ Up(Up(n)) < Up(n)
    BY <1>1, <1>c, <2>1, <2>2, UpFacts
  <2>4. Up(Up(n)) \in Entered /\ Up(n) \in 2 .. Size
    BY <1>1, <1>c, <2>1, <2>2, <2>3, TreeFacts
  <2> QED
    BY <2>1, <2>4 DEF Bodies
<1>e. n # 1 /\ Up(n) \in bodies => ~Behind(n)
  <2>1. SUFFICES ASSUME n # 1, Up(n) \in bodies PROVE ~Behind(n)
    OBVIOUS
  <2>2. Type(Up(n)) \in BodyTypes /\ Symbolic(Up(Up(n)))
    BY <1>d, <2>1 DEF HasSymbol
  <2>3. Up(n) # 1
    BY <1>1, <2>2, TreeFacts DEF BodyTypes
  <2>4. Up(Up(n)) \in 1 .. Size /\ Above(Up(n)) = Above(Up(Up(n))) \cup {Up(Up(n))}
    BY <1>1, <1>c, <2>1, <2>3, UpFacts
  <2>5. ~Shut(Up(Up(n))) /\ ~Behind(Up(Up(n)))
    BY <1>1, <2>2, <2>4, KindFacts DEF Symbolic
  <2>6. ~Shut(Up(n))
    BY <1>1, <1>c, <2>1, <2>2, PlainFacts DEF BodyTypes, DeclaredTypes, Opaque
  <2> QED
    BY <1>c, <2>1, <2>4, <2>5, <2>6 DEF Behind
<1>2. CASE Type(n) = "decorator"
  <2>1. Decorating(n) /\ symbols' = symbols /\ calls' = calls
    BY <1>2 DEF EcmaScript, EcmaScriptTypes, Decorating, found
  <2> QED
    BY <2>1, DecoratorFinds
<1>3. CASE Type(n) \in {"class_expression", "namespace"}
  <2>1. PushBarrier(n) /\ Type(n) \in Opaque
    BY <1>3 DEF EcmaScript, EcmaScriptTypes, Opaque
  <2> QED
    BY <2>1, BarrierFinds
<1>4. CASE Type(n) \in {"class", "interface"}
  <2>1. Declare(n, Nobody) /\ Type(n) \in DeclaredTypes /\ Type(n) \notin Callables
    BY <1>4 DEF EcmaScript, EcmaScriptTypes, DeclaredTypes, Callables
  <2>2. IsContainer(n)
    BY <1>1, <1>4, KindFacts
  <2> QED
    BY <2>1, <2>2, DeclareFinds
<1>5. CASE Type(n) \in {"function", "binding"}
  <2>1. Declare(n, n) /\ Type(n) \in DeclaredTypes /\ Type(n) \in Callables
    BY <1>5 DEF EcmaScript, EcmaScriptTypes, DeclaredTypes, Callables
  <2>2. IsContainer(n)
    BY <1>1, <1>5, KindFacts
  <2> QED
    BY <2>1, <2>2, DeclareFinds
<1>6. CASE Type(n) = "method"
  <2>1. /\ IF barriers > 0 \/ (Up(n) \in bodies /\ IsMemberOf({"class", "interface"}))
           THEN Declare(n, n) ELSE Pass
        /\ Type(n) \in DeclaredTypes /\ Type(n) \in Callables /\ Type(n) \notin ConstantTypes
        /\ Type(n) # "decorator" /\ Type(n) # "call" /\ n # 1
    BY <1>6, <1>b DEF EcmaScript, EcmaScriptTypes, DeclaredTypes, Callables, ConstantTypes
  <2>2. CASE barriers > 0 \/ (Up(n) \in bodies /\ IsMemberOf({"class", "interface"}))
    <3>1. IsContainer(n) \/ Behind(n)
      <4>1. Up(n) \in bodies => IsContainer(n)
        BY <1>6, <1>d, <2>1 DEF IsContainer, IsMember, HoldsMembers, HasSymbol
      <4> QED
        BY <1>a, <2>2, <4>1
    <3> QED
      BY <2>1, <2>2, <3>1, DeclareFinds
  <2>3. CASE ~(barriers > 0 \/ (Up(n) \in bodies /\ IsMemberOf({"class", "interface"})))
    <3>1. ~Behind(n)
      BY <1>a, <2>3
    <3>2. ~IsContainer(n)
      <4>1. SUFFICES ASSUME IsContainer(n) PROVE FALSE
        OBVIOUS
      <4>2. IsMember(n)
        BY <1>6, <4>1 DEF IsContainer, Containers
      <4>3. Type(Up(n)) \in BodyTypes /\ Type(Up(Up(n))) \in {"class", "interface"}
        BY <4>2 DEF IsMember, HoldsMembers
      <4>4. Symbolic(Up(Up(n))) /\ scopes # << >> /\ Last(scopes) = Up(Up(n))
        BY <2>1, <3>1, <4>3, MemberFacts
      <4> QED
        BY <1>d, <2>1, <2>3, <4>3, <4>4 DEF IsMemberOf, HasSymbol
    <3>3. Type(n) \notin Opaque /\ ~IsConstant(n)
      BY <1>1, <1>6, <2>1, PlainFacts
    <3>4. ~Symbolic(n) /\ ~Shut(n) /\ ~IsDeclared(n)
      BY <3>2, <3>3 DEF Symbolic, Shut, IsDeclared
    <3> QED
      BY <2>1, <2>3, <3>4, PassFinds
  <2> QED
    BY <2>2, <2>3
<1>7. CASE Type(n) = "static_readonly"
  <2> DEFINE held == Type(Up(n)) = "class_body" /\ Up(n) \in bodies /\ IsMemberOf({"class"})
  <2>1. /\ IF held /\ Trusted(n) THEN Constant(n, {1}) ELSE Pass
        /\ Type(n) \in ConstantTypes /\ PartsOf(n) = {1} /\ n # 1
    BY <1>7, <1>b DEF EcmaScript, EcmaScriptTypes, ConstantTypes, PartsOf
  <2>2. IsConstant(n) <=> Type(Up(n)) = "class_body" /\ Type(Up(Up(n))) = "class"
    BY <1>7 DEF IsConstant
  <2>3. ~IsContainer(n)
    BY <1>1, <2>1, PlainFacts
  <2>4. ~Behind(n) => (held <=> IsConstant(n))
    <3>1. SUFFICES ASSUME ~Behind(n), Type(Up(n)) = "class_body"
                   PROVE  Up(n) \in bodies /\ IsMemberOf({"class"}) <=> Type(Up(Up(n))) = "class"
      BY <2>2
    <3>2. Type(Up(n)) \in BodyTypes
      BY <3>1 DEF BodyTypes
    <3>3. Type(Up(Up(n))) \in {"class", "interface"} =>
             Symbolic(Up(Up(n))) /\ scopes # << >> /\ Last(scopes) = Up(Up(n))
      BY <2>1, <3>1, <3>2, MemberFacts
    <3>4. Up(n) \in bodies <=> Type(Up(Up(n))) \in {"class", "interface"}
      BY <1>d, <2>1, <3>2, <3>3 DEF HasSymbol
    <3> QED
      BY <3>3, <3>4 DEF IsMemberOf
  <2>5. held /\ Trusted(n) <=> IsDeclared(n)
    BY <1>e, <2>1, <2>3, <2>4 DEF IsDeclared
  <2> HIDE DEF held
  <2>6. \/ IsDeclared(n) /\ Constant(n, PartsOf(n))
        \/ ~IsDeclared(n) /\ Pass
    BY <2>1, <2>5
  <2> QED
    BY <2>1, <2>6, ConstantFinds
<1>8. CASE Type(n) = "const"
  <2>1. /\ IF IsModuleDeclaration(n) /\ Trusted(n) THEN Constant(n, {1}) ELSE Pass
        /\ Type(n) \in ConstantTypes /\ PartsOf(n) = {1} /\ n # 1
    BY <1>8, <1>b DEF EcmaScript, EcmaScriptTypes, ConstantTypes, PartsOf
  <2>2. IsConstant(n) <=> IsModuleDeclaration(n)
    BY <1>8 DEF IsConstant
  <2>3. ~IsContainer(n)
    BY <1>1, <2>1, PlainFacts
  <2>4. IsModuleDeclaration(n) => ~Behind(n)
    BY <1>1, <2>1, ModuleFacts
  <2>5. \/ IsDeclared(n) /\ Constant(n, PartsOf(n))
        \/ ~IsDeclared(n) /\ Pass
    BY <2>1, <2>2, <2>3, <2>4 DEF IsDeclared
  <2> QED
    BY <2>1, <2>5, ConstantFinds
<1>9. CASE Type(n) = "call"
  <2>1. Call(n, IF pushed.decorator = {} THEN Owner ELSE Nobody)
    BY <1>9 DEF EcmaScript, EcmaScriptTypes
  <2>2. (IF pushed.decorator = {} THEN Owner ELSE Nobody)
           = IF tree.language = "ecmascript" /\ pushed.decorator # {} THEN Nobody ELSE Owner
    OBVIOUS
  <2> QED
    BY <1>9, <2>1, <2>2, CallFinds
<1>10. CASE Type(n) \notin EcmaScriptTypes
  <2>1. Pass
    BY <1>10 DEF EcmaScript, EcmaScriptTypes
  <2>2. Type(n) \in {"program", "ERROR", "block", "export", "value", "class_body",
                     "interface_body"}
    BY <1>1, <1>10, LanguageFacts DEF EcmaScriptTypes
  <2>3. Type(n) \notin DeclaredTypes /\ Type(n) \notin ConstantTypes /\ Type(n) \notin Opaque
        /\ Type(n) # "decorator" /\ Type(n) # "call"
    BY <2>2 DEF DeclaredTypes, ConstantTypes, Opaque
  <2> QED
    BY <2>1, <2>3, OtherFinds
<1> QED
  BY <1>2, <1>3, <1>4, <1>5, <1>6, <1>7, <1>8, <1>9, <1>10 DEF EcmaScriptTypes

-------------------------------------------------------------------------------
(* The modifiers, and the walk as a whole *)

Restores == {b \in Inside : Type(b) \in Boundaries \cup {"export"}}

Modified ==
  IF tree.language = "ecmascript"
  THEN /\ context = InExport(Inside)
       /\ restore = [a \in Restores |-> InExport(Above(a))]
       /\ bodies = Bodies
  ELSE context = FALSE /\ restore = [n \in {} |-> FALSE] /\ bodies = {}

Collected ==
  /\ symbols = UNION {SymbolsAt(n) : n \in Entered}
  /\ calls = UNION {CallsAt(n) : n \in Entered}

WalkInv == Walking /\ OnStacks /\ Modified /\ Collected

(* Only ECMAScript has export statements.                                  *)
LEMMA NoExport ==
  ASSUME IsTree(tree), tree.language # "ecmascript", NEW A \in SUBSET (1 .. Size)
  PROVE  InExport(A) = FALSE
<1>1. tree.language \in {"python", "java"}
  BY DEF IsTree, Languages
<1>2. \A a \in A : Type(a) # "export"
  BY <1>1, LanguageFacts
<1> QED
  BY <1>2 DEF InExport

(* What one more node around changes for the modifiers.                    *)
LEMMA InExportGrows ==
  ASSUME IsTree(tree), NEW n \in 1 .. Size
  PROVE  InExport(Above(n) \cup {n}) =
            IF Type(n) = "export" THEN TRUE
            ELSE IF Type(n) \in Boundaries THEN FALSE ELSE InExport(Above(n))
<1> DEFINE E == {a \in Above(n) : Type(a) = "export"}
           F == {a \in Above(n) \cup {n} : Type(a) = "export"}
<1>1. /\ n \in Nat /\ \A a \in Above(n) : a \in Nat /\ a < n
      /\ Above(n) \in SUBSET Nat
  BY TreeFacts, AboveFacts
<1>2. Boundaries = {"program", "class_body", "block"}
  BY DEF Boundaries
<1>3. InExport(Above(n)) =
         (E # {} /\ \A a \in Above(n) : Type(a) \in {"class_body", "block"} => a < Latest(E))
  BY DEF InExport
<1>4. InExport(Above(n) \cup {n}) =
         (F # {} /\ \A a \in Above(n) \cup {n} :
                       Type(a) \in {"class_body", "block"} => a < Latest(F))
  BY DEF InExport
<1>a. Type(n) = "program" => E = {} /\ F = {}
  BY TreeFacts, AboveFacts
<1>5. CASE Type(n) = "export"
  <2>1. n \in F /\ F \in SUBSET Nat /\ \A a \in F : a <= n
    BY <1>1, <1>5
  <2> HIDE DEF E, F
  <2>2. Latest(F) = n
    BY <2>1, LatestIsUnique
  <2>3. F # {} /\ \A a \in Above(n) \cup {n} : Type(a) \in {"class_body", "block"} => a < Latest(F)
    BY <1>1, <1>5, <2>1, <2>2
  <2> QED
    BY <1>4, <1>5, <2>3
<1>6. CASE Type(n) # "export"
  <2>1. F = E /\ E \in SUBSET Nat /\ \A a \in E : a < n
    BY <1>1, <1>6
  <2> HIDE DEF E, F
  <2>a. \A a \in E : a <= n
    BY <1>1, <2>1
  <2>2. E # {} => Latest(E) \in E
    BY <1>1, <2>1, <2>a, LatestIsGreatest
  <2>3. E # {} => Latest(E) \in Nat /\ ~(n < Latest(E))
    <3>1. \A x : x \in E => x \in Nat /\ x < n
      BY <2>1
    <3>2. \A x \in Nat : x < n => ~(n < x)
      BY <1>1
    <3> QED
      BY <2>2, <3>1, <3>2
  <2>4. Type(n) = "program" => E = {}
    BY <1>a
  <2> QED
    BY <1>2, <1>3, <1>4, <1>6, <2>1, <2>3, <2>4
<1> QED
  BY <1>5, <1>6

LEMMA EnterModifies ==
  ASSUME IsTree(tree), NEW n \in 1 .. Size, tree' = tree,
         Inside = Above(n), Inside' = Above(n) \cup {n}, Entered = 1 .. n - 1, Entered' = 1 .. n,
         Modified, pushed'.scope = {a \in Above(n) \cup {n} : Symbolic(a)},
         IF tree.language = "ecmascript" THEN EnterContext(n) ELSE UNCHANGED modifiers
  PROVE  Modified'
<1>1. \A m : /\ Type(m)' = Type(m) /\ HasSymbol(m)' = HasSymbol(m)
             /\ InExport(Above(m))' = InExport(Above(m))
  <2>1. \A m : Above(m)' = Above(m) /\ Type(m)' = Type(m) /\ Up(m)' = Up(m)
    BY TreeStays
  <2>2. \A m : Symbolic(Up(m))' = Symbolic(Up(m))
    BY <2>1, SymbolsStay DEF Symbolic
  <2> QED
    BY <2>1, <2>2 DEF InExport, Latest, HasSymbol
<1>2. CASE tree.language # "ecmascript"
  BY <1>2 DEF Modified, modifiers
<1>3. CASE tree.language = "ecmascript"
  <2>1. /\ context = InExport(Above(n))
        /\ restore = [a \in Restores |-> InExport(Above(a))]
        /\ bodies = Bodies
    BY <1>3 DEF Modified
  <2>2. context' = InExport(Inside)'
    <3>1. InExport(Inside)' = InExport(Above(n) \cup {n})
      BY <1>1 DEF InExport, Latest
    <3>2. context' = IF Type(n) = "export" THEN TRUE
                     ELSE IF Type(n) \in Boundaries THEN FALSE ELSE context
      BY <1>3 DEF EnterContext
    <3> QED
      BY <2>1, <3>1, <3>2, InExportGrows
  <2>3. restore' = [a \in Restores' |-> InExport(Above(a))]
    <3>1. Restores = {b \in Above(n) : Type(b) \in Boundaries \cup {"export"}}
      BY DEF Restores
    <3>2. Restores' = {b \in Above(n) \cup {n} : Type(b) \in Boundaries \cup {"export"}}
      BY <1>1 DEF Restores
    <3>3. n \notin Above(n)
      BY AboveFacts
    <3>4. CASE Type(n) \in Boundaries \cup {"export"}
      <4>1. restore' = [m \in DOMAIN restore \cup {n} |-> IF m = n THEN context ELSE restore[m]]
        BY <1>3, <3>4 DEF EnterContext
      <4>2. Restores' = Restores \cup {n} /\ n \notin Restores /\ DOMAIN restore = Restores
        BY <2>1, <3>1, <3>2, <3>3, <3>4
      <4>3. \A m \in Restores : restore[m] = InExport(Above(m))
        BY <2>1
      <4> QED
        BY <2>1, <4>1, <4>2, <4>3
    <3>5. CASE Type(n) \notin Boundaries \cup {"export"}
      <4>1. restore' = restore
        BY <1>3, <3>5 DEF EnterContext
      <4>2. Restores' = Restores
        BY <3>1, <3>2, <3>5
      <4> QED
        BY <2>1, <4>1, <4>2
    <3> QED
      BY <3>4, <3>5
  <2>4. bodies' = Bodies'
    <3>1. Bodies = {b \in 2 .. Size : Up(b) \in 1 .. n - 1 /\ HasSymbol(b)}
      BY DEF Bodies
    <3>2. Bodies' = {b \in 2 .. Size : Up(b) \in 1 .. n /\ HasSymbol(b)}
      <4>1. Size' = Size /\ \A b : Up(b)' = Up(b)
        BY TreeStays
      <4> QED
        BY <1>1, <4>1 DEF Bodies
    <3>3. n \in 1 .. n /\ n \notin 1 .. n - 1 /\ \A b : b \in 1 .. n <=> b \in 1 .. n - 1 \/ b = n
      BY TreeFacts
    <3>4. n \in pushed'.scope <=> Symbolic(n)
      OBVIOUS
    <3>5. bodies' = IF Symbolic(n) /\ Type(n) \in {"class", "interface"}
                    THEN bodies \cup BodiesOf(n) ELSE bodies
      BY <1>3, <3>4 DEF EnterContext
    <3>6. BodiesOf(n) = {b \in 2 .. Size : Up(b) = n /\ Type(b) \in BodyTypes}
      <4>1. \A b : b \in n + 1 .. End(n) => b \in 2 .. Size
        BY TreeFacts
      <4>2. \A b \in 2 .. Size : Up(b) = n => b \in n + 1 .. End(n)
        BY TreeFacts, UpFacts
      <4> QED
        BY <4>1, <4>2 DEF BodiesOf
    <3>7. \A b : Up(b) = n =>
             (HasSymbol(b) <=> Type(b) \in BodyTypes /\ Type(n) \in {"class", "interface"}
                                                     /\ Symbolic(n))
      BY DEF HasSymbol
    <3> QED
      BY <2>1, <3>1, <3>2, <3>3, <3>5, <3>6, <3>7
  <2>5. (restore = [a \in Restores |-> InExport(Above(a))])'
    BY <1>1, <2>3
  <2> QED
    BY <1>3, <2>2, <2>4, <2>5 DEF Modified
<1> QED
  BY <1>2, <1>3

LEMMA LeaveModifies ==
  ASSUME IsTree(tree), NEW n \in 1 .. Size, tree' = tree,
         Inside = Above(n) \cup {n}, Inside' = Above(n), Entered' = Entered, Modified,
         context' = IF n \in DOMAIN restore THEN restore[n] ELSE context,
         restore' = [m \in DOMAIN restore \ {n} |-> restore[m]], bodies' = bodies
  PROVE  Modified'
<1>1. \A m : /\ Type(m)' = Type(m) /\ HasSymbol(m)' = HasSymbol(m) /\ Up(m)' = Up(m)
             /\ InExport(Above(m))' = InExport(Above(m))
  <2>1. \A m : Above(m)' = Above(m) /\ Type(m)' = Type(m) /\ Up(m)' = Up(m)
    BY TreeStays
  <2>2. \A m : Symbolic(Up(m))' = Symbolic(Up(m))
    BY <2>1, SymbolsStay DEF Symbolic
  <2> QED
    BY <2>1, <2>2 DEF InExport, Latest, HasSymbol
<1>2. CASE tree.language # "ecmascript"
  BY <1>2 DEF Modified
<1>3. CASE tree.language = "ecmascript"
  <2>1. /\ context = InExport(Above(n) \cup {n})
        /\ restore = [a \in Restores |-> InExport(Above(a))]
        /\ bodies = Bodies /\ DOMAIN restore = Restores
    BY <1>3 DEF Modified
  <2>2. /\ Restores = {b \in Above(n) \cup {n} : Type(b) \in Boundaries \cup {"export"}}
        /\ Restores' = {b \in Above(n) : Type(b) \in Boundaries \cup {"export"}}
        /\ n \notin Above(n)
    BY <1>1, AboveFacts DEF Restores
  <2>3. context' = InExport(Inside)'
    <3>1. InExport(Inside)' = InExport(Above(n))
      BY <1>1 DEF InExport, Latest
    <3>2. CASE n \in Restores
      BY <2>1, <3>1, <3>2
    <3>3. CASE n \notin Restores
      <4>1. Type(n) \notin Boundaries /\ Type(n) # "export"
        BY <2>2, <3>3
      <4>2. InExport(Above(n) \cup {n}) = InExport(Above(n))
        BY <4>1, InExportGrows
      <4> QED
        BY <2>1, <3>1, <3>3, <4>2
    <3> QED
      BY <3>2, <3>3
  <2>4. (restore = [a \in Restores |-> InExport(Above(a))])'
    <3>1. Restores' = Restores \ {n}
      BY <2>2
    <3>2. \A m \in Restores : restore[m] = InExport(Above(m))
      BY <2>1
    <3>3. restore' = [a \in Restores' |-> InExport(Above(a))]
      BY <2>1, <3>1, <3>2
    <3> QED
      BY <1>1, <3>3
  <2>5. bodies' = Bodies'
    BY <1>1, <2>1, TreeStays DEF Bodies
  <2> QED
    BY <1>3, <2>3, <2>4, <2>5 DEF Modified
<1> QED
  BY <1>2, <1>3

LEMMA Collects ==
  ASSUME tree' = tree, NEW n, Collected, Entered' = Entered \cup {n}, Finding(n)
  PROVE  Collected'
<1>1. \A m : SymbolsAt(m)' = SymbolsAt(m) /\ CallsAt(m)' = CallsAt(m)
  BY SymbolsStay
<1>2. symbols' = UNION {SymbolsAt(m) : m \in Entered'}
  BY DEF Collected, Finding
<1>3. calls' = UNION {CallsAt(m) : m \in Entered'}
  BY DEF Collected, Finding
<1>4. (symbols = UNION {SymbolsAt(m) : m \in Entered})'
  BY <1>1, <1>2
<1>5. (calls = UNION {CallsAt(m) : m \in Entered})'
  BY <1>1, <1>3
<1> QED
  BY <1>4, <1>5 DEF Collected

(* The walk starts with nothing entered.                                   *)
LEMMA WalkStarts ==
  ASSUME WalkInit
  PROVE  WalkInv
<1>1. IsTree(tree)
  BY TreesAreSyntax DEF WalkInit
<1>2. events = <<Entering(1)>> /\ Entering(1).node = 1 /\ Entering(1).leaving = FALSE
  BY DEF WalkInit, Entering
<1>3. 1 \in 1 .. Size /\ Above(1) = {} /\ \A m : m \notin 1 .. 1 - 1
  BY <1>1, TreeFacts, AboveFacts
<1>4. Head(events) = Entering(1) /\ events # << >> /\ Len(events) = 1 /\ events[1] = Entering(1)
  BY <1>2
<1>5. Inside = {} /\ Entered = {}
  BY <1>2, <1>3, <1>4 DEF Inside, Entered
<1>6. Walking
  <2>1. events \in Seq([node : 1 .. Size, leaving : BOOLEAN])
    <3>1. Entering(1) \in [node : 1 .. Size, leaving : BOOLEAN]
      BY <1>3 DEF Entering
    <3> QED
      BY <1>2, <3>1
  <2>2. tree \in Trees
    BY DEF WalkInit
  <2>3. \A i \in 1 .. Len(events) - 1 : FALSE
    BY <1>4
  <2> QED
    BY <1>2, <1>4, <2>1, <2>2, <2>3 DEF Walking
<1>7. OnStacks
  <2>1. /\ pushed = [scope |-> {}, barrier |-> {}, decorator |-> {}]
        /\ scopes = << >> /\ owners = << >> /\ barriers = 0
    BY DEF WalkInit
  <2>2. Marked
    BY <1>5, <2>1 DEF Marked
  <2>3. Counted
    BY <2>1, FS_EmptySet DEF Counted
  <2>4. InOrder(<< >>, {})
    BY DEF InOrder
  <2>5. InOrder(scopes, pushed.scope)
    BY <2>1, <2>4
  <2>6. Owned
    <3>1. Owning = {}
      BY <2>1 DEF Owning
    <3>2. owners \in Seq(Nat \cup {Nobody}) /\ Len(owners) = Len(<< >>)
          /\ \A i \in 1 .. Len(<< >>) : FALSE
      BY <2>1
    <3> DEFINE w == << >>
    <3>3. InOrder(w, Owning) /\ Len(owners) = Len(w) /\ \A i \in 1 .. Len(w) : FALSE
      BY <2>4, <3>1, <3>2
    <3> HIDE DEF w
    <3> QED
      BY <3>2, <3>3 DEF Owned
  <2> QED
    BY <2>2, <2>3, <2>5, <2>6 DEF OnStacks
<1>8. Modified
  <2>1. context = FALSE /\ restore = [n \in {} |-> FALSE] /\ bodies = {}
    BY DEF WalkInit
  <2>2. InExport(Inside) = FALSE
    BY <1>5 DEF InExport
  <2>3. Restores = {} /\ Bodies = {}
    BY <1>5 DEF Restores, Bodies
  <2>4. [n \in {} |-> FALSE] = [a \in {} |-> InExport(Above(a))]
    OBVIOUS
  <2> QED
    BY <2>1, <2>2, <2>3, <2>4 DEF Modified
<1>9. Collected
  BY <1>5 DEF Collected, WalkInit
<1> QED
  BY <1>6, <1>7, <1>8, <1>9 DEF WalkInv

LEMMA EnterKeepsWalkInv ==
  ASSUME WalkInv, NEW n \in 1 .. Size, Enter(n)
  PROVE  WalkInv'
<1>1. Walking /\ OnStacks /\ Modified /\ Collected /\ IsTree(tree)
  BY TreeIsTree DEF WalkInv
<1>2. At(n, FALSE) /\ tree' = tree /\ events' = Entrance(n)
  BY DEF Enter, Entrance
<1>3. /\ Walking'
      /\ Inside = Above(n) /\ Inside' = Above(n) \cup {n}
      /\ Entered = 1 .. n - 1 /\ Entered' = 1 .. n
  BY <1>1, <1>2, EnterProgress
<1>4. Ready(n)
  <2>1. context = InExport(Above(n))
    <3>1. CASE tree.language = "ecmascript"
      BY <1>1, <1>3, <3>1 DEF Modified
    <3>2. CASE tree.language # "ecmascript"
      <4>1. Above(n) \in SUBSET (1 .. Size)
        BY <1>1, AboveFacts
      <4> QED
        BY <1>1, <3>2, <4>1, NoExport DEF Modified
    <3> QED
      BY <3>1, <3>2
  <2> QED
    BY <1>1, <1>3, <2>1 DEF Ready
<1>5. Stacking(n) /\ Finding(n)
  <2>1. CASE tree.language = "python" /\ Python(n)
    BY <1>4, <2>1, PythonFinds
  <2>2. CASE tree.language = "java" /\ Java(n)
    BY <1>4, <2>2, JavaFinds
  <2>3. CASE tree.language = "ecmascript" /\ EcmaScript(n)
    <3>1. bodies = Bodies
      BY <1>1, <2>3 DEF Modified
    <3> QED
      BY <1>3, <1>4, <2>3, <3>1, EcmaScriptFinds
  <2> QED
    BY <2>1, <2>2, <2>3 DEF Enter
<1>6. OnStacks' /\ pushed'.scope = {a \in Above(n) \cup {n} : Symbolic(a)}
  BY <1>1, <1>2, <1>3, <1>5, StackingKeeps
<1>7. Modified'
  <2>1. IF tree.language = "ecmascript" THEN EnterContext(n) ELSE UNCHANGED modifiers
    BY DEF Enter
  <2> QED
    BY <1>1, <1>2, <1>3, <1>6, <2>1, EnterModifies
<1>8. Collected'
  <2>1. Entered' = Entered \cup {n}
    <3>1. \A b : b \in 1 .. n <=> b \in 1 .. n - 1 \/ b = n
      BY <1>1, TreeFacts
    <3> QED
      BY <1>3, <3>1
  <2> QED
    BY <1>1, <1>2, <1>5, <2>1, Collects
<1> QED
  BY <1>3, <1>6, <1>7, <1>8 DEF WalkInv

LEMMA LeaveKeepsWalkInv ==
  ASSUME WalkInv, NEW n \in 1 .. Size, Leave(n)
  PROVE  WalkInv'
<1>1. Walking /\ OnStacks /\ Modified /\ Collected /\ IsTree(tree)
  BY TreeIsTree DEF WalkInv
<1>2. At(n, TRUE) /\ tree' = tree /\ events' = Tail(events)
  BY DEF Leave
<1>3. /\ Walking'
      /\ Inside = Above(n) \cup {n} /\ Inside' = Above(n) /\ Entered' = Entered
  BY <1>1, <1>2, LeaveProgress
<1>4. OnStacks'
  BY <1>1, <1>2, <1>3, LeavingKeeps DEF Leave
<1>5. Modified'
  BY <1>1, <1>2, <1>3, LeaveModifies DEF Leave
<1>6. Collected'
  <2>1. symbols' = symbols /\ calls' = calls
    BY DEF Leave, found
  <2>2. \A m : SymbolsAt(m)' = SymbolsAt(m) /\ CallsAt(m)' = CallsAt(m)
    BY <1>2, SymbolsStay
  <2>3. (symbols = UNION {SymbolsAt(m) : m \in Entered})'
    BY <1>1, <1>3, <2>1, <2>2 DEF Collected
  <2>4. (calls = UNION {CallsAt(m) : m \in Entered})'
    BY <1>1, <1>3, <2>1, <2>2 DEF Collected
  <2> QED
    BY <2>3, <2>4 DEF Collected
<1> QED
  BY <1>3, <1>4, <1>5, <1>6 DEF WalkInv

LEMMA WalkInvStutters ==
  ASSUME WalkInv, UNCHANGED walk
  PROVE  WalkInv'
<1>1. /\ tree' = tree /\ events' = events /\ scopes' = scopes /\ owners' = owners
      /\ barriers' = barriers /\ pushed' = pushed /\ context' = context /\ restore' = restore
      /\ bodies' = bodies /\ symbols' = symbols /\ calls' = calls
  BY DEF walk
<1>2. /\ Size' = Size
      /\ \A n : /\ Type(n)' = Type(n) /\ End(n)' = End(n) /\ Above(n)' = Above(n)
                /\ Up(n)' = Up(n) /\ After(n)' = After(n) /\ Trusted(n)' = Trusted(n)
  BY <1>1, TreeStays
<1>3. \A n : /\ Shut(n)' = Shut(n) /\ Behind(n)' = Behind(n) /\ Symbolic(n)' = Symbolic(n)
             /\ SymbolsAt(n)' = SymbolsAt(n) /\ CallsAt(n)' = CallsAt(n)
  BY <1>1, SymbolsStay
<1>4. Inside' = Inside /\ Entered' = Entered
  BY <1>1, <1>2 DEF Inside, Entered
<1>5. Walking'
  BY <1>1, <1>2 DEF WalkInv, Walking
<1>6. OnStacks'
  <2>1. Owning' = Owning /\ \A n : OwnerBy(n)' = OwnerBy(n)
    BY <1>1, <1>2 DEF Owning, OwnerBy
  <2>2. Marked'
    BY <1>1, <1>2, <1>3, <1>4 DEF WalkInv, OnStacks, Marked
  <2>3. Counted'
    BY <1>1 DEF WalkInv, OnStacks, Counted
  <2>4. Owned'
    BY <1>1, <2>1, OwnersStay DEF WalkInv, OnStacks
  <2> QED
    BY <1>1, <2>2, <2>3, <2>4 DEF WalkInv, OnStacks
<1>7. Modified'
  <2>1. InExport(Inside)' = InExport(Inside) /\ \A a : InExport(Above(a))' = InExport(Above(a))
    BY <1>2, <1>4 DEF InExport, Latest
  <2>2. Restores' = Restores
    BY <1>2, <1>4 DEF Restores
  <2>3. \A m : HasSymbol(m)' = HasSymbol(m)
    BY <1>2, <1>3 DEF HasSymbol, Symbolic
  <2>4. Bodies' = Bodies
    BY <1>2, <1>4, <2>3 DEF Bodies
  <2> QED
    BY <1>1, <2>1, <2>2, <2>4 DEF WalkInv, Modified
<1>8. Collected'
  <2>1. (symbols = UNION {SymbolsAt(m) : m \in Entered})'
    BY <1>1, <1>3, <1>4 DEF WalkInv, Collected
  <2>2. (calls = UNION {CallsAt(m) : m \in Entered})'
    BY <1>1, <1>3, <1>4 DEF WalkInv, Collected
  <2> QED
    BY <2>1, <2>2 DEF Collected
<1> QED
  BY <1>5, <1>6, <1>7, <1>8 DEF WalkInv

-------------------------------------------------------------------------------
(* Theorems *)

(* The stacks of the walk are those of the nodes around the next one, and  *)
(* what has been found is what the tree alone says of the nodes entered.   *)
THEOREM WalkInvariance ==
  WalkSpec => []WalkInv
<1>1. WalkInit => WalkInv
  BY WalkStarts
<1>2. WalkInv /\ [WalkNext]_walk => WalkInv'
  BY EnterKeepsWalkInv, LeaveKeepsWalkInv, WalkInvStutters DEF WalkNext
<1> QED
  BY <1>1, <1>2, PTL DEF WalkSpec

(* What the walk has found in the end.                                     *)
LEMMA FoundFacts ==
  ASSUME WalkInv, Finished
  PROVE  /\ IsTree(tree)
         /\ \A s : s \in symbols <=>
               \E n \in 1 .. Size : \E i \in PartsOf(n) :
                  IsDeclared(n) /\ s = [node |-> n, part |-> i, parent |-> ParentOf(n),
                                        exported |-> InExport(Above(n))]
         /\ Found = {n \in 1 .. Size : IsDeclared(n)}
         /\ \A c : c \in calls <=>
               \E n \in 1 .. Size : /\ Type(n) = "call" /\ Trusted(n)
                                    /\ c = [node |-> n, caller |-> CallerOf(n)]
<1>1. IsTree(tree) /\ Collected
  BY TreeIsTree DEF WalkInv
<1>2. Entered = 1 .. Size
  BY DEF Finished, Entered
<1>3. \A s : s \in symbols <=> \E n \in 1 .. Size : s \in SymbolsAt(n)
  BY <1>1, <1>2 DEF Collected
<1>4. \A s : s \in symbols <=>
         \E n \in 1 .. Size : \E i \in PartsOf(n) :
            IsDeclared(n) /\ s = [node |-> n, part |-> i, parent |-> ParentOf(n),
                                  exported |-> InExport(Above(n))]
  BY <1>3 DEF SymbolsAt
<1>5. Found = {n \in 1 .. Size : IsDeclared(n)}
  <2>1. ASSUME NEW s \in symbols PROVE s.node \in {n \in 1 .. Size : IsDeclared(n)}
    BY <1>4
  <2>2. ASSUME NEW n \in 1 .. Size, IsDeclared(n) PROVE n \in Found
    <3>1. 1 \in PartsOf(n)
      BY DEF PartsOf
    <3> DEFINE s == [node |-> n, part |-> 1, parent |-> ParentOf(n),
                     exported |-> InExport(Above(n))]
    <3>2. s \in symbols /\ s.node = n
      BY <1>4, <2>2, <3>1
    <3> QED
      BY <3>2 DEF Found
  <2> QED
    BY <2>1, <2>2 DEF Found
<1>6. \A c : c \in calls <=> \E n \in 1 .. Size : c \in CallsAt(n)
  BY <1>1, <1>2 DEF Collected
<1>7. \A c : c \in calls <=>
         \E n \in 1 .. Size : /\ Type(n) = "call" /\ Trusted(n)
                              /\ c = [node |-> n, caller |-> CallerOf(n)]
  BY <1>6 DEF CallsAt
<1> QED
  BY <1>1, <1>4, <1>5, <1>7

LEMMA OwnersInTheEnd ==
  ASSUME WalkInv
  PROVE  OwnersAreLexical
<1> SUFFICES ASSUME Finished
             PROVE  /\ {c.node : c \in calls} = {n \in 1 .. Size : Type(n) = "call" /\ Trusted(n)}
                    /\ \A c \in calls :
                          LET around == {a \in Above(c.node) : IsContainer(a) \/ Type(a) \in Opaque}
                              owned == /\ around # {} /\ Latest(around) \in Found
                                       /\ Type(Latest(around)) \in Callables
                                       /\ \A a \in Above(c.node) : Type(a) = "decorator" =>
                                             tree.language = "python" /\ a < Latest(around)
                          IN c.caller = IF owned THEN Latest(around) ELSE Nobody
  BY DEF OwnersAreLexical
<1>1. IsTree(tree) /\ Found = {n \in 1 .. Size : IsDeclared(n)}
  BY FoundFacts
<1>2. \A c : c \in calls <=>
         \E n \in 1 .. Size : /\ Type(n) = "call" /\ Trusted(n)
                              /\ c = [node |-> n, caller |-> CallerOf(n)]
  BY FoundFacts
<1>3. {c.node : c \in calls} = {n \in 1 .. Size : Type(n) = "call" /\ Trusted(n)}
  <2>1. ASSUME NEW c \in calls
        PROVE  c.node \in {n \in 1 .. Size : Type(n) = "call" /\ Trusted(n)}
    BY <1>2
  <2>2. ASSUME NEW n \in 1 .. Size, Type(n) = "call", Trusted(n)
        PROVE  \E c \in calls : c.node = n
    <3> DEFINE c == [node |-> n, caller |-> CallerOf(n)]
    <3>1. c \in calls /\ c.node = n
      BY <1>2, <2>2
    <3> QED
      BY <3>1
  <2> QED
    BY <2>1, <2>2
<1>4. ASSUME NEW c \in calls
      PROVE  LET around == {a \in Above(c.node) : IsContainer(a) \/ Type(a) \in Opaque}
                 owned == /\ around # {} /\ Latest(around) \in Found
                          /\ Type(Latest(around)) \in Callables
                          /\ \A a \in Above(c.node) : Type(a) = "decorator" =>
                                tree.language = "python" /\ a < Latest(around)
             IN c.caller = IF owned THEN Latest(around) ELSE Nobody
  <2>1. PICK n \in 1 .. Size : c = [node |-> n, caller |-> CallerOf(n)]
    BY <1>2
  <2>2. c.node = n /\ c.caller = CallerOf(n)
    BY <2>1
  <2>3. {a \in Above(n) : IsContainer(a) \/ Type(a) \in Opaque} = Surrounding(n)
    BY DEF Surrounding
  <2>4. Surrounding(n) # {} => (Latest(Surrounding(n)) \in Found <=>
                                   Symbolic(Latest(Surrounding(n))))
    <3> SUFFICES ASSUME Surrounding(n) # {}
                 PROVE  Latest(Surrounding(n)) \in Found <=> Symbolic(Latest(Surrounding(n)))
      OBVIOUS
    <3>1. /\ Surrounding(n) \in SUBSET Nat /\ n \in Nat
          /\ \A a \in Surrounding(n) : a <= n
      <4>1. /\ \A a \in Above(n) : a \in Nat /\ a <= n
            /\ n \in Nat
        BY <1>1, AboveFacts
      <4> QED
        BY <4>1 DEF Surrounding
    <3>2. Latest(Surrounding(n)) \in Surrounding(n)
      BY <3>1, LatestIsGreatest
    <3> DEFINE a == Latest(Surrounding(n))
    <3>3. a \in 1 .. Size /\ (IsContainer(a) \/ Type(a) \in Opaque)
      BY <1>1, <3>2, AboveFacts DEF Surrounding
    <3>4. Type(a) \in Opaque => ~IsContainer(a) /\ ~IsConstant(a)
      BY <1>1, <3>3, PlainFacts
    <3>5. a \in Found <=> IsDeclared(a)
      BY <1>1, <3>3
    <3> HIDE DEF a
    <3>6. a \in Found <=> Symbolic(a)
      BY <3>3, <3>4, <3>5 DEF IsDeclared, Symbolic
    <3> QED
      BY <3>6 DEF a
  <2>5. CallerOf(n) =
          LET owned == /\ Surrounding(n) # {} /\ Latest(Surrounding(n)) \in Found
                       /\ Type(Latest(Surrounding(n))) \in Callables
                       /\ \A a \in Above(n) : Type(a) = "decorator" =>
                             tree.language = "python" /\ a < Latest(Surrounding(n))
          IN IF owned THEN Latest(Surrounding(n)) ELSE Nobody
    BY <2>4 DEF CallerOf, IsOwned
  <2> QED
    BY <2>2, <2>3, <2>5
<1> QED
  BY <1>3, <1>4

(* What is in something closed is behind something shut.                   *)
LEMMA ClosedFacts ==
  ASSUME WalkInv, Finished, NEW n \in 1 .. Size
  PROVE  (\E a \in Above(n) : Closed(a)) <=> Behind(n)
<1>1. IsTree(tree) /\ Found = {m \in 1 .. Size : IsDeclared(m)}
  BY FoundFacts
<1>2. ASSUME NEW a \in Above(n), Closed(a) PROVE Behind(n)
  <2>1. a \in 1 .. Size
    BY <1>1, AboveFacts
  <2>2. Shut(a) \/ Behind(a)
    BY <1>1, <1>2, <2>1 DEF Closed, Shut, IsDeclared
  <2> QED
    BY <1>1, <2>2, BehindFacts
<1>3. ASSUME NEW a \in Above(n), Shut(a) PROVE Closed(a)
  BY <1>1, <1>3 DEF Closed, Shut, IsDeclared
<1> QED
  BY <1>2, <1>3 DEF Behind

LEMMA SymbolsInTheEnd ==
  ASSUME WalkInv
  PROVE  SymbolsAreLexical
<1> SUFFICES ASSUME Finished
             PROVE  /\ Found = {n \in 1 .. Size : /\ IsContainer(n) \/ IsConstant(n)
                                                  /\ Trusted(n) /\ ~\E a \in Above(n) : Closed(a)}
                    /\ \A s \in symbols :
                          LET around == {a \in Above(s.node) : IsContainer(a)}
                              exports == {a \in Above(s.node) : Type(a) = "export"}
                          IN /\ s.parent = IF around = {} THEN Nobody ELSE Latest(around)
                             /\ s.exported <=> exports # {} /\
                                   \A a \in Above(s.node) :
                                      Type(a) \in {"class_body", "block"} => a < Latest(exports)
  BY DEF SymbolsAreLexical
<1>1. Found = {n \in 1 .. Size : IsDeclared(n)}
  BY FoundFacts
<1>2. \A s : s \in symbols <=>
         \E n \in 1 .. Size : \E i \in PartsOf(n) :
            IsDeclared(n) /\ s = [node |-> n, part |-> i, parent |-> ParentOf(n),
                                  exported |-> InExport(Above(n))]
  BY FoundFacts
<1>3. \A n \in 1 .. Size : (\E a \in Above(n) : Closed(a)) <=> Behind(n)
  BY ClosedFacts
<1>4. Found = {n \in 1 .. Size : /\ IsContainer(n) \/ IsConstant(n)
                                 /\ Trusted(n) /\ ~\E a \in Above(n) : Closed(a)}
  BY <1>1, <1>3 DEF IsDeclared
<1>5. ASSUME NEW s \in symbols
      PROVE  LET around == {a \in Above(s.node) : IsContainer(a)}
                 exports == {a \in Above(s.node) : Type(a) = "export"}
             IN /\ s.parent = IF around = {} THEN Nobody ELSE Latest(around)
                /\ s.exported <=> exports # {} /\
                      \A a \in Above(s.node) :
                         Type(a) \in {"class_body", "block"} => a < Latest(exports)
  <2>1. PICK n \in 1 .. Size : \E i \in PartsOf(n) :
           s = [node |-> n, part |-> i, parent |-> ParentOf(n), exported |-> InExport(Above(n))]
    BY <1>2
  <2>2. s.node = n /\ s.parent = ParentOf(n) /\ s.exported = InExport(Above(n))
    BY <2>1
  <2> QED
    BY <2>2 DEF ParentOf, Containing, InExport
<1> QED
  BY <1>4, <1>5

(* In any tree of any of the languages, whatever the walk finds of calls   *)
(* belongs to whom the lexical rules say, however the barriers, decorators *)
(* and scopes on the stacks were nested (iter_events and the extractors).  *)
THEOREM OwnersAreAlwaysLexical ==
  WalkSpec => []OwnersAreLexical
BY WalkInvariance, OwnersInTheEnd, PTL

(* And so do the symbols, with their parents and their export modifiers.   *)
THEOREM SymbolsAreAlwaysLexical ==
  WalkSpec => []SymbolsAreLexical
BY WalkInvariance, SymbolsInTheEnd, PTL

LEMMA SeqNarrows ==
  ASSUME NEW S, NEW T, NEW q \in Seq(S), \A i \in 1 .. Len(q) : q[i] \in T
  PROVE  q \in Seq(T)
OBVIOUS

LEMMA WalkIsTyped ==
  ASSUME WalkInv
  PROVE  WalkTypeOK
<1>1. Walking /\ OnStacks /\ Modified /\ Collected /\ IsTree(tree) /\ Marked /\ Counted
      /\ InOrder(scopes, pushed.scope) /\ Owned
  BY TreeIsTree DEF WalkInv, OnStacks
<1>2. Inside \subseteq 1 .. Size /\ Entered \subseteq 1 .. Size
  <2>1. CASE events = << >>
    BY <2>1 DEF Inside, Entered
  <2>2. CASE events # << >>
    <3>1. Head(events).node \in 1 .. Size
      <4>1. Head(events) \in [node : 1 .. Size, leaving : BOOLEAN]
        BY <1>1, <2>2, HeadTailProperties DEF Walking
      <4> QED
        BY <4>1
    <3>2. /\ Above(Head(events).node) \subseteq 1 .. Size
          /\ Size \in Nat /\ Head(events).node \in Nat /\ End(Head(events).node) \in Nat
          /\ Head(events).node - 1 <= Size /\ End(Head(events).node) <= Size
      BY <1>1, <3>1, AboveFacts, TreeFacts
    <3>3. \A k \in Int : k <= Size => 1 .. k \subseteq 1 .. Size
      BY <3>2
    <3>4. 1 .. Head(events).node - 1 \subseteq 1 .. Size
          /\ 1 .. End(Head(events).node) \subseteq 1 .. Size
      BY <3>2, <3>3
    <3> QED
      BY <2>2, <3>1, <3>2, <3>4 DEF Inside, Entered
  <2> QED
    BY <2>1, <2>2
<1>3. tree \in Trees /\ events \in Seq([node : 1 .. Size, leaving : BOOLEAN])
  BY <1>1 DEF Walking
<1>4. /\ pushed \in [scope : SUBSET Nat, barrier : SUBSET Nat, decorator : SUBSET Nat]
      /\ pushed.scope \subseteq 1 .. Size /\ pushed.barrier \subseteq 1 .. Size
      /\ pushed.decorator \subseteq 1 .. Size
  BY <1>1, <1>2 DEF Marked
<1>5. pushed \in [scope : SUBSET (1 .. Size), barrier : SUBSET (1 .. Size),
                  decorator : SUBSET (1 .. Size)]
  <2>1. pushed = [scope |-> pushed.scope, barrier |-> pushed.barrier,
                  decorator |-> pushed.decorator]
    BY <1>4
  <2> QED
    BY <1>4, <2>1
<1>6. scopes \in Seq(1 .. Size)
  <2>1. scopes \in Seq(Nat) /\ \A i \in 1 .. Len(scopes) : scopes[i] \in 1 .. Size
    BY <1>1, <1>4, InOrderFacts DEF InOrder
  <2> QED
    BY <2>1, SeqNarrows
<1>7. owners \in Seq((1 .. Size) \cup {Nobody})
  <2>1. PICK w : /\ InOrder(w, Owning)
                 /\ owners \in Seq(Nat \cup {Nobody}) /\ Len(owners) = Len(w)
                 /\ \A i \in 1 .. Len(w) : owners[i] = OwnerBy(w[i])
    BY <1>1 DEF Owned
  <2>2. \A i \in 1 .. Len(w) : w[i] \in 1 .. Size
    BY <1>4, <2>1, InOrderFacts DEF Owning
  <2>3. \A i \in 1 .. Len(owners) : owners[i] \in (1 .. Size) \cup {Nobody}
    BY <2>1, <2>2 DEF OwnerBy
  <2> QED
    BY <2>1, <2>3, SeqNarrows
<1>8. barriers \in 0 .. Size
  <2>1. Size \in Nat /\ 1 \in Int /\ Size \in Int
    BY <1>1, TreeFacts
  <2>2. IsFiniteSet(1 .. Size) /\ Cardinality(1 .. Size) = Size
    <3>1. Cardinality(1 .. Size) = IF 1 > Size THEN 0 ELSE Size - 1 + 1
      BY <2>1, FS_Interval
    <3>2. Size > 0
      BY <1>1, TreeFacts
    <3> QED
      BY <2>1, <3>1, <3>2, FS_Interval
  <2>3. Cardinality(pushed.barrier) <= Size
    BY <1>4, <2>2, FS_Subset
  <2>4. barriers \in Nat
    BY <1>1, FS_CardinalityType DEF Counted
  <2> QED
    BY <1>1, <2>1, <2>3, <2>4 DEF Counted
<1>9. /\ context \in BOOLEAN /\ bodies \subseteq 1 .. Size
      /\ DOMAIN restore \subseteq 1 .. Size /\ \A n \in DOMAIN restore : restore[n] \in BOOLEAN
  <2>1. \A A : InExport(A) \in BOOLEAN
    BY DEF InExport
  <2>2. CASE tree.language = "ecmascript"
    <3>1. bodies = Bodies /\ context \in BOOLEAN
      BY <2>1, <2>2 DEF Modified, WalkInv
    <3>2. \A b \in 2 .. Size : b \in 1 .. Size
      BY <1>1, TreeFacts
    <3>3. /\ DOMAIN restore \subseteq 1 .. Size
          /\ \A n \in DOMAIN restore : restore[n] \in BOOLEAN
      BY <1>1, <1>2, <2>1, <2>2 DEF Modified, Restores
    <3> QED
      BY <3>1, <3>2, <3>3 DEF Bodies
  <2>3. CASE tree.language # "ecmascript"
    BY <1>1, <2>3 DEF Modified
  <2> QED
    BY <2>2, <2>3
<1>10. \A n \in 1 .. Size : ParentOf(n) \in (1 .. Size) \cup {Nobody}
                            /\ CallerOf(n) \in (1 .. Size) \cup {Nobody}
  <2> SUFFICES ASSUME NEW n \in 1 .. Size
               PROVE  ParentOf(n) \in (1 .. Size) \cup {Nobody}
                      /\ CallerOf(n) \in (1 .. Size) \cup {Nobody}
    OBVIOUS
  <2>1. ASSUME NEW A \in SUBSET Above(n), A # {} PROVE Latest(A) \in 1 .. Size
    <3>1. A \in SUBSET Nat /\ n \in Nat /\ \A a \in A : a \in 1 .. Size /\ a <= n
      <4>1. n \in Nat /\ \A a \in Above(n) : a \in 1 .. Size /\ a \in Nat /\ a <= n
        BY <1>1, AboveFacts
      <4> QED
        BY <4>1
    <3>2. Latest(A) \in A
      BY <2>1, <3>1, LatestIsGreatest
    <3> QED
      BY <3>1, <3>2
  <2>2. Containing(n) \in SUBSET Above(n) /\ Surrounding(n) \in SUBSET Above(n)
    BY DEF Containing, Surrounding
  <2> QED
    BY <2>1, <2>2 DEF ParentOf, CallerOf, IsOwned
<1>11. symbols \subseteq [node : 1 .. Size, part : {1, 2}, parent : (1 .. Size) \cup {Nobody},
                          exported : BOOLEAN]
  <2>1. ASSUME NEW n \in 1 .. Size, NEW s \in SymbolsAt(n)
        PROVE  s \in [node : 1 .. Size, part : {1, 2}, parent : (1 .. Size) \cup {Nobody},
                      exported : BOOLEAN]
    <3>1. PICK i \in PartsOf(n) :
             s = [node |-> n, part |-> i, parent |-> ParentOf(n), exported |-> InExport(Above(n))]
      BY <2>1 DEF SymbolsAt
    <3>2. i \in {1, 2}
      BY DEF PartsOf
    <3>3. InExport(Above(n)) \in BOOLEAN
      BY DEF InExport
    <3> QED
      BY <1>10, <3>1, <3>2, <3>3
  <2> QED
    BY <1>1, <1>2, <2>1 DEF Collected
<1>12. calls \subseteq [node : 1 .. Size, caller : (1 .. Size) \cup {Nobody}]
  <2>1. ASSUME NEW n \in 1 .. Size, NEW c \in CallsAt(n)
        PROVE  c \in [node : 1 .. Size, caller : (1 .. Size) \cup {Nobody}]
    BY <1>10 DEF CallsAt
  <2> QED
    BY <1>1, <1>2, <2>1 DEF Collected
<1> QED
  BY <1>3, <1>5, <1>6, <1>7, <1>8, <1>9, <1>11, <1>12 DEF WalkTypeOK

(* The stacks, counters and maps of the walk hold only nodes of the tree.  *)
THEOREM WalkTypeCorrect ==
  WalkSpec => []WalkTypeOK
BY WalkInvariance, WalkIsTyped, PTL

===============================================================================
