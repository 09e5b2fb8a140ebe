---------------------------- MODULE FileStructureProofs ----------------------------
(***************************************************************************)
(* From the tree to the chunk candidates.  Whoever made the symbols of a   *)
(* file, exactly the forests are accepted, and of a forest the candidates  *)
(* are apart, cover what is to be covered and belong to the innermost      *)
(* symbol around them; and the symbols the extractors find make no forest  *)
(* in two cases only.                                                      *)
(***************************************************************************)
EXTENDS FileStructure, ExtractionProofs

-------------------------------------------------------------------------------
(* The gaps that ranges leave *)

Ranges(S) == \A r \in S : r.start \in Nat /\ r.end \in Nat /\ r.start < r.end
Bounds(a, b, S) == \A r \in S : a <= r.start /\ r.end <= b
In(x, r) == r.start < x /\ x <= r.end

(* A gap lies between the bounds, and meets none of the ranges.            *)
LEMMA GapIsFree ==
  ASSUME NEW a \in Nat, NEW b \in Nat, NEW S, Ranges(S), Bounds(a, b, S),
         NEW g \in Gaps(a, b, S)
  PROVE  /\ g[1] \in Nat /\ g[2] \in Nat /\ a <= g[1] /\ g[1] < g[2] /\ g[2] <= b
         /\ \A r \in S : r.end <= g[1] \/ g[2] <= r.start
         /\ g = <<g[1], g[2]>>
<1>1. /\ g[1] \in {a} \cup {r.end : r \in S} /\ g[2] \in {b} \cup {r.start : r \in S}
      /\ g[1] < g[2] /\ \A r \in S : r.end <= g[1] \/ g[2] <= r.start
      /\ g = <<g[1], g[2]>>
  BY DEF Gaps
<1>2. \A r \in S : /\ r.start \in Nat /\ r.end \in Nat /\ r.start < r.end
                   /\ a <= r.start /\ r.end <= b
  BY DEF Ranges, Bounds
<1>3. g[1] \in Nat /\ a <= g[1]
  BY <1>1, <1>2
<1>4. g[2] \in Nat /\ g[2] <= b
  BY <1>1, <1>2
<1> QED
  BY <1>1, <1>3, <1>4

(* Two gaps between the same ranges are equal or apart.                    *)
LEMMA GapsAreApart ==
  ASSUME NEW a \in Nat, NEW b \in Nat, NEW S, Ranges(S), Bounds(a, b, S),
         NEW g \in Gaps(a, b, S), NEW h \in Gaps(a, b, S)
  PROVE  g = h \/ g[2] <= h[1] \/ h[2] <= g[1]
<1>1. /\ g[1] \in Nat /\ g[2] \in Nat /\ h[1] \in Nat /\ h[2] \in Nat
      /\ a <= g[1] /\ g[1] < g[2] /\ g[2] <= b /\ a <= h[1] /\ h[1] < h[2] /\ h[2] <= b
      /\ \A r \in S : r.end <= g[1] \/ g[2] <= r.start
      /\ \A r \in S : r.end <= h[1] \/ h[2] <= r.start
      /\ g = <<g[1], g[2]>> /\ h = <<h[1], h[2]>>
  BY GapIsFree
<1>2. \A r \in S : r.start \in Nat /\ r.end \in Nat /\ r.start < r.end
  BY DEF Ranges
<1>3. /\ g[1] \in {a} \cup {r.end : r \in S} /\ h[1] \in {a} \cup {r.end : r \in S}
      /\ g[2] \in {b} \cup {r.start : r \in S} /\ h[2] \in {b} \cup {r.start : r \in S}
  BY DEF Gaps
<1>4. ASSUME g[1] < h[1], h[1] < g[2] PROVE FALSE
  <2>1. PICK r \in S : h[1] = r.end
    BY <1>1, <1>3, <1>4
  <2> QED
    BY <1>1, <1>2, <1>4, <2>1
<1>5. ASSUME h[1] < g[1], g[1] < h[2] PROVE FALSE
  <2>1. PICK r \in S : g[1] = r.end
    BY <1>1, <1>3, <1>5
  <2> QED
    BY <1>1, <1>2, <1>5, <2>1
<1>6. ASSUME g[1] = h[1], g[2] < h[2] PROVE FALSE
  <2>1. PICK r \in S : g[2] = r.start
    BY <1>1, <1>3, <1>6
  <2> QED
    BY <1>1, <1>2, <1>6, <2>1
<1>7. ASSUME g[1] = h[1], h[2] < g[2] PROVE FALSE
  <2>1. PICK r \in S : h[2] = r.start
    BY <1>1, <1>3, <1>7
  <2> QED
    BY <1>1, <1>2, <1>7, <2>1
<1>8. g[1] = h[1] /\ g[2] = h[2] => g = h
  BY <1>1
<1> QED
  BY <1>1, <1>4, <1>5, <1>6, <1>7, <1>8

(* A byte between the bounds that is in none of the ranges is in a gap.    *)
LEMMA GapsCover ==
  ASSUME NEW a \in Nat, NEW b \in Nat, NEW S, Ranges(S), Bounds(a, b, S),
         NEW x \in Nat, a < x, x <= b, \A r \in S : ~In(x, r)
  PROVE  \E g \in Gaps(a, b, S) : g[1] < x /\ x <= g[2]
<1> DEFINE E == {e \in {a} \cup {r.end : r \in S} : e < x}
           F == {f \in {b} \cup {r.start : r \in S} : x <= f}
<1>1. \A r \in S : /\ r.start \in Nat /\ r.end \in Nat /\ r.start < r.end
                   /\ x <= r.start \/ r.end < x
  BY DEF Ranges, In
<1>2. PICK e \in E : \A n \in E : n <= e
  <2>1. E \in SUBSET Nat /\ E # {} /\ \A n \in E : n <= x
    BY <1>1
  <2> HIDE DEF E
  <2> QED
    BY <2>1, Greatest
<1>3. PICK f \in F : \A n \in F : f <= n
  <2>1. F \in SUBSET Nat /\ F # {}
    BY <1>1
  <2> HIDE DEF F
  <2> QED
    BY <2>1, Least
<1>4. e \in Nat /\ f \in Nat /\ e < x /\ x <= f
  BY <1>1, <1>2, <1>3
<1>5. ASSUME NEW r \in S PROVE r.end <= e \/ f <= r.start
  <2>1. CASE x <= r.start
    <3>1. r.start \in F
      BY <2>1
    <3> QED
      BY <1>3, <3>1
  <2>2. CASE r.end < x
    <3>1. r.end \in E
      BY <2>2
    <3> QED
      BY <1>2, <3>1
  <2> QED
    BY <1>1, <2>1, <2>2
<1>6. <<e, f>> \in Gaps(a, b, S)
  <2>1. e \in {a} \cup {r.end : r \in S} /\ f \in {b} \cup {r.start : r \in S} /\ e < f
    BY <1>2, <1>3, <1>4
  <2> QED
    BY <1>5, <2>1 DEF Gaps
<1> QED
  BY <1>4, <1>6

(* The contexts between ranges: their shape, ...                           *)
LEMMA ContextShape ==
  ASSUME NEW a \in Nat, NEW b \in Nat, NEW S, Ranges(S), Bounds(a, b, S), NEW owner,
         NEW c \in Contexts(a, b, S, owner)
  PROVE  /\ c = Candidate("context", c.start, c.end, owner)
         /\ c.start \in Nat /\ c.end \in Nat /\ a <= c.start /\ c.start < c.end /\ c.end <= b
         /\ \A r \in S : Disjoint(r, c)
         /\ <<c.start, c.end>> \in Gaps(a, b, S)
         /\ ~(c.start + 1 .. c.end \subseteq file.blank)
<1>1. PICK g \in Gaps(a, b, S) : c \in Context(g[1], g[2], owner)
  BY DEF Contexts
<1>2. PICK x \in (g[1] + 1 .. g[2]) \ file.blank : c = Candidate("context", g[1], g[2], owner)
  BY <1>1 DEF Context
<1>3. c.start = g[1] /\ c.end = g[2] /\ c.kind = "context" /\ c.owner = owner
  BY <1>2 DEF Candidate
<1> QED
  BY <1>2, <1>3, GapIsFree DEF Disjoint

LEMMA ContextOwner ==
  ASSUME NEW a, NEW b, NEW S, NEW owner
  PROVE  \A c \in Contexts(a, b, S, owner) : c.kind = "context" /\ c.owner = owner
BY DEF Contexts, Context, Candidate

(* ... which is apart from each other ...                                  *)
LEMMA ContextsAreApart ==
  ASSUME NEW a \in Nat, NEW b \in Nat, NEW S, Ranges(S), Bounds(a, b, S), NEW owner,
         NEW c \in Contexts(a, b, S, owner), NEW d \in Contexts(a, b, S, owner)
  PROVE  c = d \/ Disjoint(c, d)
<1>1. /\ c = Candidate("context", c.start, c.end, owner)
      /\ d = Candidate("context", d.start, d.end, owner)
      /\ <<c.start, c.end>> \in Gaps(a, b, S) /\ <<d.start, d.end>> \in Gaps(a, b, S)
  BY ContextShape
<1>2. <<c.start, c.end>> = <<d.start, d.end>> \/ c.end <= d.start \/ d.end <= c.start
  BY <1>1, GapsAreApart
<1>3. CASE c.start = d.start /\ c.end = d.end
  BY <1>1, <1>3
<1> QED
  BY <1>2, <1>3 DEF Disjoint

(* ... and the bytes they hold: all that are not blank.                    *)
LEMMA ContextsCover ==
  ASSUME NEW a \in Nat, NEW b \in Nat, NEW S, Ranges(S), Bounds(a, b, S), NEW owner,
         NEW x \in Nat \ file.blank, a < x, x <= b, \A r \in S : ~In(x, r)
  PROVE  \E c \in Contexts(a, b, S, owner) : In(x, c)
<1>1. PICK g \in Gaps(a, b, S) : g[1] < x /\ x <= g[2]
  BY GapsCover
<1>2. g[1] \in Nat /\ g[2] \in Nat
  BY GapIsFree
<1> DEFINE c == Candidate("context", g[1], g[2], owner)
<1>3. x \in (g[1] + 1 .. g[2]) \ file.blank
  BY <1>1, <1>2
<1>4. c \in Contexts(a, b, S, owner)
  BY <1>3 DEF Contexts, Context
<1>5. In(x, c)
  BY <1>1 DEF In, Candidate
<1> QED
  BY <1>4, <1>5

-------------------------------------------------------------------------------
(* The forest that is built *)

Kept == Len(unique)
Rest == {todo[k] : k \in 1 .. Len(todo)}
Placed == {unique[i] : i \in 1 .. Kept}

(* The child of a symbol lies in it, and in no other that it does not hold.*)
IsChild(i, j) ==
  /\ Holds(unique[i], unique[j])
  /\ \A k \in 1 .. Kept : Holds(unique[k], unique[j]) => k = i \/ Holds(unique[k], unique[i])

Shape ==
  /\ IsFile(file)
  /\ todo \in Seq(Symbols) /\ unique \in Seq(Symbols)
  /\ stack \in Seq(1 .. Len(unique))
  /\ children \in Seq(Seq(1 .. Len(unique))) /\ Len(children) = Len(unique)
  /\ selected \in 0 .. Len(unique)
  /\ phase \in {"build", "select", "done", "invalid"}
  /\ phase = "build" => selected = 0
  /\ phase \in {"select", "done"} => todo = << >>

(* The symbols that were placed are in order, and before the others.       *)
Ordered ==
  /\ \A j, k \in 1 .. Len(todo) : j < k => KeyLeq(todo[j], todo[k])
  /\ \A i \in 1 .. Kept : \A k \in 1 .. Len(todo) : KeyLeq(unique[i], todo[k])
  /\ \A i, j \in 1 .. Kept : i < j => KeyLeq(unique[i], unique[j]) /\ ~SameRange(unique[i], unique[j])
  /\ \A i \in 1 .. Kept : unique[i].start < unique[i].end /\ unique[i].end <= file.size
  /\ Symbols = Placed \cup Rest

(* Two of them are apart or one in the other, and a named parent is where  *)
(* it should be.                                                           *)
Nested ==
  /\ \A i, j \in 1 .. Kept :
        i < j => Disjoint(unique[i], unique[j]) \/ Holds(unique[i], unique[j])
  /\ \A j \in 1 .. Kept : unique[j].parent # None =>
        \E i \in 1 .. Kept : IsChild(i, j) /\ unique[i].name = unique[j].parent

(* The stack is a chain, and what is not on it ends before the rest.       *)
Stacked ==
  /\ \A a, b \in 1 .. Len(stack) : a < b => Holds(unique[stack[b]], unique[stack[a]])
  /\ \A i \in 1 .. Kept :
        \/ \E a \in 1 .. Len(stack) : stack[a] = i
        \/ \A k \in 1 .. Len(todo) : unique[i].end <= todo[k].start

Adopted ==
  \A i, j \in 1 .. Kept :
      IsChild(i, j) <=> \E k \in 1 .. Len(children[i]) : children[i][k] = j

Forest == Shape /\ Ordered /\ Nested /\ Stacked /\ Adopted

LEMMA SymbolFields ==
  ASSUME IsFile(file)
  PROVE  /\ \A s \in Symbols : s.start \in Nat /\ s.end \in Nat
         /\ file.size \in Nat
BY DEF IsFile, Symbols

(* The file is what it was, and so are its symbols.                        *)
LEMMA FileStays ==
  ASSUME Shape, UNCHANGED file
  PROVE  IsFile(file)' /\ Symbols' = Symbols
BY DEF Shape, IsFile, Symbols, SymbolsOf

(* What Shape says of single symbols.                                      *)
LEMMA ShapeFacts ==
  ASSUME Shape
  PROVE  /\ Kept \in Nat /\ Len(todo) \in Nat /\ Len(stack) \in Nat /\ file.size \in Nat
         /\ \A i \in 1 .. Kept : /\ unique[i] \in Symbols
                                 /\ unique[i].start \in Nat /\ unique[i].end \in Nat
         /\ \A k \in 1 .. Len(todo) : /\ todo[k] \in Symbols
                                      /\ todo[k].start \in Nat /\ todo[k].end \in Nat
         /\ \A a \in 1 .. Len(stack) : stack[a] \in 1 .. Kept
<1>1. \A i \in 1 .. Kept : unique[i] \in Symbols
  BY DEF Shape, Kept
<1>2. \A k \in 1 .. Len(todo) : todo[k] \in Symbols
  BY DEF Shape
<1>3. Kept \in Nat /\ Len(todo) \in Nat /\ Len(stack) \in Nat
  <2>1. todo \in Seq(Symbols) /\ unique \in Seq(Symbols) /\ stack \in Seq(1 .. Kept)
    BY DEF Shape, Kept
  <2> QED
    BY <2>1, LenProperties DEF Kept
<1>4. \A a \in 1 .. Len(stack) : stack[a] \in 1 .. Kept
  <2>1. stack \in Seq(1 .. Kept)
    BY DEF Shape, Kept
  <2> QED
    BY <2>1, ElementOfSeq
<1>5. /\ \A s \in Symbols : s.start \in Nat /\ s.end \in Nat
      /\ file.size \in Nat
  BY SymbolFields DEF Shape
<1> QED
  BY <1>1, <1>2, <1>3, <1>4, <1>5

(* The head and the tail of a sequence.                                    *)
LEMMA HeadAndTail ==
  ASSUME NEW T, NEW s \in Seq(T), s # << >>
  PROVE  /\ Head(s) = s[1] /\ Len(s) \in Nat /\ 1 \in 1 .. Len(s)
         /\ Tail(s) \in Seq(T) /\ Len(Tail(s)) = Len(s) - 1
         /\ \A k \in 1 .. Len(s) - 1 : k + 1 \in 1 .. Len(s) /\ Tail(s)[k] = s[k + 1]
         /\ \A k \in 1 .. Len(s) : k = 1 \/ (k - 1 \in 1 .. Len(s) - 1 /\ Tail(s)[k - 1] = s[k])
<1>1. Len(s) \in Nat /\ Len(s) # 0
  OBVIOUS
<1>2. Head(s) = s[1] /\ Tail(s) \in Seq(T) /\ Len(Tail(s)) = Len(s) - 1
  OBVIOUS
<1>3. \A k \in 1 .. Len(s) - 1 : Tail(s)[k] = s[k + 1]
  BY <1>1
<1>4. ASSUME NEW k \in 1 .. Len(s), k # 1
      PROVE  k - 1 \in 1 .. Len(s) - 1 /\ (k - 1) + 1 = k
  BY <1>1, <1>4
<1>5. \A k \in 1 .. Len(s) : k = 1 \/ (k - 1 \in 1 .. Len(s) - 1 /\ Tail(s)[k - 1] = s[k])
  BY <1>3, <1>4
<1> QED
  BY <1>1, <1>2, <1>3, <1>5

(* The first of the rest is before all the others of it.                   *)
LEMMA FirstIsLeast ==
  ASSUME Shape, Ordered, todo # << >>
  PROVE  /\ Symbol = todo[1] /\ Symbol \in Symbols
         /\ Symbol.start \in Nat /\ Symbol.end \in Nat
         /\ \A k \in 1 .. Len(todo) : KeyLeq(Symbol, todo[k])
         /\ \A i \in 1 .. Kept : KeyLeq(unique[i], Symbol)
         /\ Symbol \in Symbols
<1>1. Symbol = todo[1] /\ 1 \in 1 .. Len(todo) /\ Len(todo) \in Nat
  BY HeadAndTail DEF Shape, Symbol
<1>2. todo[1].start \in Nat /\ todo[1].end \in Nat /\ todo[1] \in Symbols
  BY <1>1, ShapeFacts
<1>3. \A k \in 1 .. Len(todo) : KeyLeq(todo[1], todo[k])
  <2> SUFFICES ASSUME NEW k \in 1 .. Len(todo) PROVE KeyLeq(todo[1], todo[k])
    OBVIOUS
  <2>1. CASE k = 1
    BY <1>2, <2>1 DEF KeyLeq
  <2>2. CASE 1 < k
    BY <1>1, <2>2 DEF Ordered
  <2> QED
    BY <2>1, <2>2
<1> QED
  BY <1>1, <1>2, <1>3 DEF Ordered, Rest

(* No symbol that was placed has the range of the next one, unless the last*)
(* one has.                                                                *)
LEMMA NoRepetition ==
  ASSUME Shape, Ordered, todo # << >>, ~Repeats, NEW i \in 1 .. Kept
  PROVE  ~SameRange(unique[i], Symbol)
<1>1. /\ Kept \in Nat /\ Kept \in 1 .. Kept
      /\ unique[Kept].start \in Nat /\ unique[Kept].end \in Nat
      /\ unique[i].start \in Nat /\ unique[i].end \in Nat
  BY ShapeFacts
<1>2. unique # << >> /\ ~SameRange(unique[Kept], Symbol)
  BY <1>1 DEF Repeats, Previous, Kept, Shape
<1>3. KeyLeq(unique[Kept], Symbol) /\ KeyLeq(unique[i], Symbol)
  BY <1>1, FirstIsLeast
<1>4. i = Kept \/ KeyLeq(unique[i], unique[Kept])
  BY <1>1 DEF Ordered
<1>5. Symbol.start \in Nat /\ Symbol.end \in Nat
  BY FirstIsLeast
<1> QED
  BY <1>1, <1>2, <1>3, <1>4, <1>5 DEF SameRange, KeyLeq

(* The innermost symbol on the stack, which the next one does not leave.   *)
LEMMA TopFacts ==
  ASSUME Shape, Ordered, Stacked, Building, ~Repeats, InRange, ~Leaves, stack # << >>
  PROVE  /\ Head(stack) \in 1 .. Kept /\ Head(stack) = stack[1] /\ 1 \in 1 .. Len(stack)
         /\ Top.start <= Symbol.start /\ Symbol.start < Top.end
         /\ Symbol.end <= Top.end => Holds(Top, Symbol)
         /\ \A i \in 1 .. Kept : i = Head(stack) \/ Disjoint(unique[i], Symbol) \/ Holds(unique[i], Top)
<1>1. Head(stack) = stack[1] /\ 1 \in 1 .. Len(stack) /\ Len(stack) \in Nat
  BY HeadAndTail DEF Shape
<1>2. Head(stack) \in 1 .. Kept
  BY <1>1, ShapeFacts
<1>3. /\ Top = unique[Head(stack)] /\ KeyLeq(Top, Symbol) /\ ~SameRange(Top, Symbol)
      /\ Top.start \in Nat /\ Top.end \in Nat /\ Symbol.start \in Nat /\ Symbol.end \in Nat
  BY <1>2, FirstIsLeast, NoRepetition, ShapeFacts DEF Top, Building
<1>4. Top.start <= Symbol.start /\ Symbol.start < Top.end
  BY <1>3 DEF KeyLeq, Leaves
<1>5. Symbol.end <= Top.end => Holds(Top, Symbol)
  BY <1>3, <1>4 DEF Holds
<1>6. ASSUME NEW i \in 1 .. Kept, i # Head(stack)
      PROVE  Disjoint(unique[i], Symbol) \/ Holds(unique[i], Top)
  <2>1. CASE \E a \in 1 .. Len(stack) : stack[a] = i
    <3>1. PICK a \in 1 .. Len(stack) : stack[a] = i
      BY <2>1
    <3>2. 1 < a
      BY <1>1, <1>6, <3>1
    <3> QED
      BY <1>1, <1>3, <3>1, <3>2 DEF Stacked
  <2>2. CASE \A k \in 1 .. Len(todo) : unique[i].end <= todo[k].start
    <3>1. Symbol = todo[1] /\ 1 \in 1 .. Len(todo)
      BY HeadAndTail DEF Building, Shape, Symbol
    <3> QED
      BY <2>2, <3>1 DEF Disjoint
  <2> QED
    BY <2>1, <2>2 DEF Stacked
<1> QED
  BY <1>1, <1>2, <1>4, <1>5, <1>6

(* With an empty stack all that was placed ends before the next symbol.    *)
LEMMA NothingAround ==
  ASSUME Shape, Stacked, Building, stack = << >>
  PROVE  \A i \in 1 .. Kept : unique[i].end <= Symbol.start
<1>1. Symbol = todo[1] /\ 1 \in 1 .. Len(todo)
  BY HeadAndTail DEF Building, Shape, Symbol
<1> QED
  BY <1>1 DEF Stacked

(* A file nothing of which is placed yet.                                  *)
Fresh ==
  /\ IsFile(file) /\ todo = file.symbols
  /\ unique = << >> /\ children = << >> /\ stack = << >>
  /\ selected = 0 /\ candidates = {} /\ phase = "build"

LEMMA FreshForest == Fresh => Forest
<1> SUFFICES ASSUME Fresh PROVE Forest
  OBVIOUS
<1>1. /\ unique = << >> /\ Kept = 0 /\ stack = << >> /\ children = << >> /\ todo = file.symbols
      /\ Len(children) = 0
  BY DEF Fresh, Kept
<1>2. Shape
  BY DEF Fresh, Shape, IsFile, Symbols
<1>3. Ordered
  <2>1. \A j, k \in 1 .. Len(todo) : j < k => KeyLeq(todo[j], todo[k])
    BY DEF Fresh, IsFile
  <2>2. Symbols = Rest /\ Placed = {}
    BY <1>1 DEF Symbols, SymbolsOf, Rest, Placed
  <2> QED
    BY <1>1, <2>1, <2>2 DEF Ordered
<1>4. Nested /\ Stacked /\ Adopted
  BY <1>1 DEF Nested, Stacked, Adopted
<1> QED
  BY <1>2, <1>3, <1>4 DEF Forest

-------------------------------------------------------------------------------
(* The steps that build it *)

(* What is left of the rest without its first.                             *)
LEMMA RestAfter ==
  ASSUME Shape, Ordered, todo # << >>, todo' = Tail(todo)
  PROVE  /\ todo' \in Seq(Symbols) /\ Len(todo') = Len(todo) - 1
         /\ \A k \in 1 .. Len(todo') : \E m \in 1 .. Len(todo) : m = k + 1 /\ todo'[k] = todo[m]
         /\ {todo'[k] : k \in 1 .. Len(todo')} \cup {Symbol} = Rest
<1>1. /\ Head(todo) = todo[1] /\ Len(todo) \in Nat /\ 1 \in 1 .. Len(todo)
      /\ todo' \in Seq(Symbols) /\ Len(todo') = Len(todo) - 1
      /\ \A k \in 1 .. Len(todo) - 1 : k + 1 \in 1 .. Len(todo) /\ todo'[k] = todo[k + 1]
      /\ \A k \in 1 .. Len(todo) : k = 1 \/ (k - 1 \in 1 .. Len(todo) - 1 /\ todo'[k - 1] = todo[k])
  BY HeadAndTail DEF Shape
<1>2. \A k \in 1 .. Len(todo') : \E m \in 1 .. Len(todo) : m = k + 1 /\ todo'[k] = todo[m]
  BY <1>1
<1>3. {todo'[k] : k \in 1 .. Len(todo')} \cup {Symbol} \subseteq Rest
  BY <1>1, <1>2 DEF Rest, Symbol
<1>4. Rest \subseteq {todo'[k] : k \in 1 .. Len(todo')} \cup {Symbol}
  <2> SUFFICES ASSUME NEW k \in 1 .. Len(todo), k # 1
               PROVE  todo[k] \in {todo'[m] : m \in 1 .. Len(todo')}
    BY <1>1 DEF Rest, Symbol
  <2>1. k - 1 \in 1 .. Len(todo') /\ todo'[k - 1] = todo[k]
    BY <1>1
  <2> QED
    BY <2>1
<1> QED
  BY <1>1, <1>2, <1>3, <1>4

(* Without its first, the rest is in order still.                          *)
LEMMA RestOrdered ==
  ASSUME Shape, Ordered, todo # << >>, todo' = Tail(todo)
  PROVE  /\ \A j, k \in 1 .. Len(todo') : j < k => KeyLeq(todo'[j], todo'[k])
         /\ \A i \in 1 .. Kept : \A k \in 1 .. Len(todo') : KeyLeq(unique[i], todo'[k])
         /\ \A k \in 1 .. Len(todo') : KeyLeq(Symbol, todo'[k])
<1>1. /\ Len(todo) \in Nat /\ Len(todo') = Len(todo) - 1
      /\ \A k \in 1 .. Len(todo') : \E m \in 1 .. Len(todo) : m = k + 1 /\ todo'[k] = todo[m]
  BY RestAfter, ShapeFacts
<1>2. ASSUME NEW j \in 1 .. Len(todo'), NEW k \in 1 .. Len(todo'), j < k
      PROVE  KeyLeq(todo'[j], todo'[k])
  <2>1. PICK m \in 1 .. Len(todo) : m = j + 1 /\ todo'[j] = todo[m]
    BY <1>1
  <2>2. PICK n \in 1 .. Len(todo) : n = k + 1 /\ todo'[k] = todo[n]
    BY <1>1
  <2>3. m < n
    BY <1>1, <1>2, <2>1, <2>2
  <2> QED
    BY <2>1, <2>2, <2>3 DEF Ordered
<1>3. ASSUME NEW k \in 1 .. Len(todo')
      PROVE  KeyLeq(Symbol, todo'[k]) /\ \A i \in 1 .. Kept : KeyLeq(unique[i], todo'[k])
  BY <1>1, FirstIsLeast DEF Ordered
<1> QED
  BY <1>2, <1>3

LEMMA SkipForest ==
  ASSUME Forest, SkipRepetition, todo' = Tail(todo), phase' = phase,
         UNCHANGED <<file, unique, children, stack, selected, candidates>>, Previous = Symbol
  PROVE  Forest'
<1>1. todo # << >> /\ phase = "build" /\ unique # << >>
  BY DEF SkipRepetition, Building, Repeats
<1>2. Shape /\ Ordered /\ Nested /\ Stacked /\ Adopted
  BY DEF Forest
<1>3. Shape'
  BY <1>1, <1>2, RestAfter, FileStays DEF Shape
<1>4. Kept' = Kept /\ Placed' = Placed /\ Symbols' = Symbols
  BY DEF Kept, Placed, Symbols
<1>5. Symbol \in Placed
  <2>1. Kept \in 1 .. Kept
    BY <1>1, <1>2 DEF Shape, Kept
  <2> QED
    BY <2>1 DEF Previous, Placed, Kept
<1>6. Ordered'
  <2>1. Symbols' = Placed' \cup Rest'
    BY <1>1, <1>2, <1>4, <1>5, RestAfter DEF Ordered, Rest
  <2> QED
    BY <1>1, <1>2, <1>4, <2>1, RestOrdered DEF Ordered
<1>7. Stacked'
  <2>1. \A k \in 1 .. Len(todo') : \E m \in 1 .. Len(todo) : todo'[k] = todo[m]
    BY <1>1, <1>2, RestAfter
  <2> QED
    BY <1>2, <1>4, <2>1 DEF Stacked
<1>8. Nested' /\ Adopted'
  BY <1>2, <1>4 DEF Nested, Adopted, IsChild
<1> QED
  BY <1>3, <1>6, <1>7, <1>8 DEF Forest

LEMMA PopForest ==
  ASSUME Forest, Pop
  PROVE  Forest'
<1>1. /\ todo # << >> /\ phase = "build" /\ stack # << >> /\ stack' = Tail(stack)
      /\ UNCHANGED <<file, todo, unique, children, selected, candidates, phase>>
      /\ Symbol.start >= Top.end
  BY DEF Pop, Building, Leaves
<1>2. Shape /\ Ordered /\ Nested /\ Stacked /\ Adopted
  BY DEF Forest
<1>3. /\ Head(stack) = stack[1] /\ 1 \in 1 .. Len(stack) /\ Len(stack) \in Nat
      /\ stack' \in Seq(1 .. Len(unique)) /\ Len(stack') = Len(stack) - 1
      /\ \A k \in 1 .. Len(stack) - 1 : k + 1 \in 1 .. Len(stack) /\ stack'[k] = stack[k + 1]
      /\ \A k \in 1 .. Len(stack) : k = 1 \/ (k - 1 \in 1 .. Len(stack) - 1 /\ stack'[k - 1] = stack[k])
  BY <1>1, <1>2, HeadAndTail DEF Shape
<1>4. Shape'
  BY <1>1, <1>2, <1>3, FileStays DEF Shape
<1>5. Kept' = Kept /\ Ordered' /\ Nested' /\ Adopted'
  <2>1. Kept' = Kept /\ Placed' = Placed /\ Rest' = Rest /\ Symbols' = Symbols
    BY <1>1 DEF Kept, Placed, Rest, Symbols
  <2>2. Ordered'
    BY <1>1, <1>2, <2>1 DEF Ordered
  <2>3. Nested' /\ Adopted'
    BY <1>1, <1>2, <2>1 DEF Nested, Adopted, IsChild
  <2> QED
    BY <2>1, <2>2, <2>3
<1>6. Stacked'
  <2>1. ASSUME NEW a \in 1 .. Len(stack'), NEW b \in 1 .. Len(stack'), a < b
        PROVE  Holds(unique[stack'[b]], unique[stack'[a]])
    <3>1. /\ a + 1 \in 1 .. Len(stack) /\ stack'[a] = stack[a + 1]
          /\ b + 1 \in 1 .. Len(stack) /\ stack'[b] = stack[b + 1] /\ a + 1 < b + 1
      BY <1>3, <2>1
    <3> QED
      BY <1>2, <3>1 DEF Stacked
  <2>2. ASSUME NEW i \in 1 .. Kept
        PROVE  \/ \E a \in 1 .. Len(stack') : stack'[a] = i
               \/ \A k \in 1 .. Len(todo) : unique[i].end <= todo[k].start
    <3>1. CASE \E a \in 1 .. Len(stack) : stack[a] = i /\ a # 1
      BY <1>3, <3>1
    <3>2. CASE stack[1] = i
      <4>1. unique[i].end <= Symbol.start /\ Symbol.start \in Nat /\ unique[i].end \in Nat
        BY <1>1, <1>2, <1>3, <3>2, FirstIsLeast, ShapeFacts DEF Top
      <4>2. \A k \in 1 .. Len(todo) : Symbol.start <= todo[k].start /\ todo[k].start \in Nat
        BY <1>1, <1>2, FirstIsLeast, ShapeFacts, SMTT(20) DEF KeyLeq
      <4> QED
        BY <4>1, <4>2
    <3> QED
      BY <1>2, <3>1, <3>2 DEF Stacked
  <2> QED
    BY <1>1, <1>5, <2>1, <2>2 DEF Stacked
<1> QED
  BY <1>4, <1>5, <1>6 DEF Forest

(* What Place makes of the symbols: the next one is the last of them.      *)
LEMMA PlaceSymbols ==
  ASSUME Forest, Place
  PROVE  /\ todo # << >> /\ phase = "build" /\ ~Repeats /\ InRange /\ ~Leaves /\ Nests
         /\ todo' = Tail(todo) /\ UNCHANGED <<file, selected, candidates, phase>>
         /\ unique' \in Seq(Symbols) /\ Kept' = Kept + 1 /\ Kept \in Nat
         /\ unique'[Kept + 1] = Symbol
         /\ \A i \in 1 .. Kept : unique'[i] = unique[i]
         /\ Placed' = Placed \cup {Symbol}
<1>1. /\ todo # << >> /\ phase = "build" /\ ~Repeats /\ InRange /\ ~Leaves /\ Nests
      /\ todo' = Tail(todo) /\ UNCHANGED <<file, selected, candidates, phase>>
      /\ unique' = Append(unique, Symbol)
  BY DEF Place, Building
<1>2. unique \in Seq(Symbols) /\ Symbol \in Symbols /\ Kept \in Nat
  BY <1>1, FirstIsLeast, ShapeFacts DEF Forest, Shape
<1>3. /\ unique' \in Seq(Symbols) /\ Kept' = Kept + 1
      /\ unique'[Kept + 1] = Symbol
      /\ \A i \in 1 .. Kept : unique'[i] = unique[i]
  BY <1>1, <1>2 DEF Kept
<1>4. Placed' = Placed \cup {Symbol}
  <2>1. \A i \in 1 .. Kept' : i \in 1 .. Kept \/ i = Kept + 1
    BY <1>2, <1>3
  <2>2. 1 .. Kept \subseteq 1 .. Kept' /\ Kept + 1 \in 1 .. Kept'
    BY <1>2, <1>3
  <2>3. Placed' \subseteq Placed \cup {Symbol}
    BY <1>3, <2>1 DEF Placed
  <2>4. Placed \cup {Symbol} \subseteq Placed'
    BY <1>3, <2>2 DEF Placed
  <2> QED
    BY <2>3, <2>4
<1> QED
  BY <1>1, <1>2, <1>3, <1>4

(* ... and of the children: it is the last of those of the top.            *)
LEMMA PlaceChildren ==
  ASSUME Forest, Place
  PROVE  /\ children' \in Seq(Seq(1 .. Kept + 1)) /\ Len(children') = Kept + 1
         /\ children'[Kept + 1] = << >>
         /\ \A i, j \in 1 .. Kept :
               (\E k \in 1 .. Len(children'[i]) : children'[i][k] = j) <=>
                   (\E k \in 1 .. Len(children[i]) : children[i][k] = j)
         /\ \A i \in 1 .. Kept :
               (\E k \in 1 .. Len(children'[i]) : children'[i][k] = Kept + 1) <=>
                   stack # << >> /\ i = Head(stack)
<1> DEFINE new == Kept + 1
           adopted == IF stack = << >> THEN children
                      ELSE [children EXCEPT ![Head(stack)] = Append(@, new)]
<1>1. children' = Append(adopted, << >>)
  BY DEF Place, Kept
<1>2. /\ children \in Seq(Seq(1 .. Kept)) /\ Len(children) = Kept /\ Kept \in Nat
      /\ stack # << >> => Head(stack) \in 1 .. Kept
  <2>1. stack # << >> => Head(stack) \in 1 .. Kept
    BY HeadAndTail, ShapeFacts DEF Forest, Shape
  <2> QED
    BY <2>1, ShapeFacts DEF Forest, Shape, Kept
<1>3. \A i \in 1 .. Kept : /\ children[i] \in Seq(1 .. Kept) /\ children[i] \in Seq(1 .. new)
                           /\ Len(children[i]) \in Nat
                           /\ \A k \in 1 .. Len(children[i]) : children[i][k] \in 1 .. Kept
  <2>1. \A i \in 1 .. Kept : children[i] \in Seq(1 .. Kept)
    BY <1>2
  <2>2. \A s \in Seq(1 .. Kept) : s \in Seq(1 .. new) /\ Len(s) \in Nat
                                  /\ \A k \in 1 .. Len(s) : s[k] \in 1 .. Kept
    BY <1>2
  <2> QED
    BY <2>1, <2>2
<1>4. \A s \in Seq(1 .. Kept) :
          /\ Append(s, new) \in Seq(1 .. new) /\ Len(Append(s, new)) = Len(s) + 1
          /\ Append(s, new)[Len(s) + 1] = new
          /\ \A k \in 1 .. Len(s) : Append(s, new)[k] = s[k]
  BY <1>2
<1>5. /\ adopted \in Seq(Seq(1 .. new)) /\ Len(adopted) = Kept
      /\ \A i \in 1 .. Kept :
            adopted[i] = IF stack # << >> /\ i = Head(stack) THEN Append(children[i], new)
                         ELSE children[i]
  <2>0. children \in [1 .. Kept -> Seq(1 .. Kept)] /\ DOMAIN children = 1 .. Kept
    BY <1>2
  <2>1. /\ DOMAIN adopted = 1 .. Kept
        /\ \A i \in 1 .. Kept :
              adopted[i] = IF stack # << >> /\ i = Head(stack) THEN Append(children[i], new)
                           ELSE children[i]
    BY <1>2, <2>0
  <2>2. \A i \in 1 .. Kept : adopted[i] \in Seq(1 .. new)
    BY <1>3, <1>4, <2>1
  <2>3. adopted \in [1 .. Kept -> Seq(1 .. new)]
    <3>1. CASE stack = << >>
      BY <1>3, <2>0, <3>1
    <3>2. CASE stack # << >>
      <4>1. adopted = [i \in 1 .. Kept |-> adopted[i]]
        BY <2>0, <3>2
      <4> HIDE DEF adopted
      <4> QED
        BY <2>2, <4>1
    <3> QED
      BY <3>1, <3>2
  <2>4. adopted \in Seq(Seq(1 .. new)) /\ Len(adopted) = Kept
    <3> HIDE DEF adopted, new
    <3> QED
      BY <1>2, <2>3
  <2> QED
    BY <2>1, <2>4
<1> HIDE DEF adopted
<1>6. /\ children' \in Seq(Seq(1 .. new)) /\ Len(children') = Kept + 1
      /\ children'[Kept + 1] = << >>
      /\ \A i \in 1 .. Kept : children'[i] = adopted[i]
  <2>1. << >> \in Seq(1 .. new)
    OBVIOUS
  <2> QED
    BY <1>1, <1>2, <1>5, <2>1
<1>7. ASSUME NEW i \in 1 .. Kept, NEW j \in 1 .. Kept
      PROVE  (\E k \in 1 .. Len(children'[i]) : children'[i][k] = j) <=>
                 (\E k \in 1 .. Len(children[i]) : children[i][k] = j)
  <2>1. CASE children'[i] = children[i]
    BY <2>1
  <2>2. CASE children'[i] = Append(children[i], new)
    <3>1. /\ Len(children'[i]) = Len(children[i]) + 1 /\ Len(children[i]) \in Nat
          /\ children'[i][Len(children[i]) + 1] = new
          /\ \A k \in 1 .. Len(children[i]) : children'[i][k] = children[i][k]
      BY <1>3, <1>4, <2>2
    <3>2. \A k \in 1 .. Len(children'[i]) :
              k \in 1 .. Len(children[i]) \/ k = Len(children[i]) + 1
      BY <3>1
    <3>3. 1 .. Len(children[i]) \subseteq 1 .. Len(children'[i]) /\ j # new
      BY <1>2, <3>1
    <3> QED
      BY <3>1, <3>2, <3>3
  <2> QED
    BY <1>5, <1>6, <2>1, <2>2
<1>8. ASSUME NEW i \in 1 .. Kept
      PROVE  (\E k \in 1 .. Len(children'[i]) : children'[i][k] = new) <=>
                 stack # << >> /\ i = Head(stack)
  <2>1. CASE stack # << >> /\ i = Head(stack)
    <3>1. children'[i] = Append(children[i], new)
      BY <1>5, <1>6, <2>1
    <3>2. /\ Len(children'[i]) = Len(children[i]) + 1 /\ Len(children[i]) \in Nat
          /\ children'[i][Len(children[i]) + 1] = new
      BY <1>3, <1>4, <3>1
    <3> QED
      BY <2>1, <3>2
  <2>2. CASE ~(stack # << >> /\ i = Head(stack))
    <3>1. children'[i] = children[i]
      BY <1>5, <1>6, <2>2
    <3>2. \A k \in 1 .. Len(children[i]) : children[i][k] # new
      BY <1>2, <1>3, SMTT(20)
    <3> QED
      BY <2>2, <3>1, <3>2
  <2> QED
    BY <2>1, <2>2
<1> QED
  BY <1>6, <1>7, <1>8

(* The symbols that hold the next one: the top, and what holds it.         *)
LEMMA HoldersOfNext ==
  ASSUME Forest, Place
  PROVE  /\ \A i \in 1 .. Kept :
               ~Holds(Symbol, unique[i]) /\ (Disjoint(unique[i], Symbol) \/ Holds(unique[i], Symbol))
         /\ stack = << >> => \A i \in 1 .. Kept : ~Holds(unique[i], Symbol)
         /\ stack # << >> =>
               /\ Head(stack) \in 1 .. Kept /\ Holds(unique[Head(stack)], Symbol)
               /\ \A i \in 1 .. Kept : Holds(unique[i], Symbol) =>
                     i = Head(stack) \/ Holds(unique[i], unique[Head(stack)])
         /\ ~Holds(Symbol, Symbol)
<1>1. /\ Shape /\ Ordered /\ Nested /\ Stacked /\ Building /\ ~Repeats /\ InRange /\ ~Leaves /\ Nests
      /\ todo # << >>
  BY DEF Forest, Place, Building
<1>2. /\ Symbol.start \in Nat /\ Symbol.end \in Nat /\ Symbol.start < Symbol.end
      /\ \A i \in 1 .. Kept : /\ unique[i].start \in Nat /\ unique[i].end \in Nat
                              /\ KeyLeq(unique[i], Symbol) /\ ~SameRange(unique[i], Symbol)
  BY <1>1, FirstIsLeast, ShapeFacts, NoRepetition DEF InRange
<1>3. \A i \in 1 .. Kept : ~Holds(Symbol, unique[i])
  BY <1>2 DEF Holds, KeyLeq, SameRange
<1>4. ~Holds(Symbol, Symbol)
  BY DEF Holds, SameRange
<1>5. CASE stack = << >>
  <2>1. \A i \in 1 .. Kept : unique[i].end <= Symbol.start
    BY <1>1, <1>5, NothingAround
  <2> QED
    BY <1>2, <1>3, <1>4, <1>5, <2>1 DEF Holds, Disjoint
<1>6. CASE stack # << >>
  <2>1. /\ Head(stack) \in 1 .. Kept /\ Top = unique[Head(stack)] /\ Holds(Top, Symbol)
        /\ \A i \in 1 .. Kept :
              i = Head(stack) \/ Disjoint(unique[i], Symbol) \/ Holds(unique[i], Top)
    BY <1>1, <1>6, TopFacts DEF Nests, Top
  <2>2. \A i \in 1 .. Kept : Holds(unique[i], Top) => Holds(unique[i], Symbol)
    BY <1>2, <2>1 DEF Holds, SameRange
  <2>3. \A i \in 1 .. Kept : Disjoint(unique[i], Symbol) => ~Holds(unique[i], Symbol)
    BY <1>2 DEF Holds, Disjoint
  <2> QED
    BY <1>3, <1>4, <1>6, <2>1, <2>2, <2>3
<1> QED
  BY <1>5, <1>6

(* Place changes no child of the others, and makes one of the next symbol. *)
LEMMA PlaceIsChild ==
  ASSUME Forest, Place, NEW new, new = Kept + 1
  PROVE  /\ \A i, j \in 1 .. Kept : IsChild(i, j)' <=> IsChild(i, j)
         /\ \A i \in 1 .. Kept : IsChild(i, new)' <=> stack # << >> /\ i = Head(stack)
         /\ \A j \in 1 .. new : ~IsChild(new, j)'
<1>1. /\ Kept' = Kept + 1 /\ Kept \in Nat /\ unique'[new] = Symbol
      /\ \A i \in 1 .. Kept : unique'[i] = unique[i] /\ i # new /\ i \in 1 .. Kept'
      /\ \A i \in 1 .. Kept' : i \in 1 .. Kept \/ i = new
      /\ new \in 1 .. Kept'
  BY PlaceSymbols
<1>2. ASSUME NEW i \in 1 .. Kept, NEW j \in 1 .. Kept
      PROVE  IsChild(i, j)' <=> IsChild(i, j)
  BY <1>1, HoldersOfNext DEF IsChild
<1>3. ASSUME NEW i \in 1 .. Kept
      PROVE  IsChild(i, new)' <=> stack # << >> /\ i = Head(stack)
  <2>1. IsChild(i, new)' <=>
           /\ Holds(unique[i], Symbol)
           /\ \A k \in 1 .. Kept : Holds(unique[k], Symbol) => k = i \/ Holds(unique[k], unique[i])
    <3>1. IsChild(i, new)' <=>
             /\ Holds(unique'[i], unique'[new])
             /\ \A k \in 1 .. Kept' : Holds(unique'[k], unique'[new]) => k = i \/ Holds(unique'[k], unique'[i])
      BY <1>1 DEF IsChild
    <3> QED
      BY <1>1, <3>1, HoldersOfNext
  <2>2. CASE stack = << >>
    BY <2>1, <2>2, HoldersOfNext
  <2>3. CASE stack # << >>
    <3>1. Head(stack) \in 1 .. Kept /\ Holds(unique[Head(stack)], Symbol)
      BY <2>3, HoldersOfNext
    <3>2. i = Head(stack) => IsChild(i, new)'
      BY <2>1, <2>3, HoldersOfNext
    <3>3. ASSUME IsChild(i, new)' PROVE i = Head(stack)
      <4>1. i = Head(stack) \/ Holds(unique[i], unique[Head(stack)])
        BY <2>1, <2>3, <3>3, HoldersOfNext
      <4>2. i = Head(stack) \/ Holds(unique[Head(stack)], unique[i])
        BY <2>1, <3>1, <3>3
      <4>3. /\ unique[i].start \in Nat /\ unique[i].end \in Nat
            /\ unique[Head(stack)].start \in Nat /\ unique[Head(stack)].end \in Nat
        BY <3>1, ShapeFacts DEF Forest
      <4> QED
        BY <4>1, <4>2, <4>3 DEF Holds, SameRange
    <3> QED
      BY <2>3, <3>2, <3>3
  <2> QED
    BY <2>2, <2>3
<1>4. ASSUME NEW j \in 1 .. new PROVE ~IsChild(new, j)'
  BY <1>1, <1>4, HoldersOfNext DEF IsChild
<1> QED
  BY <1>2, <1>3, <1>4

LEMMA PlaceForest ==
  ASSUME Forest, Place
  PROVE  Forest'
<1>0. Shape /\ Ordered /\ Nested /\ Stacked /\ Adopted
  BY DEF Forest
<1>1. /\ todo # << >> /\ phase = "build" /\ ~Repeats /\ InRange /\ ~Leaves /\ Nests
      /\ todo' = Tail(todo) /\ UNCHANGED <<file, selected, candidates, phase>>
      /\ unique' \in Seq(Symbols) /\ Kept' = Kept + 1 /\ Kept \in Nat
      /\ unique'[Kept + 1] = Symbol
      /\ \A i \in 1 .. Kept : unique'[i] = unique[i] /\ i # Kept + 1 /\ i \in 1 .. Kept'
      /\ \A i \in 1 .. Kept' : i \in 1 .. Kept \/ i = Kept + 1
      /\ Kept + 1 \in 1 .. Kept'
      /\ Placed' = Placed \cup {Symbol}
  BY PlaceSymbols
<1>n. PICK new : new = Kept + 1
  OBVIOUS
<1>2. /\ stack' = <<Kept + 1>> \o stack /\ stack' \in Seq(1 .. Kept')
      /\ Len(stack) \in Nat /\ Len(stack') = Len(stack) + 1 /\ stack'[1] = Kept + 1
      /\ \A a \in 1 .. Len(stack') :
            a = 1 \/ (a - 1 \in 1 .. Len(stack) /\ stack'[a] = stack[a - 1])
      /\ \A a \in 1 .. Len(stack) : a + 1 \in 1 .. Len(stack') /\ stack'[a + 1] = stack[a]
  <2>1. stack' = <<Kept + 1>> \o stack
    BY DEF Place, Kept
  <2>2. stack \in Seq(1 .. Kept') /\ <<Kept + 1>> \in Seq(1 .. Kept') /\ Len(stack) \in Nat
    <3>1. stack \in Seq(1 .. Kept) /\ 1 .. Kept \subseteq 1 .. Kept'
      BY <1>0, <1>1 DEF Shape, Kept
    <3> QED
      BY <1>1, <3>1
  <2>3. \A s, t \in Seq(1 .. Kept') :
            /\ s \o t \in Seq(1 .. Kept') /\ Len(s \o t) = Len(s) + Len(t)
            /\ \A k \in 1 .. Len(s) + Len(t) :
                  (s \o t)[k] = IF k <= Len(s) THEN s[k] ELSE t[k - Len(s)]
    BY ConcatProperties
  <2>4. stack' \in Seq(1 .. Kept') /\ Len(stack') = 1 + Len(stack)
        /\ \A k \in 1 .. 1 + Len(stack) :
              stack'[k] = IF k <= 1 THEN (<<Kept + 1>>)[k] ELSE stack[k - 1]
    BY <2>1, <2>2, <2>3
  <2>5. \A a \in 1 .. Len(stack) : a + 1 \in 1 .. Len(stack') /\ (a + 1) - 1 = a /\ ~(a + 1 <= 1)
    BY <2>2, <2>4
  <2>6. \A a \in 1 .. Len(stack') : a = 1 \/ (a - 1 \in 1 .. Len(stack) /\ ~(a <= 1))
    BY <2>2, <2>4
  <2> QED
    BY <2>1, <2>2, <2>4, <2>5, <2>6
<1>3. Shape'
  <2>1. todo' \in Seq(Symbols)
    BY <1>0, <1>1, RestAfter
  <2>2. /\ children' \in Seq(Seq(1 .. Len(unique'))) /\ Len(children') = Len(unique')
        /\ stack' \in Seq(1 .. Len(unique'))
    BY <1>1, <1>2, PlaceChildren DEF Kept
  <2>3. selected' \in 0 .. Len(unique') /\ selected' = 0
    BY <1>0, <1>1 DEF Shape, Kept
  <2> QED
    BY <1>0, <1>1, <2>1, <2>2, <2>3, FileStays DEF Shape
<1>4. Ordered'
  <2>1. /\ \A j, k \in 1 .. Len(todo') : j < k => KeyLeq(todo'[j], todo'[k])
        /\ \A i \in 1 .. Kept : \A k \in 1 .. Len(todo') : KeyLeq(unique[i], todo'[k])
        /\ \A k \in 1 .. Len(todo') : KeyLeq(Symbol, todo'[k])
    BY <1>0, <1>1, RestOrdered
  <2>2. \A i \in 1 .. Kept' : \A k \in 1 .. Len(todo') : KeyLeq(unique'[i], todo'[k])
    BY <1>1, <2>1
  <2>3. ASSUME NEW i \in 1 .. Kept', NEW j \in 1 .. Kept', i < j
        PROVE  KeyLeq(unique'[i], unique'[j]) /\ ~SameRange(unique'[i], unique'[j])
    <3>1. i \in 1 .. Kept
      BY <1>1, <2>3
    <3>2. CASE j \in 1 .. Kept
      BY <1>0, <1>1, <2>3, <3>1, <3>2 DEF Ordered
    <3>3. CASE j = Kept + 1
      BY <1>0, <1>1, <3>1, <3>3, FirstIsLeast, NoRepetition
    <3> QED
      BY <1>1, <3>2, <3>3
  <2>4. \A i \in 1 .. Kept' : unique'[i].start < unique'[i].end /\ unique'[i].end <= file'.size
    BY <1>0, <1>1 DEF Ordered, InRange
  <2>5. Symbols' = Placed' \cup Rest'
    <3>1. Rest' \cup {Symbol} = Rest
      BY <1>0, <1>1, RestAfter DEF Rest
    <3>2. Symbols' = Symbols
      BY <1>1 DEF Symbols
    <3> QED
      BY <1>0, <1>1, <3>1, <3>2 DEF Ordered
  <2> QED
    BY <2>1, <2>2, <2>3, <2>4, <2>5 DEF Ordered
<1>5. Nested'
  <2>1. ASSUME NEW i \in 1 .. Kept', NEW j \in 1 .. Kept', i < j
        PROVE  Disjoint(unique'[i], unique'[j]) \/ Holds(unique'[i], unique'[j])
    <3>1. i \in 1 .. Kept
      BY <1>1, <2>1
    <3>2. CASE j \in 1 .. Kept
      BY <1>0, <1>1, <2>1, <3>1, <3>2 DEF Nested
    <3>3. CASE j = Kept + 1
      BY <1>1, <3>1, <3>3, HoldersOfNext
    <3> QED
      BY <1>1, <3>2, <3>3
  <2>2. ASSUME NEW j \in 1 .. Kept', unique'[j].parent # None
        PROVE  \E i \in 1 .. Kept' : IsChild(i, j)' /\ unique'[i].name = unique'[j].parent
    <3>1. CASE j \in 1 .. Kept
      <4>1. PICK i \in 1 .. Kept : IsChild(i, j) /\ unique[i].name = unique[j].parent
        BY <1>0, <1>1, <2>2, <3>1 DEF Nested
      <4> QED
        BY <1>1, <1>n, <3>1, <4>1, PlaceIsChild
    <3>2. CASE j = Kept + 1
      <4>1. Symbol.parent # None
        BY <1>1, <2>2, <3>2
      <4>2. stack # << >> /\ Symbol.parent = unique[Head(stack)].name
        BY <1>1, <4>1 DEF Nests, Top
      <4>3. Head(stack) \in 1 .. Kept
        BY <4>2, HoldersOfNext
      <4> QED
        BY <1>1, <1>n, <3>2, <4>2, <4>3, PlaceIsChild
    <3> QED
      BY <1>1, <3>1, <3>2
  <2>3. (\A j \in 1 .. Kept : unique[j].parent # None =>
            \E i \in 1 .. Kept : IsChild(i, j) /\ unique[i].name = unique[j].parent)'
    BY <2>2
  <2> QED
    BY <2>1, <2>3 DEF Nested
<1>6. Stacked'
  <2>1. ASSUME NEW a \in 1 .. Len(stack'), NEW b \in 1 .. Len(stack'), a < b
        PROVE  Holds(unique'[stack'[b]], unique'[stack'[a]])
    <3>1. /\ b - 1 \in 1 .. Len(stack) /\ stack'[b] = stack[b - 1] /\ stack[b - 1] \in 1 .. Kept
      <4>1. b # 1
        BY <1>2, <2>1
      <4> QED
        BY <1>0, <1>2, <4>1, ShapeFacts
    <3>2. CASE a = 1
      <4>1. stack # << >> /\ Head(stack) = stack[1] /\ 1 \in 1 .. Len(stack)
        BY <1>0, <1>2, <3>1, HeadAndTail DEF Shape
      <4>2. Holds(unique[Head(stack)], Symbol) /\ Head(stack) \in 1 .. Kept
        BY <4>1, HoldersOfNext
      <4>3. stack[b - 1] = Head(stack) \/ Holds(unique[stack[b - 1]], unique[Head(stack)])
        <5>1. b - 1 = 1 \/ 1 < b - 1
          BY <1>2, <3>1
        <5> QED
          BY <1>0, <3>1, <4>1, <5>1 DEF Stacked
      <4>4. Holds(unique[stack[b - 1]], Symbol)
        <5>1. /\ unique[stack[b - 1]].start \in Nat /\ unique[stack[b - 1]].end \in Nat
              /\ unique[Head(stack)].start \in Nat /\ unique[Head(stack)].end \in Nat
              /\ Symbol.start \in Nat /\ Symbol.end \in Nat
          BY <1>0, <1>1, <3>1, <4>2, ShapeFacts, FirstIsLeast
        <5> QED
          BY <4>2, <4>3, <5>1, SMTT(20) DEF Holds, SameRange
      <4> QED
        BY <1>1, <1>2, <3>1, <3>2, <4>4
    <3>3. CASE a # 1
      <4>1. /\ a - 1 \in 1 .. Len(stack) /\ stack'[a] = stack[a - 1] /\ stack[a - 1] \in 1 .. Kept
            /\ a - 1 < b - 1
        <5>1. a - 1 \in 1 .. Len(stack) /\ stack'[a] = stack[a - 1]
          BY <1>2, <3>3
        <5> QED
          BY <1>0, <1>2, <2>1, <5>1, ShapeFacts
      <4> QED
        BY <1>0, <1>1, <3>1, <4>1 DEF Stacked
    <3> QED
      BY <3>2, <3>3
  <2>2. ASSUME NEW i \in 1 .. Kept'
        PROVE  \/ \E a \in 1 .. Len(stack') : stack'[a] = i
               \/ \A k \in 1 .. Len(todo') : unique'[i].end <= todo'[k].start
    <3>1. CASE i = Kept + 1
      <4>1. 1 \in 1 .. Len(stack')
        BY <1>2
      <4> QED
        BY <1>2, <3>1, <4>1
    <3>2. CASE i \in 1 .. Kept /\ \E a \in 1 .. Len(stack) : stack[a] = i
      BY <1>2, <3>2
    <3>3. CASE i \in 1 .. Kept /\ \A k \in 1 .. Len(todo) : unique[i].end <= todo[k].start
      <4>1. \A k \in 1 .. Len(todo') : \E m \in 1 .. Len(todo) : todo'[k] = todo[m]
        BY <1>0, <1>1, RestAfter
      <4> QED
        BY <1>1, <3>3, <4>1
    <3> QED
      BY <1>0, <1>1, <3>1, <3>2, <3>3 DEF Stacked
  <2> QED
    BY <2>1, <2>2 DEF Stacked
<1>7. Adopted'
  <2>1. ASSUME NEW i \in 1 .. Kept', NEW j \in 1 .. Kept'
        PROVE  IsChild(i, j)' <=> \E k \in 1 .. Len(children'[i]) : children'[i][k] = j
    <3>1. CASE i \in 1 .. Kept /\ j \in 1 .. Kept
      BY <1>0, <1>n, <3>1, PlaceIsChild, PlaceChildren DEF Adopted
    <3>2. CASE i \in 1 .. Kept /\ j = Kept + 1
      BY <1>n, <3>2, PlaceIsChild, PlaceChildren
    <3>3. CASE i = Kept + 1
      <4>1. children'[i] = << >> /\ ~IsChild(i, j)'
        BY <1>1, <1>n, <3>3, PlaceIsChild, PlaceChildren
      <4> QED
        BY <4>1
    <3> QED
      BY <1>1, <3>1, <3>2, <3>3
  <2> QED
    BY <2>1 DEF Adopted
<1> QED
  BY <1>3, <1>4, <1>5, <1>6, <1>7 DEF Forest

-------------------------------------------------------------------------------
(* What is refused is no forest, and what is built is one *)

LEMMA RepetitionIsNoForest ==
  ASSUME Forest, todo # << >>, Repeats, Previous # Symbol
  PROVE  ~IsForest
<1>1. /\ Previous \in Symbols /\ Symbol \in Symbols
      /\ Previous.start \in Nat /\ Previous.end \in Nat
  <2>1. Kept \in 1 .. Kept /\ Previous = unique[Kept]
    BY DEF Repeats, Previous, Kept, Forest, Shape
  <2>2. Previous \in Placed
    BY <2>1 DEF Placed
  <2> QED
    BY <2>1, <2>2, FirstIsLeast, ShapeFacts DEF Forest, Ordered
<1>2. SameRange(Previous, Symbol)
  BY DEF Repeats
<1> QED
  BY <1>1, <1>2, FirstIsLeast DEF Forest, IsForest, Disjoint, Holds, SameRange

LEMMA RangeIsNoForest ==
  ASSUME Forest, todo # << >>, ~InRange
  PROVE  ~IsForest
BY FirstIsLeast DEF Forest, IsForest, InRange

(* A symbol around the next one was placed before it.                      *)
LEMMA AroundIsPlaced ==
  ASSUME Forest, todo # << >>, NEW p \in Around(Symbol)
  PROVE  \E i \in 1 .. Kept : p = unique[i]
<1>1. /\ Shape /\ Ordered /\ p \in Placed \cup Rest /\ Holds(p, Symbol)
      /\ Symbol.start \in Nat /\ Symbol.end \in Nat
  BY FirstIsLeast DEF Forest, Ordered, Around
<1>2. ASSUME NEW k \in 1 .. Len(todo), p = todo[k] PROVE FALSE
  <2>1. KeyLeq(Symbol, p) /\ p.start \in Nat /\ p.end \in Nat
    BY <1>1, <1>2, FirstIsLeast, ShapeFacts
  <2> QED
    BY <1>1, <2>1 DEF KeyLeq, Holds, SameRange
<1> QED
  BY <1>1, <1>2 DEF Placed, Rest

LEMMA RefusalIsNoForest ==
  ASSUME Forest, Refuse
  PROVE  ~IsForest
<1> SUFFICES ASSUME IsForest PROVE FALSE
  OBVIOUS
<1>1. /\ Shape /\ Ordered /\ Stacked /\ Nested
      /\ Building /\ todo # << >> /\ ~Repeats /\ InRange /\ ~Leaves /\ ~Nests
  BY DEF Forest, Refuse, Building
<1>2. /\ Symbol \in Symbols /\ Symbol.start \in Nat /\ Symbol.end \in Nat
      /\ Symbol.start < Symbol.end
  BY <1>1, FirstIsLeast DEF InRange
<1>3. CASE stack = << >>
  <2>1. Symbol.parent # None
    BY <1>1, <1>3 DEF Nests
  <2>2. PICK p \in Around(Symbol) : TRUE
    BY <1>2, <2>1 DEF IsForest
  <2>3. PICK i \in 1 .. Kept : p = unique[i]
    BY <1>1, <2>2, AroundIsPlaced
  <2>4. unique[i].end <= Symbol.start /\ unique[i].end \in Nat /\ Symbol.end <= unique[i].end
    BY <1>1, <1>3, <2>2, <2>3, NothingAround, ShapeFacts DEF Around, Holds
  <2> QED
    BY <1>2, <2>4
<1>4. CASE stack # << >>
  <2>1. /\ Head(stack) \in 1 .. Kept /\ Top = unique[Head(stack)]
        /\ Top.start <= Symbol.start /\ Symbol.start < Top.end
        /\ Symbol.end <= Top.end => Holds(Top, Symbol)
        /\ \A i \in 1 .. Kept :
              i = Head(stack) \/ Disjoint(unique[i], Symbol) \/ Holds(unique[i], Top)
    BY <1>1, <1>4, TopFacts DEF Top
  <2>2. /\ Top.start \in Nat /\ Top.end \in Nat /\ Top.start < Top.end /\ Top \in Symbols
        /\ KeyLeq(Top, Symbol) /\ ~SameRange(Top, Symbol)
    BY <1>1, <2>1, ShapeFacts, FirstIsLeast, NoRepetition DEF Ordered, Placed
  <2>3. Symbol.end <= Top.end
    <3>1. Top = Symbol \/ Disjoint(Top, Symbol) \/ Holds(Top, Symbol) \/ Holds(Symbol, Top)
      BY <1>2, <2>2 DEF IsForest
    <3> QED
      BY <1>2, <2>1, <2>2, <3>1 DEF Disjoint, Holds, KeyLeq, SameRange
  <2>4. Symbol.parent # None /\ Symbol.parent # Top.name
    BY <1>1, <1>4, <2>3 DEF Nests
  <2>5. PICK p \in Around(Symbol) : IsInnermost(p, Around(Symbol)) /\ p.name = Symbol.parent
    BY <1>2, <2>4 DEF IsForest
  <2>6. p # Top /\ Holds(Top, p)
    <3>1. Top \in Around(Symbol)
      BY <2>1, <2>2, <2>3 DEF Around
    <3> QED
      BY <2>4, <2>5, <3>1 DEF IsInnermost
  <2>7. PICK i \in 1 .. Kept : p = unique[i]
    BY <1>1, <2>5, AroundIsPlaced
  <2>8. p.start \in Nat /\ p.end \in Nat /\ Holds(p, Symbol)
    BY <1>1, <2>5, <2>7, ShapeFacts DEF Around
  <2>9. Disjoint(p, Symbol) \/ Holds(p, Top)
    BY <2>1, <2>6, <2>7
  <2> QED
    BY <1>2, <2>2, <2>6, <2>8, <2>9 DEF Disjoint, Holds, SameRange
<1> QED
  BY <1>3, <1>4

(* The symbols around one that was placed.                                 *)
LEMMA BuiltIsForest ==
  ASSUME Forest, todo = << >>
  PROVE  IsForest /\ Symbols = Placed
<1>0. Shape /\ Ordered /\ Nested
  BY DEF Forest
<1>1. Symbols = Placed
  BY <1>0 DEF Ordered, Rest
<1>2. \A i \in 1 .. Kept : unique[i].start \in Nat /\ unique[i].end \in Nat
  BY <1>0, ShapeFacts
<1>3. \A s \in Symbols : s.start < s.end /\ s.end <= file.size
  BY <1>0, <1>1 DEF Placed, Ordered
<1>4. ASSUME NEW s \in Symbols, NEW t \in Symbols
      PROVE  s = t \/ Disjoint(s, t) \/ Holds(s, t) \/ Holds(t, s)
  <2>1. PICK i \in 1 .. Kept : s = unique[i]
    BY <1>1 DEF Placed
  <2>2. PICK j \in 1 .. Kept : t = unique[j]
    BY <1>1 DEF Placed
  <2>3. i = j \/ i < j \/ j < i
    OBVIOUS
  <2> QED
    BY <1>0, <1>2, <2>1, <2>2, <2>3 DEF Nested, Disjoint
<1>5. ASSUME NEW s \in Symbols, s.parent # None
      PROVE  \E p \in Around(s) : IsInnermost(p, Around(s)) /\ p.name = s.parent
  <2>1. PICK j \in 1 .. Kept : s = unique[j]
    BY <1>1 DEF Placed
  <2>2. PICK i \in 1 .. Kept : IsChild(i, j) /\ unique[i].name = s.parent
    BY <1>0, <1>5, <2>1 DEF Nested
  <2>3. unique[i] \in Around(s)
    BY <1>1, <2>1, <2>2 DEF Around, IsChild, Placed
  <2>4. ASSUME NEW q \in Around(s) PROVE unique[i] = q \/ Holds(q, unique[i])
    <3>1. PICK k \in 1 .. Kept : q = unique[k]
      BY <1>1 DEF Placed, Around
    <3> QED
      BY <2>1, <2>2, <3>1 DEF IsChild, Around
  <2> QED
    BY <2>2, <2>3, <2>4 DEF IsInnermost
<1> QED
  BY <1>1, <1>3, <1>4, <1>5 DEF IsForest

(* The invariant of the forest, for every step.                            *)
LEMMA NextForest == Forest /\ [Next]_vars => Forest'
<1> SUFFICES ASSUME Forest, [Next]_vars PROVE Forest'
  OBVIOUS
<1>1. ASSUME UNCHANGED <<file, todo, unique, children, stack>>,
             selected' \in 0 .. Kept, phase' \in {"build", "select", "done", "invalid"},
             phase' = "build" => selected' = 0,
             phase' \in {"select", "done"} => todo = << >>
      PROVE  Forest'
  <2>1. Kept' = Kept /\ Placed' = Placed /\ Rest' = Rest /\ Symbols' = Symbols
    BY <1>1 DEF Kept, Placed, Rest, Symbols
  <2>2. Shape'
    BY <1>1, FileStays DEF Forest, Shape, Kept
  <2>3. Ordered'
    BY <1>1, <2>1 DEF Forest, Ordered
  <2>4. Nested' /\ Adopted'
    BY <1>1, <2>1 DEF Forest, Nested, Adopted, IsChild
  <2>5. Stacked'
    BY <1>1, <2>1 DEF Forest, Stacked
  <2> QED
    BY <2>2, <2>3, <2>4, <2>5 DEF Forest
<1>2. Kept \in Nat /\ selected \in 0 .. Kept /\ phase \in {"build", "select", "done", "invalid"}
      /\ (phase = "build" => selected = 0) /\ (phase \in {"select", "done"} => todo = << >>)
  BY ShapeFacts DEF Forest, Shape, Kept
<1>3. CASE Invalid
  BY <1>1, <1>2, <1>3 DEF Invalid
<1>4. CASE SkipRepetition
  BY <1>3, <1>4, SkipForest DEF SkipRepetition
<1>5. CASE RefuseRange \/ Refuse
  BY <1>3, <1>5 DEF RefuseRange, Refuse
<1>6. CASE Pop
  BY <1>6, PopForest
<1>7. CASE Place
  BY <1>7, PlaceForest
<1>8. CASE Built
  BY <1>1, <1>2, <1>8 DEF Built
<1>9. CASE Select
  <2>1. phase = "select" /\ selected + 1 \in 0 .. Kept
    BY <1>2, <1>9 DEF Select, Kept
  <2> QED
    BY <1>1, <1>2, <1>9, <2>1 DEF Select
<1>10. CASE CoverFile
  BY <1>1, <1>2, <1>3, <1>10 DEF CoverFile
<1>11. CASE KeepSymbols
  BY <1>1, <1>2, <1>11 DEF KeepSymbols
<1>12. CASE UNCHANGED vars
  BY <1>1, <1>2, <1>12 DEF vars
<1> QED
  BY <1>4, <1>5, <1>6, <1>7, <1>8, <1>9, <1>10, <1>11, <1>12 DEF Next

-------------------------------------------------------------------------------
(* The candidates of the symbols of a forest *)

Inner(i) == {unique[children[i][k]] : k \in 1 .. Len(children[i])}

(* The children of a symbol lie in it.                                     *)
LEMMA InnerRanges ==
  ASSUME Forest, NEW i \in 1 .. Kept
  PROVE  /\ unique[i].start \in Nat /\ unique[i].end \in Nat /\ unique[i].start < unique[i].end
         /\ unique[i].end <= file.size
         /\ \A r \in Inner(i) : \E k \in 1 .. Kept : r = unique[k] /\ IsChild(i, k)
         /\ \A k \in 1 .. Kept : IsChild(i, k) => unique[k] \in Inner(i)
         /\ Ranges(Inner(i)) /\ Bounds(unique[i].start, unique[i].end, Inner(i))
<1>0. Shape /\ Ordered /\ Adopted
  BY DEF Forest
<1>1. \A k \in 1 .. Kept : /\ unique[k].start \in Nat /\ unique[k].end \in Nat
                           /\ unique[k].start < unique[k].end /\ unique[k].end <= file.size
  BY <1>0, ShapeFacts DEF Ordered
<1>2. \A m \in 1 .. Len(children[i]) : children[i][m] \in 1 .. Kept
  <2>1. children[i] \in Seq(1 .. Kept)
    BY <1>0 DEF Shape, Kept
  <2>2. \A T : \A s \in Seq(T) : \A m \in 1 .. Len(s) : s[m] \in T
    OBVIOUS
  <2> QED
    BY <2>1, <2>2
<1>3. ASSUME NEW r \in Inner(i) PROVE \E k \in 1 .. Kept : r = unique[k] /\ IsChild(i, k)
  <2>1. PICK m \in 1 .. Len(children[i]) : r = unique[children[i][m]]
    BY DEF Inner
  <2>2. children[i][m] \in 1 .. Kept /\ IsChild(i, children[i][m])
    BY <1>0, <1>2 DEF Adopted
  <2> QED
    BY <2>1, <2>2
<1>4. ASSUME NEW k \in 1 .. Kept, IsChild(i, k) PROVE unique[k] \in Inner(i)
  <2>1. PICK m \in 1 .. Len(children[i]) : children[i][m] = k
    BY <1>0, <1>4 DEF Adopted
  <2> QED
    BY <2>1 DEF Inner
<1>5. Ranges(Inner(i))
  BY <1>1, <1>3 DEF Ranges
<1>6. Bounds(unique[i].start, unique[i].end, Inner(i))
  BY <1>3 DEF Bounds, IsChild, Holds
<1> QED
  BY <1>1, <1>3, <1>4, <1>5, <1>6

(* What the candidates of one symbol are.                                  *)
LEMMA CandidateShape ==
  ASSUME Forest, NEW i \in 1 .. Kept, NEW c \in CandidatesOf(i)
  PROVE  /\ c.start \in Nat /\ c.end \in Nat /\ c.start < c.end
         /\ unique[i].start <= c.start /\ c.end <= unique[i].end /\ c.owner = i
         /\ \A r \in Inner(i) : Disjoint(r, c)
         /\ \A d \in CandidatesOf(i) : c = d \/ Disjoint(c, d)
         /\ c.kind = "context" =>
               /\ ~(c.start + 1 .. c.end \subseteq file.blank)
               /\ ~(file.status = "partial" /\ Unsafe(unique[i].start, unique[i].end))
<1>1. /\ unique[i].start \in Nat /\ unique[i].end \in Nat /\ unique[i].start < unique[i].end
      /\ Ranges(Inner(i)) /\ Bounds(unique[i].start, unique[i].end, Inner(i))
  BY InnerRanges
<1>2. CASE Inner(i) = {}
  <2>1. CandidatesOf(i) = {Candidate("symbol", unique[i].start, unique[i].end, i)}
    BY <1>2 DEF CandidatesOf, Inner
  <2> QED
    BY <1>1, <1>2, <2>1 DEF Candidate
<1>3. CASE Inner(i) # {}
  <2>1. /\ ~(file.status = "partial" /\ Unsafe(unique[i].start, unique[i].end))
        /\ CandidatesOf(i) = Contexts(unique[i].start, unique[i].end, Inner(i), i)
    BY <1>3 DEF CandidatesOf, Inner
  <2>2. \A d \in CandidatesOf(i) : c = d \/ Disjoint(c, d)
    BY <1>1, <2>1, ContextsAreApart
  <2>3. /\ c.start \in Nat /\ c.end \in Nat /\ unique[i].start <= c.start /\ c.start < c.end
        /\ c.end <= unique[i].end /\ c.owner = i
        /\ \A r \in Inner(i) : Disjoint(r, c)
        /\ ~(c.start + 1 .. c.end \subseteq file.blank)
    <3>1. ASSUME NEW a \in Nat, NEW b \in Nat, NEW S, NEW owner, Ranges(S), Bounds(a, b, S),
                 c \in Contexts(a, b, S, owner)
          PROVE  /\ c.start \in Nat /\ c.end \in Nat /\ a <= c.start /\ c.start < c.end
                 /\ c.end <= b /\ \A r \in S : Disjoint(r, c)
                 /\ ~(c.start + 1 .. c.end \subseteq file.blank)
      BY <3>1, ContextShape
    <3>2. c.owner = i
      BY <2>1, ContextOwner
    <3> QED
      BY <1>1, <2>1, <3>1, <3>2
  <2> QED
    BY <2>1, <2>2, <2>3
<1> QED
  BY <1>2, <1>3

(* In a symbol that holds another there is a child that is or holds it.    *)
LEMMA ChildBetween ==
  ASSUME Forest, NEW i \in 1 .. Kept, NEW j \in 1 .. Kept, Holds(unique[i], unique[j])
  PROVE  \E k \in 1 .. Kept : IsChild(i, k) /\ (k = j \/ Holds(unique[k], unique[j]))
<1> DEFINE B == {k \in 1 .. Kept : /\ Holds(unique[i], unique[k])
                                   /\ k = j \/ Holds(unique[k], unique[j])}
<1>0. Shape /\ Ordered /\ Nested /\ Kept \in Nat
  BY ShapeFacts DEF Forest
<1>1. \A k \in 1 .. Kept : /\ unique[k].start \in Nat /\ unique[k].end \in Nat
                           /\ unique[k].start < unique[k].end
  BY <1>0, ShapeFacts DEF Ordered
<1>2. PICK k \in B : \A m \in B : k <= m
  <2>1. B \in SUBSET Nat /\ B # {}
    BY <1>0
  <2> HIDE DEF B
  <2> QED
    BY <2>1, Least
<1>3. ASSUME NEW m \in 1 .. Kept, Holds(unique[m], unique[k]), m # i
      PROVE  Holds(unique[m], unique[i])
  <2>1. SUFFICES ASSUME ~Holds(unique[m], unique[i]) PROVE FALSE
    OBVIOUS
  <2>2. Holds(unique[i], unique[m])
    <3>1. ~Disjoint(unique[i], unique[m]) /\ ~Disjoint(unique[m], unique[i])
      BY <1>1, <1>2, <1>3 DEF Disjoint, Holds
    <3>2. i < m \/ m < i
      BY <1>0, <1>3
    <3> QED
      BY <1>0, <2>1, <3>1, <3>2 DEF Nested
  <2>3. Holds(unique[m], unique[j])
    BY <1>1, <1>2, <1>3 DEF Holds, SameRange
  <2>4. m \in B
    BY <2>2, <2>3
  <2>5. k < m \/ k = m
    BY <1>0, <1>2, <2>4
  <2>6. ~Holds(unique[k], unique[k])
    BY DEF Holds, SameRange
  <2>7. KeyLeq(unique[k], unique[m])
    BY <1>0, <1>3, <2>5, <2>6 DEF Ordered
  <2> QED
    BY <1>1, <1>2, <1>3, <2>7 DEF KeyLeq, Holds, SameRange
<1>4. IsChild(i, k)
  BY <1>2, <1>3 DEF IsChild
<1> QED
  BY <1>2, <1>4

(* No candidate of a symbol meets a symbol inside it.                      *)
LEMMA CandidatesAvoidInner ==
  ASSUME Forest, NEW i \in 1 .. Kept, NEW j \in 1 .. Kept, Holds(unique[i], unique[j]),
         NEW c \in CandidatesOf(i)
  PROVE  Disjoint(unique[j], c)
<1>1. PICK k \in 1 .. Kept : IsChild(i, k) /\ (k = j \/ Holds(unique[k], unique[j]))
  BY ChildBetween
<1>2. Disjoint(unique[k], c)
  BY <1>1, InnerRanges, CandidateShape
<1>3. /\ unique[k].start \in Nat /\ unique[k].end \in Nat
      /\ unique[j].start \in Nat /\ unique[j].end \in Nat
      /\ c.start \in Nat /\ c.end \in Nat
  BY InnerRanges, CandidateShape
<1> QED
  BY <1>1, <1>2, <1>3 DEF Disjoint, Holds

(* The candidates of two symbols are apart.                                *)
LEMMA CandidatesAreApart ==
  ASSUME Forest, NEW i \in 1 .. Kept, NEW j \in 1 .. Kept,
         NEW c \in CandidatesOf(i), NEW d \in CandidatesOf(j)
  PROVE  c = d \/ Disjoint(c, d)
<1>1. /\ c.start \in Nat /\ c.end \in Nat /\ unique[i].start <= c.start /\ c.end <= unique[i].end
      /\ d.start \in Nat /\ d.end \in Nat /\ unique[j].start <= d.start /\ d.end <= unique[j].end
      /\ unique[i].start \in Nat /\ unique[i].end \in Nat
      /\ unique[j].start \in Nat /\ unique[j].end \in Nat
  BY InnerRanges, CandidateShape
<1>2. CASE i = j
  BY <1>2, CandidateShape
<1>3. CASE Disjoint(unique[i], unique[j]) \/ Disjoint(unique[j], unique[i])
  BY <1>1, <1>3 DEF Disjoint
<1>4. CASE Holds(unique[i], unique[j])
  <2>1. Disjoint(unique[j], c)
    BY <1>4, CandidatesAvoidInner
  <2> QED
    BY <1>1, <2>1 DEF Disjoint
<1>5. CASE Holds(unique[j], unique[i])
  <2>1. Disjoint(unique[i], d)
    BY <1>5, CandidatesAvoidInner
  <2> QED
    BY <1>1, <2>1 DEF Disjoint
<1>6. i = j \/ i < j \/ j < i
  OBVIOUS
<1> QED
  BY <1>2, <1>3, <1>4, <1>5, <1>6 DEF Forest, Nested

(* In a file without syntax errors every byte of a symbol that is not blank*)
(* is in a candidate.                                                      *)
LEMMA CandidatesCover ==
  ASSUME Forest, file.status = "success", NEW x \in Nat \ file.blank,
         NEW j \in 1 .. Kept, In(x, unique[j])
  PROVE  \E i \in 1 .. Kept : \E c \in CandidatesOf(i) : In(x, c)
<1> DEFINE I == {i \in 1 .. Kept : In(x, unique[i])}
<1>0. Kept \in Nat /\ Ordered
  BY ShapeFacts DEF Forest
<1>1. PICK i \in I : \A n \in I : n <= i
  <2>1. I \in SUBSET Nat /\ I # {} /\ \A n \in I : n <= Kept
    BY <1>0
  <2> HIDE DEF I
  <2> QED
    BY <1>0, <2>1, Greatest
<1>2. /\ unique[i].start \in Nat /\ unique[i].end \in Nat
      /\ Ranges(Inner(i)) /\ Bounds(unique[i].start, unique[i].end, Inner(i))
      /\ \A r \in Inner(i) : \E k \in 1 .. Kept : r = unique[k] /\ IsChild(i, k)
  BY InnerRanges
<1>3. CASE Inner(i) = {}
  <2>1. CandidatesOf(i) = {Candidate("symbol", unique[i].start, unique[i].end, i)}
    BY <1>3 DEF CandidatesOf, Inner
  <2>2. In(x, Candidate("symbol", unique[i].start, unique[i].end, i))
    BY <1>1 DEF Candidate, In
  <2> QED
    BY <1>1, <2>1, <2>2
<1>4. CASE Inner(i) # {}
  <2>1. CandidatesOf(i) = Contexts(unique[i].start, unique[i].end, Inner(i), i)
    BY <1>4 DEF CandidatesOf, Inner
  <2>2. ASSUME NEW r \in Inner(i), In(x, r) PROVE FALSE
    <3>1. PICK k \in 1 .. Kept : r = unique[k] /\ IsChild(i, k)
      BY <1>2
    <3>2. k \in I
      BY <2>2, <3>1
    <3>3. k <= i /\ k # i
      BY <1>1, <3>1, <3>2 DEF IsChild, Holds, SameRange
    <3>4. KeyLeq(unique[k], unique[i]) /\ ~SameRange(unique[k], unique[i])
      BY <1>0, <1>1, <3>3 DEF Ordered
    <3>5. unique[k].start \in Nat /\ unique[k].end \in Nat
      BY InnerRanges
    <3> QED
      BY <1>2, <3>1, <3>4, <3>5 DEF IsChild, Holds, KeyLeq, SameRange
  <2>3. unique[i].start < x /\ x <= unique[i].end
    BY <1>1 DEF In
  <2> QED
    BY <1>1, <1>2, <2>1, <2>2, <2>3, ContextsCover
<1> QED
  BY <1>3, <1>4

-------------------------------------------------------------------------------
(* The candidates of a file *)

AllOf(m) == UNION {CandidatesOf(i) : i \in 1 .. m}
Outside == Contexts(0, file.size, AllOf(Kept), None)

(* What has been selected, at every step; nothing of a file that is refused*)
(* for good reason.                                                        *)
Chosen ==
  /\ phase = "build" => candidates = {}
  /\ phase = "select" => candidates = AllOf(selected)
  /\ phase = "done" =>
        candidates = AllOf(Kept) \cup (IF file.status = "success" THEN Outside ELSE {})
  /\ phase = "invalid" => candidates = {} /\ ~IsForest

StructureInv == Forest /\ Chosen

LEMMA AllShape ==
  ASSUME Forest, NEW m \in 0 .. Kept
  PROVE  /\ \A c \in AllOf(m) :
               \E i \in 1 .. Kept : c \in CandidatesOf(i) /\ c.owner = i
         /\ \A c, d \in AllOf(m) : c = d \/ Disjoint(c, d)
         /\ Ranges(AllOf(m)) /\ Bounds(0, file.size, AllOf(m))
<1>0. Kept \in Nat /\ file.size \in Nat /\ \A i \in 1 .. m : i \in 1 .. Kept
  BY ShapeFacts DEF Forest
<1>1. ASSUME NEW c \in AllOf(m)
      PROVE  \E i \in 1 .. Kept : c \in CandidatesOf(i) /\ c.owner = i
  <2>1. PICK i \in 1 .. Kept : c \in CandidatesOf(i)
    BY <1>0 DEF AllOf
  <2> QED
    BY <2>1, CandidateShape
<1>2. \A c, d \in AllOf(m) : c = d \/ Disjoint(c, d)
  BY <1>1, CandidatesAreApart
<1>3. ASSUME NEW c \in AllOf(m)
      PROVE  c.start \in Nat /\ c.end \in Nat /\ c.start < c.end /\ c.end <= file.size
  <2>1. PICK i \in 1 .. Kept : c \in CandidatesOf(i)
    BY <1>1
  <2>2. /\ c.start \in Nat /\ c.end \in Nat /\ c.start < c.end /\ c.end <= unique[i].end
        /\ unique[i].end \in Nat /\ unique[i].end <= file.size
    BY <2>1, CandidateShape, InnerRanges
  <2> QED
    BY <1>0, <2>2
<1> QED
  BY <1>1, <1>2, <1>3 DEF Ranges, Bounds

LEMMA FreshStructure == Fresh => StructureInv
BY FreshForest DEF Fresh, StructureInv, Chosen

LEMMA NextChosen == StructureInv /\ [Next]_vars => Chosen'
<1> SUFFICES ASSUME StructureInv, [Next]_vars PROVE Chosen'
  OBVIOUS
<1>0. Forest /\ Chosen /\ Kept \in Nat /\ selected \in 0 .. Kept
  BY ShapeFacts DEF StructureInv, Forest, Shape, Kept
<1>1. ASSUME UNCHANGED <<file, unique, children>>
      PROVE  /\ \A m : AllOf(m)' = AllOf(m)
             /\ Kept' = Kept /\ Outside' = Outside /\ IsForest' = IsForest
  <2>1. \A i : CandidatesOf(i)' = CandidatesOf(i)
    BY <1>1 DEF CandidatesOf, Contexts, Context, Gaps, Candidate, Unsafe
  <2>2. IsForest' = IsForest
    BY <1>1 DEF IsForest, Symbols, Around
  <2> QED
    BY <1>1, <2>1, <2>2 DEF AllOf, Outside, Kept, Contexts, Context, Gaps, Candidate
<1>2. ASSUME phase = "build", phase' = "build", candidates' = candidates PROVE Chosen'
  BY <1>0, <1>2 DEF Chosen
<1>3. CASE SkipRepetition
  <2>1. CASE Invalid
    <3>1. ~IsForest
      BY <1>0, <1>3, <2>1, RepetitionIsNoForest DEF SkipRepetition, Building, Invalid
    <3> QED
      BY <1>0, <1>1, <1>3, <2>1, <3>1 DEF SkipRepetition, Building, Invalid, Chosen
  <2> QED
    BY <1>2, <1>3, <2>1 DEF SkipRepetition, Building
<1>4. CASE RefuseRange \/ Refuse
  <2>1. ~IsForest /\ phase = "build" /\ Invalid
    BY <1>0, <1>4, RangeIsNoForest, RefusalIsNoForest DEF RefuseRange, Refuse, Building
  <2> QED
    BY <1>0, <1>1, <2>1 DEF Invalid, Chosen
<1>5. CASE Pop \/ Place
  BY <1>2, <1>5 DEF Pop, Place, Building
<1>6. CASE Built
  <2>1. selected' = 0 /\ phase = "build" /\ phase' = "select" /\ candidates' = {}
    BY <1>0, <1>6 DEF Built, Forest, Shape, Chosen
  <2>2. AllOf(0)' = {}
    BY DEF AllOf
  <2> QED
    BY <2>1, <2>2 DEF Chosen
<1>7. CASE Select
  <2>1. /\ phase' = "select" /\ selected' = selected + 1
        /\ candidates' = AllOf(selected) \cup CandidatesOf(selected + 1)
        /\ UNCHANGED <<file, unique, children>>
    BY <1>0, <1>7 DEF Select, Chosen
  <2>2. AllOf(selected + 1) = AllOf(selected) \cup CandidatesOf(selected + 1)
    <3>1. /\ \A i \in 1 .. selected + 1 : i \in 1 .. selected \/ i = selected + 1
          /\ \A i \in 1 .. selected : i \in 1 .. selected + 1
          /\ selected + 1 \in 1 .. selected + 1
      BY <1>0
    <3> QED
      BY <3>1 DEF AllOf
  <2>3. PICK m : m = selected + 1
    OBVIOUS
  <2> QED
    BY <1>1, <2>1, <2>2, <2>3 DEF Chosen
<1>8. CASE CoverFile
  <2>1. phase = "select" /\ selected = Kept /\ file.status = "success" /\ candidates = AllOf(Kept)
    BY <1>0, <1>8 DEF CoverFile, Chosen, Kept
  <2>2. \A c, d \in candidates : c = d \/ Disjoint(c, d)
    BY <1>0, <2>1, AllShape
  <2>3. /\ candidates' = candidates \cup Contexts(0, file.size, candidates, None)
        /\ phase' = "done" /\ UNCHANGED <<file, unique, children>>
    BY <1>8, <2>2 DEF CoverFile
  <2>4. candidates' = AllOf(Kept) \cup Outside
    BY <2>1, <2>3 DEF Outside
  <2>5. PICK m : m = Kept
    OBVIOUS
  <2> QED
    BY <1>1, <2>1, <2>3, <2>4, <2>5 DEF Chosen
<1>9. CASE KeepSymbols
  <2>1. /\ candidates' = AllOf(Kept) /\ phase' = "done" /\ file.status = "partial"
        /\ UNCHANGED <<file, unique, children>>
    BY <1>0, <1>9 DEF KeepSymbols, Chosen, Kept
  <2>2. PICK m : m = Kept
    OBVIOUS
  <2> QED
    BY <1>1, <2>1, <2>2 DEF Chosen
<1>10. CASE UNCHANGED vars
  <2>1. PICK m : m = selected
    OBVIOUS
  <2>2. PICK n : n = Kept
    OBVIOUS
  <2> QED
    BY <1>0, <1>1, <1>10, <2>1, <2>2 DEF vars, Chosen
<1> QED
  BY <1>3, <1>4, <1>5, <1>6, <1>7, <1>8, <1>9, <1>10 DEF Next

(* What is selected is of some symbols, and around all of them.            *)
LEMMA ChosenForm ==
  ASSUME StructureInv, NEW c \in candidates
  PROVE  /\ todo = << >>
         /\ \/ \E i \in 1 .. Kept : c \in CandidatesOf(i) /\ c.owner = i
            \/ c \in Outside /\ phase = "done" /\ file.status = "success"
<1>1. Forest /\ Chosen /\ Kept \in 0 .. Kept /\ selected \in 0 .. Kept
  BY ShapeFacts DEF StructureInv, Forest, Shape, Kept
<1>2. phase \in {"select", "done"} /\ todo = << >>
  BY <1>1 DEF Chosen, Forest, Shape
<1>3. CASE \E m \in 0 .. Kept : c \in AllOf(m)
  BY <1>1, <1>2, <1>3, AllShape
<1> QED
  BY <1>1, <1>2, <1>3 DEF Chosen

(* What lies around the symbols is in none of them, unless blank.          *)
LEMMA AroundIsOutside ==
  ASSUME Forest, file.status = "success", NEW c \in Outside, NEW x \in Nat \ file.blank, In(x, c),
         NEW j \in 1 .. Kept
  PROVE  ~In(x, unique[j])
<1> SUFFICES ASSUME In(x, unique[j]) PROVE FALSE
  OBVIOUS
<1>1. PICK i \in 1 .. Kept : \E d \in CandidatesOf(i) : In(x, d)
  BY CandidatesCover
<1>2. PICK d \in CandidatesOf(i) : In(x, d)
  BY <1>1
<1>3. d \in AllOf(Kept)
  BY <1>1, <1>2 DEF AllOf
<1>4. Kept \in 0 .. Kept /\ 0 \in Nat /\ file.size \in Nat
  BY ShapeFacts DEF Forest
<1>5. Disjoint(d, c) /\ c.start \in Nat /\ c.end \in Nat
  BY <1>3, <1>4, AllShape, ContextShape DEF Outside
<1>6. d.start \in Nat /\ d.end \in Nat
  BY <1>2, CandidateShape
<1> QED
  BY <1>2, <1>5, <1>6 DEF In, Disjoint

(* The stack refuses exactly the files whose symbols are no forest.        *)
LEMMA RefusedInTheEnd == StructureInv => RefusesExactlyNonForests
BY BuiltIsForest DEF StructureInv, Chosen, Forest, Shape, RefusesExactlyNonForests

(* No two candidates overlap, none is only whitespace unless it is a whole *)
(* symbol, and every non-whitespace byte of a successful file is in one.   *)
LEMMA PartitionOfBytes ==
  ASSUME StructureInv
  PROVE  CandidatesPartition
<1>0. Forest /\ Chosen /\ Kept \in 0 .. Kept /\ file.size \in Nat /\ 0 \in Nat
  BY ShapeFacts DEF StructureInv, Forest
<1> DEFINE A == AllOf(Kept)
<1>1. /\ \A c, d \in A : c = d \/ Disjoint(c, d)
      /\ Ranges(A) /\ Bounds(0, file.size, A)
  BY <1>0, AllShape
<1>2. \A c \in candidates : c \in A \/ (c \in Outside /\ file.status = "success")
  BY ChosenForm DEF AllOf
<1>3. ASSUME NEW c \in Outside
      PROVE  /\ c.start \in Nat /\ c.end \in Nat /\ c.start < c.end
             /\ ~(c.start + 1 .. c.end \subseteq file.blank)
             /\ \A d \in A : Disjoint(d, c)
             /\ \A d \in Outside : c = d \/ Disjoint(c, d)
  <2>1. \A d \in Outside : c = d \/ Disjoint(c, d)
    BY <1>0, <1>1, ContextsAreApart DEF Outside
  <2> QED
    BY <1>0, <1>1, <2>1, ContextShape DEF Outside
<1>4. ASSUME NEW c \in candidates, NEW d \in candidates PROVE c = d \/ Disjoint(c, d)
  BY <1>1, <1>2, <1>3 DEF Disjoint
<1>5. ASSUME NEW c \in candidates
      PROVE  c.start < c.end /\ (c.kind = "context" => ~(c.start + 1 .. c.end \subseteq file.blank))
  <2>1. CASE \E i \in 1 .. Kept : c \in CandidatesOf(i)
    BY <1>0, <2>1, CandidateShape
  <2>2. CASE c \in Outside
    BY <1>3, <2>2
  <2> QED
    BY <2>1, <2>2, ChosenForm
<1>6. ASSUME phase = "done", file.status = "success", NEW x \in (1 .. file.size) \ file.blank
      PROVE  \E c \in candidates : x \in c.start + 1 .. c.end
  <2>1. candidates = A \cup Outside /\ x \in Nat \ file.blank /\ 0 < x /\ x <= file.size
    BY <1>0, <1>6 DEF Chosen
  <2>2. \E c \in candidates : In(x, c)
    <3>1. CASE \E r \in A : In(x, r)
      BY <2>1, <3>1
    <3>2. CASE \A r \in A : ~In(x, r)
      <4> HIDE DEF A
      <4>1. \E c \in Contexts(0, file.size, A, None) : In(x, c)
        BY <1>0, <1>1, <2>1, <3>2, ContextsCover
      <4> QED
        BY <2>1, <4>1 DEF Outside, A
    <3> QED
      BY <3>1, <3>2
  <2>3. PICK c \in candidates : In(x, c)
    BY <2>2
  <2>4. c.start \in Nat /\ c.end \in Nat
    BY <1>1, <1>2, <1>3 DEF Ranges
  <2> QED
    BY <2>1, <2>3, <2>4 DEF In
<1> QED
  BY <1>4, <1>5, <1>6 DEF CandidatesPartition

(* A chunk is owned by the innermost symbol around each of its             *)
(* non-whitespace bytes, and by none outside all symbols.                  *)
LEMMA InnermostOwners ==
  ASSUME StructureInv
  PROVE  OwnersAreInnermost
<1> SUFFICES ASSUME NEW c \in candidates, NEW x \in (c.start + 1 .. c.end) \ file.blank
             PROVE  LET around == {s \in Symbols : x \in s.start + 1 .. s.end}
                    IN IF c.owner = None THEN around = {}
                       ELSE IsInnermost(unique[c.owner], around)
  BY DEF OwnersAreInnermost
<1> DEFINE around == {s \in Symbols : x \in s.start + 1 .. s.end}
<1>0. Forest /\ Symbols = Placed /\ todo = << >> /\ Nested /\ Kept \in 0 .. Kept
      /\ file.size \in Nat /\ 0 \in Nat
  BY ChosenForm, BuiltIsForest, ShapeFacts DEF StructureInv, Forest
<1>1. \A k \in 1 .. Kept : unique[k].start \in Nat /\ unique[k].end \in Nat
  BY <1>0, InnerRanges
<1>2. CASE \E i \in 1 .. Kept : c \in CandidatesOf(i) /\ c.owner = i
  <2>1. PICK i \in 1 .. Kept : c \in CandidatesOf(i) /\ c.owner = i
    BY <1>2
  <2>2. /\ c.start \in Nat /\ c.end \in Nat
        /\ unique[i].start <= c.start /\ c.end <= unique[i].end
    BY <1>0, <2>1, CandidateShape
  <2>3. x \in Nat /\ c.start < x /\ x <= c.end /\ In(x, unique[i])
    BY <1>1, <2>1, <2>2 DEF In
  <2>4. unique[i] \in around
    BY <1>0, <1>1, <2>1, <2>3 DEF Placed, In
  <2>5. ASSUME NEW q \in around PROVE unique[i] = q \/ Holds(q, unique[i])
    <3>1. PICK j \in 1 .. Kept : q = unique[j]
      BY <1>0 DEF Placed
    <3>2. unique[j].start < x /\ x <= unique[j].end
      BY <1>1, <2>3, <3>1
    <3>3. ~Holds(unique[i], unique[j])
      <4>1. Holds(unique[i], unique[j]) => Disjoint(unique[j], c)
        BY <1>0, <2>1, CandidatesAvoidInner
      <4> QED
        BY <1>1, <2>2, <2>3, <3>2, <4>1 DEF Disjoint
    <3>4. ~Disjoint(unique[i], unique[j]) /\ ~Disjoint(unique[j], unique[i])
      BY <1>1, <2>3, <3>2 DEF Disjoint, In
    <3>5. i = j \/ i < j \/ j < i
      OBVIOUS
    <3> QED
      BY <1>0, <3>1, <3>3, <3>4, <3>5 DEF Nested
  <2>6. c.owner # None
    BY <2>1, NoneIsNoIndex
  <2> QED
    BY <2>1, <2>4, <2>5, <2>6 DEF IsInnermost
<1>3. CASE c \in Outside /\ file.status = "success"
  <2>1. c.owner = None
    BY <1>3, ContextOwner DEF Outside
  <2>2. c.start \in Nat /\ c.end \in Nat
    <3>1. Ranges(AllOf(Kept)) /\ Bounds(0, file.size, AllOf(Kept))
      BY <1>0, AllShape
    <3> QED
      BY <1>0, <1>3, <3>1, ContextShape DEF Outside
  <2>3. x \in Nat \ file.blank /\ In(x, c)
    BY <2>2 DEF In
  <2>4. around = {}
    <3> SUFFICES ASSUME NEW s \in around PROVE FALSE
      OBVIOUS
    <3>1. PICK j \in 1 .. Kept : s = unique[j]
      BY <1>0 DEF Placed
    <3>2. In(x, unique[j])
      BY <1>1, <2>3, <3>1 DEF In
    <3> QED
      BY <1>0, <1>3, <2>3, <3>2, AroundIsOutside
  <2> QED
    BY <2>1, <2>4
<1> QED
  BY <1>2, <1>3, ChosenForm

(* In a partial file a context chunk has an owner, and no syntax error or  *)
(* missing node lies in that owner.                                        *)
LEMMA SafePartialContexts ==
  ASSUME StructureInv
  PROVE  PartialContextIsSafe
<1> SUFFICES ASSUME file.status = "partial", NEW c \in candidates, c.kind = "context"
             PROVE  /\ c.owner # None
                    /\ \A u \in file.unsafe :
                          LET s == unique[c.owner]
                          IN IF u[1] = u[2] THEN ~(s.start <= u[1] /\ u[1] < s.end)
                             ELSE ~(s.start < u[2] /\ u[1] < s.end)
  BY DEF PartialContextIsSafe
<1>0. Forest
  BY DEF StructureInv
<1>1. PICK i \in 1 .. Kept : c \in CandidatesOf(i) /\ c.owner = i
  BY ChosenForm
<1>2. /\ unique[i].start \in Nat /\ unique[i].end \in Nat
      /\ ~Unsafe(unique[i].start, unique[i].end)
  BY <1>0, <1>1, InnerRanges, CandidateShape
<1>3. c.owner # None
  BY <1>1, NoneIsNoIndex
<1>4. ASSUME NEW u \in file.unsafe
      PROVE  IF u[1] = u[2] THEN ~(unique[i].start <= u[1] /\ u[1] < unique[i].end)
             ELSE ~(unique[i].start < u[2] /\ u[1] < unique[i].end)
  <2>1. u[1] \in Nat /\ u[2] \in Nat
    <3>1. file.unsafe \subseteq (0 .. file.size) \X (0 .. file.size)
      BY <1>0 DEF Forest, Shape, IsFile
    <3> QED
      BY <3>1
  <2>2. ~(u[1] < unique[i].end
          /\ unique[i].start < (IF u[2] > u[1] THEN u[2] ELSE u[1] + 1))
    BY <1>2 DEF Unsafe
  <2> QED
    BY <1>2, <2>1, <2>2
<1> QED
  BY <1>1, <1>3, <1>4

(* What is selected lies in the file and belongs to a symbol or to nobody. *)
LEMMA ChosenIsTyped ==
  ASSUME StructureInv
  PROVE  TypeOK
<1>1. Forest /\ Shape /\ Kept \in 0 .. Kept /\ file.size \in Nat /\ 0 \in Nat
  BY ShapeFacts DEF StructureInv, Forest
<1>2. ASSUME NEW c \in candidates
      PROVE  c \in [kind : Kinds, start : 0 .. file.size, end : 0 .. file.size,
                    owner : (1 .. Kept) \cup {None}]
  <2>1. CASE \E i \in 1 .. Kept : c \in CandidatesOf(i) /\ c.owner = i
    <3>1. PICK i \in 1 .. Kept : c \in CandidatesOf(i) /\ c.owner = i
      BY <2>1
    <3>2. \E kind \in Kinds : \E a, b, owner : c = Candidate(kind, a, b, owner)
      <4>1. CASE c \in Contexts(unique[i].start, unique[i].end, Inner(i), i)
        BY <4>1 DEF Contexts, Context, Kinds
      <4>2. CASE c = Candidate("symbol", unique[i].start, unique[i].end, i)
        BY <4>2 DEF Kinds
      <4> QED
        BY <3>1, <4>1, <4>2 DEF CandidatesOf, Inner
    <3>3. /\ c.start \in Nat /\ c.end \in Nat /\ c.start < c.end
          /\ c.end <= unique[i].end /\ unique[i].end \in Nat /\ unique[i].end <= file.size
      BY <1>1, <3>1, CandidateShape, InnerRanges
    <3>4. c.start \in 0 .. file.size /\ c.end \in 0 .. file.size
      BY <1>1, <3>3
    <3> QED
      BY <3>1, <3>2, <3>4 DEF Candidate
  <2>2. CASE c \in Outside
    <3>1. Ranges(AllOf(Kept)) /\ Bounds(0, file.size, AllOf(Kept))
      BY <1>1, AllShape
    <3>2. c \in Contexts(0, file.size, AllOf(Kept), None)
      BY <2>2 DEF Outside
    <3>3. \E a, b : c = Candidate("context", a, b, None)
      BY <3>2 DEF Contexts, Context
    <3>4. c.start \in Nat /\ c.end \in Nat /\ c.start < c.end /\ c.end <= file.size
      <4>1. ASSUME NEW a \in Nat, NEW b \in Nat, NEW S, NEW owner, Ranges(S), Bounds(a, b, S),
                   c \in Contexts(a, b, S, owner)
            PROVE  c.start \in Nat /\ c.end \in Nat /\ c.start < c.end /\ c.end <= b
        BY <4>1, ContextShape
      <4> QED
        BY <1>1, <3>1, <3>2, <4>1
    <3>5. c.start \in 0 .. file.size /\ c.end \in 0 .. file.size
      BY <1>1, <3>4
    <3> QED
      BY <3>3, <3>5 DEF Candidate, Kinds
  <2> QED
    BY <2>1, <2>2, ChosenForm
<1>3. candidates \subseteq [kind : Kinds, start : 0 .. file.size, end : 0 .. file.size,
                            owner : (1 .. Len(unique)) \cup {None}]
  BY <1>2 DEF Kept
<1> QED
  BY <1>1, <1>3 DEF TypeOK, Shape

-------------------------------------------------------------------------------
(* The list of a set of symbols, sorted by their keys *)

Spans(S) == \A s \in S : s.start \in Nat /\ s.end \in Nat
InKeyOrder(S, list) ==
  \A i, j \in 1 .. Cardinality(S) : i < j => list[i] # list[j] /\ KeyLeq(list[i], list[j])

(* A symbol that comes last: it begins last, and is the shortest of those. *)
LEMMA SomeIsLast ==
  ASSUME NEW S, S # {}, Spans(S), NEW x \in Nat, \A s \in S : s.start <= x
  PROVE  \E e \in S : \A s \in S : KeyLeq(s, e)
<1> DEFINE A == {s.start : s \in S}
<1>1. PICK a \in A : \A n \in A : n <= a
  <2>1. A \in SUBSET Nat /\ A # {} /\ \A n \in A : n <= x
    BY DEF Spans
  <2> HIDE DEF A
  <2> QED
    BY <2>1, Greatest
<1> DEFINE B == {s.end : s \in {r \in S : r.start = a}}
<1>2. PICK b \in B : \A n \in B : b <= n
  <2>1. B \in SUBSET Nat /\ B # {}
    BY DEF Spans
  <2> HIDE DEF B
  <2> QED
    BY <2>1, Least
<1>3. PICK e \in S : e.start = a /\ e.end = b
  OBVIOUS
<1>4. ASSUME NEW s \in S PROVE KeyLeq(s, e)
  <2>1. s.start <= a /\ s.start \in Nat /\ e.start \in Nat /\ s.end \in Nat /\ e.end \in Nat
    BY <1>1 DEF Spans
  <2>2. s.start = a => b <= s.end
    BY <1>2
  <2> QED
    BY <1>3, <2>1, <2>2 DEF KeyLeq
<1> QED
  BY <1>3, <1>4

(* A sorted list of all but the last becomes one of all.                   *)
LEMMA SortedGrows ==
  ASSUME NEW S, IsFiniteSet(S), NEW e \in S, \A s \in S : KeyLeq(s, e),
         NEW short \in [1 .. Cardinality(S \ {e}) -> S \ {e}], InKeyOrder(S \ {e}, short)
  PROVE  \E list \in [1 .. Cardinality(S) -> S] : InKeyOrder(S, list)
<1> DEFINE n == Cardinality(S)
           list == [i \in 1 .. n |-> IF i = n THEN e ELSE short[i]]
<1>1. Cardinality(S \ {e}) = n - 1 /\ n \in Nat
  BY FS_RemoveElement, FS_CardinalityType
<1>2. \A i \in 1 .. n : i = n \/ i \in 1 .. n - 1
  BY <1>1
<1> HIDE DEF n
<1>3. \A i \in 1 .. n - 1 : short[i] \in S \ {e} /\ i # n
  <2>1. short \in [1 .. n - 1 -> S \ {e}]
    BY <1>1
  <2>2. \A i \in 1 .. n - 1 : i # n
    BY <1>1
  <2> QED
    BY <2>1, <2>2
<1>4. list \in [1 .. n -> S]
  BY <1>2, <1>3
<1>5. ASSUME NEW i \in 1 .. n, NEW j \in 1 .. n, i < j
      PROVE  list[i] # list[j] /\ KeyLeq(list[i], list[j])
  <2>1. i \in 1 .. n - 1 /\ list[i] = short[i]
    BY <1>1, <1>3, <1>5
  <2>2. CASE j = n
    BY <1>3, <2>1, <2>2
  <2>3. CASE j \in 1 .. n - 1
    <3>1. list[j] = short[j]
      BY <1>3, <2>3
    <3> QED
      BY <1>1, <1>5, <2>1, <2>3, <3>1 DEF InKeyOrder
  <2> QED
    BY <1>2, <2>2, <2>3
<1> HIDE DEF list
<1> QED
  BY <1>4, <1>5 DEF InKeyOrder, n

(* Every finite set of symbols can be listed in order.                     *)
LEMMA SortedExists ==
  ASSUME NEW S, IsFiniteSet(S), Spans(S), NEW x \in Nat, \A s \in S : s.start <= x
  PROVE  \E list \in [1 .. Cardinality(S) -> S] : InKeyOrder(S, list)
<1> DEFINE Listed(T) == \E list \in [1 .. Cardinality(T) -> T] : InKeyOrder(T, list)
           Bad == {n \in Nat : \E T \in SUBSET S : Cardinality(T) = n /\ ~Listed(T)}
<1>1. SUFFICES ASSUME Bad # {} PROVE FALSE
  BY FS_CardinalityType
<1>2. PICK n \in Bad : \A m \in Bad : n <= m
  <2>1. Bad \in SUBSET Nat
    OBVIOUS
  <2> HIDE DEF Bad
  <2> QED
    BY <1>1, <2>1, Least
<1>3. PICK T \in SUBSET S : Cardinality(T) = n /\ ~Listed(T)
  BY <1>2
<1>4. IsFiniteSet(T) /\ n \in Nat
  BY <1>2, FS_Subset
<1>5. CASE T = {}
  <2> DEFINE list == [i \in 1 .. 0 |-> i]
  <2>1. Cardinality(T) = 0
    BY <1>5, FS_EmptySet
  <2>2. list \in [1 .. 0 -> T] /\ \A i : i \notin 1 .. 0
    OBVIOUS
  <2> HIDE DEF list
  <2> QED
    BY <1>3, <2>1, <2>2 DEF InKeyOrder
<1>6. CASE T # {}
  <2>1. PICK e \in T : \A s \in T : KeyLeq(s, e)
    <3>1. Spans(T) /\ \A s \in T : s.start <= x
      BY DEF Spans
    <3> HIDE DEF Bad, Listed
    <3> QED
      BY <1>6, <3>1, SomeIsLast
  <2>2. Cardinality(T \ {e}) = n - 1 /\ n - 1 \in Nat
    <3>1. Cardinality(T \ {e}) = n - 1 /\ Cardinality(T \ {e}) \in Nat
      BY <1>3, <1>4, FS_RemoveElement, FS_CardinalityType
    <3> QED
      BY <3>1
  <2>3. T \ {e} \in SUBSET S /\ n - 1 \notin Bad
    BY <1>2, <1>4, <2>2
  <2>4. Listed(T \ {e})
    BY <2>2, <2>3
  <2>5. PICK short \in [1 .. Cardinality(T \ {e}) -> T \ {e}] : InKeyOrder(T \ {e}, short)
    BY <2>4
  <2>6. \E list \in [1 .. Cardinality(T) -> T] : InKeyOrder(T, list)
    BY <1>4, <2>1, <2>5, SortedGrows
  <2> QED
    BY <1>3, <2>6
<1> QED
  BY <1>5, <1>6

(* What Sorted makes of it.                                                *)
LEMMA SortedFacts ==
  ASSUME NEW S, IsFiniteSet(S), Spans(S), NEW x \in Nat, \A s \in S : s.start <= x
  PROVE  /\ Sorted(S) \in Seq(S) /\ Len(Sorted(S)) = Cardinality(S) /\ Cardinality(S) \in Nat
         /\ {Sorted(S)[i] : i \in 1 .. Cardinality(S)} = S
         /\ \A i, j \in 1 .. Cardinality(S) : i < j => KeyLeq(Sorted(S)[i], Sorted(S)[j])
<1> DEFINE n == Cardinality(S)
           list == Sorted(S)
<1>1. n \in Nat
  BY FS_CardinalityType
<1>2. list \in [1 .. n -> S] /\ InKeyOrder(S, list)
  <2>1. list = CHOOSE q \in [1 .. n -> S] : InKeyOrder(S, q)
    BY DEF Sorted, InKeyOrder
  <2> HIDE DEF list
  <2> QED
    BY <2>1, SortedExists
<1> HIDE DEF list
<1>3. list \in Seq(S) /\ Len(list) = n
  <2> HIDE DEF n
  <2> QED
    BY <1>1, <1>2
<1>4. list \in Injection(1 .. n, S)
  <2>1. ASSUME NEW i \in 1 .. n, NEW j \in 1 .. n, list[i] = list[j] PROVE i = j
    <3>1. i < j \/ j < i \/ i = j
      BY <1>1
    <3> QED
      BY <1>2, <2>1, <3>1 DEF InKeyOrder
  <2> QED
    BY <1>2, <2>1 DEF Injection, IsInjective
<1>5. list \in Surjection(1 .. n, S)
  <2>1. Cardinality(1 .. n) = n
    <3>1. 1 \in Int /\ n \in Int
      BY <1>1
    <3>2. Cardinality(1 .. n) = IF 1 > n THEN 0 ELSE n - 1 + 1
      BY <3>1, FS_Interval
    <3> HIDE DEF n
    <3> QED
      BY <1>1, <3>2
  <2> QED
    BY <1>4, <2>1, FS_Injection
<1>6. {list[i] : i \in 1 .. n} = S
  BY <1>2, <1>5 DEF Surjection
<1> QED
  BY <1>1, <1>2, <1>3, <1>6 DEF InKeyOrder, list

-------------------------------------------------------------------------------
(* What the parser hands over *)

LocatedAt(n, i) ==
  [name |-> <<n, i>>, start |-> Start(n), end |-> End(n),
   parent |-> IF Containing(n) = {} THEN None ELSE <<Latest(Containing(n)), 1>>]

Made == {Located(s) : s \in symbols}

(* The declaration that a node is in.                                      *)
LEMMA ContainingFacts ==
  ASSUME IsTree(tree), NEW n \in 1 .. Size
  PROVE  /\ \A a \in Containing(n) : a \in Above(n) /\ a \in 1 .. Size /\ a < n
         /\ Containing(n) # {} =>
               /\ Latest(Containing(n)) \in Containing(n)
               /\ \A a \in Containing(n) : a <= Latest(Containing(n))
         /\ ParentOf(n) = Nobody <=> Containing(n) = {}
<1>1. Size \in Nat /\ \A a \in Containing(n) : a \in Above(n) /\ a \in 1 .. Size /\ a < n
  BY TreeFacts, AboveFacts DEF Containing
<1>2. Containing(n) # {} =>
         /\ Latest(Containing(n)) \in Containing(n)
         /\ \A a \in Containing(n) : a <= Latest(Containing(n))
  <2>1. Containing(n) \in SUBSET Nat /\ \A a \in Containing(n) : a <= Size
    BY <1>1
  <2> QED
    BY <1>1, <2>1, LatestIsGreatest
<1>3. Containing(n) # {} => Latest(Containing(n)) # Nobody
  BY <1>1, <1>2, NobodyIsNoNode
<1> QED
  BY <1>1, <1>2, <1>3 DEF ParentOf

(* The symbols that are made are those of the declarations of the tree.    *)
LEMMA MadeFacts ==
  ASSUME WalkInv, Finished
  PROVE  \A t : t \in Made <=>
            \E n \in 1 .. Size : \E i \in PartsOf(n) : IsDeclared(n) /\ t = LocatedAt(n, i)
<1>1. IsTree(tree) /\ \A s : s \in symbols <=>
         \E n \in 1 .. Size : \E i \in PartsOf(n) :
            IsDeclared(n) /\ s = [node |-> n, part |-> i, parent |-> ParentOf(n),
                                  exported |-> InExport(Above(n))]
  BY FoundFacts
<1>2. ASSUME NEW n \in 1 .. Size, NEW i, NEW s,
             s = [node |-> n, part |-> i, parent |-> ParentOf(n), exported |-> InExport(Above(n))]
      PROVE  Located(s) = LocatedAt(n, i)
  <2>1. s.node = n /\ s.part = i /\ s.parent = ParentOf(n)
    BY <1>2
  <2>2. ParentOf(n) = Nobody <=> Containing(n) = {}
    BY <1>1, ContainingFacts
  <2>3. Containing(n) # {} => ParentOf(n) = Latest(Containing(n))
    BY DEF ParentOf
  <2> QED
    BY <2>1, <2>2, <2>3 DEF Located, LocatedAt
<1>3. ASSUME NEW t \in Made
      PROVE  \E n \in 1 .. Size : \E i \in PartsOf(n) : IsDeclared(n) /\ t = LocatedAt(n, i)
  <2>1. PICK s \in symbols : t = Located(s)
    BY DEF Made
  <2> QED
    BY <1>1, <1>2, <2>1
<1>4. ASSUME NEW n \in 1 .. Size, NEW i \in PartsOf(n), IsDeclared(n)
      PROVE  LocatedAt(n, i) \in Made
  <2> DEFINE s == [node |-> n, part |-> i, parent |-> ParentOf(n), exported |-> InExport(Above(n))]
  <2>1. s \in symbols
    BY <1>1, <1>4
  <2>2. Located(s) = LocatedAt(n, i)
    BY <1>2
  <2> QED
    BY <2>1, <2>2 DEF Made
<1> QED
  BY <1>3, <1>4

(* There are finitely many of them, with ranges in the file.               *)
LEMMA MadeSpans ==
  ASSUME WalkInv, Finished
  PROVE  /\ IsFiniteSet(Made) /\ Spans(Made) /\ Size \in Nat
         /\ \A s \in Made : s.start <= Size
<1>1. \A t \in Made : \E n \in 1 .. Size : \E i \in {1, 2} : t = LocatedAt(n, i)
  BY MadeFacts DEF PartsOf
<1>2. Size \in Nat /\ \A n \in 1 .. Size : End(n) \in Nat
  BY FoundFacts, TreeFacts
<1>3. ASSUME NEW t \in Made
      PROVE  t.start \in Nat /\ t.end \in Nat /\ t.start <= Size /\ t.name \in (1 .. Size) \X {1, 2}
  <2>1. PICK n \in 1 .. Size, i \in {1, 2} : t = LocatedAt(n, i)
    BY <1>1
  <2>2. n - 1 \in Nat /\ n - 1 <= Size
    BY <1>2
  <2>3. t.start = n - 1 /\ t.end = End(n) /\ t.name = <<n, i>> /\ i \in {1, 2}
    BY <2>1 DEF LocatedAt, Start
  <2> QED
    BY <1>2, <2>2, <2>3
<1>4. IsFiniteSet(Made)
  <2> DEFINE names == [t \in Made |-> t.name]
  <2>1. names \in [Made -> (1 .. Size) \X {1, 2}]
    BY <1>3
  <2>2. ASSUME NEW t \in Made, NEW u \in Made, t.name = u.name PROVE t = u
    <3>1. PICK n \in 1 .. Size, i \in {1, 2} : t = LocatedAt(n, i)
      BY <1>1
    <3>2. PICK m \in 1 .. Size, j \in {1, 2} : u = LocatedAt(m, j)
      BY <1>1
    <3>3. n = m /\ i = j
      BY <2>2, <3>1, <3>2 DEF LocatedAt
    <3> QED
      BY <3>1, <3>2, <3>3
  <2>3. names \in Injection(Made, (1 .. Size) \X {1, 2})
    BY <2>1, <2>2 DEF Injection, IsInjective
  <2>4. IsFiniteSet((1 .. Size) \X {1, 2})
    <3>1. IsFiniteSet(1 .. Size)
      <4>1. 1 \in Int /\ Size \in Int
        BY <1>2
      <4> QED
        BY <4>1, FS_Interval
    <3>2. IsFiniteSet({1, 2})
      <4>1. IsFiniteSet({1} \cup {2})
        BY FS_Singleton, FS_AddElement
      <4>2. {1} \cup {2} = {1, 2}
        OBVIOUS
      <4> QED
        BY <4>1, <4>2
    <3> QED
      BY <3>1, <3>2, FS_Product
  <2> QED
    BY <2>3, <2>4, FS_Injection
<1> QED
  BY <1>2, <1>3, <1>4 DEF Spans

(* They are handed over as a file, sorted as the chunker demands.          *)
LEMMA ParsedIsFile ==
  ASSUME WalkInv, Finished
  PROVE  /\ SymbolsOf(ParsedFile) = Made /\ ParsedFile.size = Size
         /\ ParseStatus # "failed" => IsFile(ParsedFile)
<1> DEFINE list == Sorted(Made)
           n == Cardinality(Made)
<1>1. /\ list \in Seq(Made) /\ Len(list) = n /\ n \in Nat
      /\ {list[i] : i \in 1 .. n} = Made
      /\ \A i, j \in 1 .. n : i < j => KeyLeq(list[i], list[j])
  BY MadeSpans, SortedFacts
<1>2. /\ ParsedFile.symbols = list /\ ParsedFile.size = Size /\ ParsedFile.blank = {}
      /\ ParsedFile.status = ParseStatus
      /\ ParsedFile.unsafe = {<<Start(m), End(m)>> : m \in {k \in 1 .. Size : Type(k) = "ERROR"}}
  BY DEF ParsedFile, Made
<1>3. ParseStatus # "failed" => ParsedFile.status \in {"success", "partial"}
  BY <1>2 DEF ParseStatus
<1>4. ParsedFile.unsafe \subseteq (0 .. ParsedFile.size) \X (0 .. ParsedFile.size)
  <2>1. Size \in Nat /\ \A m \in 1 .. Size : End(m) \in Nat /\ End(m) <= Size
    BY FoundFacts, TreeFacts
  <2>2. \A m \in 1 .. Size : Start(m) \in 0 .. Size /\ End(m) \in 0 .. Size
    BY <2>1 DEF Start
  <2> QED
    BY <1>2, <2>2
<1>5. SymbolsOf(ParsedFile) = Made
  BY <1>1, <1>2 DEF SymbolsOf
<1>6. Spans(Made) /\ Size \in Nat
  BY MadeSpans
<1> HIDE DEF list, n
<1>7. /\ ParsedFile.symbols \in Seq(SymbolsOf(ParsedFile))
      /\ \A i, j \in 1 .. Len(ParsedFile.symbols) :
            i < j => KeyLeq(ParsedFile.symbols[i], ParsedFile.symbols[j])
  BY <1>1, <1>2, <1>5
<1> QED
  BY <1>2, <1>3, <1>4, <1>5, <1>6, <1>7 DEF IsFile, Spans

-------------------------------------------------------------------------------
(* When the symbols that the extractors find are a forest *)

(* The declarations that are symbols, ...                                  *)
Declared == {n \in 1 .. Size : IsDeclared(n)}

(* ... and when the declaration next around each of them is a container.   *)
ContainersAreNext ==
  \A n \in Declared : Containing(n) # {} =>
      \A k \in Declared : k \in Above(n) => k <= Latest(Containing(n))

(* A constant is no container, and a container has one name.               *)
LEMMA DeclaredFacts ==
  ASSUME IsTree(tree), NEW n \in Declared
  PROVE  /\ n \in 1 .. Size /\ IsDeclared(n) /\ ~Behind(n)
         /\ IsContainer(n) => ~IsConstant(n) /\ PartsOf(n) = {1}
         /\ ~IsContainer(n) => IsConstant(n)
         /\ PartsOf(n) = (IF Type(n) = "fields" THEN {1, 2} ELSE {1})
<1>1. n \in 1 .. Size /\ IsDeclared(n) /\ ~Behind(n) /\ (~IsContainer(n) => IsConstant(n))
  BY DEF Declared, IsDeclared
<1>2. IsContainer(n) => Type(n) \in DeclaredTypes /\ Type(n) \notin ConstantTypes
  BY <1>1, PlainFacts
<1>3. Type(n) \notin ConstantTypes => ~IsConstant(n) /\ Type(n) # "fields"
  BY <1>1, PlainFacts DEF ConstantTypes
<1> QED
  BY <1>1, <1>2, <1>3 DEF PartsOf

(* What contains a declaration that is a symbol is one, too.               *)
LEMMA ContainersAreDeclared ==
  ASSUME IsTree(tree), NEW n \in Declared, NEW a \in Containing(n)
  PROVE  a \in Declared
<1>1. n \in 1 .. Size /\ ~Behind(n) /\ a \in Above(n) /\ IsContainer(a)
  BY DeclaredFacts DEF Containing
<1>2. Symbolic(a) /\ a \in 1 .. Size
  BY <1>1, BehindFacts, AboveFacts
<1> QED
  BY <1>2 DEF Symbolic, IsDeclared, Declared

(* The range of a node is inside those of the nodes above it.              *)
LEMMA RangesOfNodes ==
  ASSUME IsTree(tree), NEW n \in 1 .. Size, NEW m \in 1 .. Size, NEW i, NEW j
  PROVE  /\ LocatedAt(n, i).start < LocatedAt(n, i).end /\ LocatedAt(n, i).end <= Size
         /\ Holds(LocatedAt(m, j), LocatedAt(n, i)) <=> m \in Above(n)
         /\ n # m => \/ Disjoint(LocatedAt(n, i), LocatedAt(m, j))
                     \/ n \in Above(m) \/ m \in Above(n)
         /\ ~Disjoint(LocatedAt(n, i), LocatedAt(n, j))
<1>1. /\ LocatedAt(n, i).start = n - 1 /\ LocatedAt(n, i).end = End(n)
      /\ LocatedAt(n, j).start = n - 1 /\ LocatedAt(n, j).end = End(n)
      /\ LocatedAt(m, j).start = m - 1 /\ LocatedAt(m, j).end = End(m)
  BY DEF LocatedAt, Start
<1>2. /\ Size \in Nat /\ End(n) \in Nat /\ End(m) \in Nat /\ n <= End(n) /\ m <= End(m)
      /\ End(n) <= Size
      /\ m < n /\ n <= End(m) => End(n) <= End(m)
  BY TreeFacts
<1>3. /\ m \in Above(n) <=> m < n /\ n <= End(m)
      /\ n \in Above(m) <=> n < m /\ m <= End(n)
  BY AboveFacts
<1> QED
  BY <1>1, <1>2, <1>3 DEF Holds, SameRange, Disjoint

(* A symbol is directly in its parent if no other is between them.         *)
LEMMA ParentIsInnermost ==
  ASSUME WalkInv, Finished, Symbols = Made, NEW n \in Declared, NEW i \in PartsOf(n),
         Containing(n) # {}, NEW P, P = Latest(Containing(n))
  PROVE  (\E p \in Around(LocatedAt(n, i)) :
              IsInnermost(p, Around(LocatedAt(n, i))) /\ p.name = LocatedAt(n, i).parent)
         <=> \A k \in Declared : k \in Above(n) => k <= P
<1>1. IsTree(tree) /\ n \in 1 .. Size
  BY FoundFacts DEF Declared
<1>2. P \in Containing(n) /\ P \in Above(n) /\ P \in 1 .. Size
  BY <1>1, ContainingFacts
<1>3. P \in Declared /\ PartsOf(P) = {1}
  BY <1>1, <1>2, ContainersAreDeclared, DeclaredFacts DEF Containing
<1>4. LocatedAt(n, i).parent = <<P, 1>>
  BY DEF LocatedAt
<1> DEFINE A == Around(LocatedAt(n, i))
           p == LocatedAt(P, 1)
<1>5. \A q : q \in A <=> \E k \in Declared : \E j \in PartsOf(k) : k \in Above(n) /\ q = LocatedAt(k, j)
  <2>1. \A q : q \in Made <=> \E k \in Declared : \E j \in PartsOf(k) : q = LocatedAt(k, j)
    BY MadeFacts DEF Declared
  <2>2. \A k \in Declared : \A j : Holds(LocatedAt(k, j), LocatedAt(n, i)) <=> k \in Above(n)
    BY <1>1, RangesOfNodes DEF Declared
  <2> QED
    BY <2>1, <2>2 DEF Around
<1>6. p \in A
  BY <1>2, <1>3, <1>5
<1>7. \A q \in A : q.name = <<P, 1>> => q = p
  BY <1>5 DEF LocatedAt
<1>8. ASSUME \A k \in Declared : k \in Above(n) => k <= P, NEW q \in A
      PROVE  p = q \/ Holds(q, p)
  <2>1. PICK k \in Declared : \E j \in PartsOf(k) : k \in Above(n) /\ q = LocatedAt(k, j)
    BY <1>5
  <2>2. PICK j \in PartsOf(k) : k \in Above(n) /\ q = LocatedAt(k, j)
    BY <2>1
  <2>3. CASE k = P
    BY <1>3, <2>2, <2>3
  <2>4. CASE k # P
    <3>1. k < P /\ k \in 1 .. Size
      BY <1>1, <1>2, <1>8, <2>2, <2>4, AboveFacts
    <3>2. k \in Above(P)
      BY <1>1, <1>2, <2>2, <3>1, AboveIsChain
    <3> QED
      BY <1>1, <1>2, <2>2, <3>1, <3>2, RangesOfNodes
  <2> QED
    BY <2>3, <2>4
<1>9. ASSUME NEW k \in Declared, k \in Above(n), ~(k <= P), IsInnermost(p, A)
      PROVE  FALSE
  <2>1. k \in 1 .. Size /\ P < k
    BY <1>1, <1>2, <1>9, AboveFacts
  <2>2. P \in Above(k) /\ k \notin Above(P) /\ k # P
    BY <1>1, <1>2, <1>9, <2>1, AboveIsChain, AboveFacts
  <2>3. 1 \in PartsOf(k) /\ LocatedAt(k, 1) \in A
    BY <1>5, <1>9 DEF PartsOf
  <2>4. LocatedAt(k, 1) # p
    BY <2>2 DEF LocatedAt
  <2>5. Holds(LocatedAt(k, 1), p)
    BY <1>9, <2>3, <2>4 DEF IsInnermost
  <2> QED
    BY <1>1, <1>2, <2>1, <2>2, <2>5, RangesOfNodes
<1> HIDE DEF A, p
<1>10. (\E q \in A : IsInnermost(q, A) /\ q.name = <<P, 1>>) <=> IsInnermost(p, A)
  <2>1. p.name = <<P, 1>>
    BY DEF p, LocatedAt
  <2> QED
    BY <1>6, <1>7, <2>1
<1>11. IsInnermost(p, A) <=> \A k \in Declared : k \in Above(n) => k <= P
  BY <1>6, <1>8, <1>9 DEF IsInnermost
<1> QED
  BY <1>4, <1>10, <1>11 DEF A

(* The symbols found are a forest unless two of them share a range or one  *)
(* is in a symbol that is not the parent it names.                         *)
LEMMA ForestOfDeclarations ==
  ASSUME WalkInv, Finished, Symbols = Made, file.size = Size
  PROVE  IsForest <=> (\A n \in Declared : Type(n) # "fields") /\ ContainersAreNext
<1>1. IsTree(tree) /\ \A n \in Declared : n \in 1 .. Size
  BY FoundFacts DEF Declared
<1>2. \A t : t \in Made <=> \E n \in Declared : \E i \in PartsOf(n) : t = LocatedAt(n, i)
  BY MadeFacts DEF Declared
<1>3. \A n \in Declared : PartsOf(n) = (IF Type(n) = "fields" THEN {1, 2} ELSE {1})
  BY <1>1, DeclaredFacts
<1>4. \A s \in Symbols : s.start < s.end /\ s.end <= file.size
  BY <1>1, <1>2, RangesOfNodes
<1>5. (\A s, t \in Symbols : s = t \/ Disjoint(s, t) \/ Holds(s, t) \/ Holds(t, s))
      <=> \A n \in Declared : Type(n) # "fields"
  <2>1. ASSUME \A s, t \in Symbols : s = t \/ Disjoint(s, t) \/ Holds(s, t) \/ Holds(t, s),
               NEW n \in Declared, Type(n) = "fields"
        PROVE  FALSE
    <3> DEFINE s == LocatedAt(n, 1)
               t == LocatedAt(n, 2)
    <3>1. s \in Symbols /\ t \in Symbols
      BY <1>2, <1>3, <2>1
    <3>2. s # t
      BY DEF LocatedAt
    <3>3. ~Disjoint(s, t) /\ ~Holds(s, t) /\ ~Holds(t, s)
      <4>1. n \notin Above(n)
        BY <1>1, AboveFacts
      <4> QED
        BY <1>1, <4>1, RangesOfNodes
    <3> QED
      BY <2>1, <3>1, <3>2, <3>3
  <2>2. ASSUME \A n \in Declared : Type(n) # "fields", NEW s \in Symbols, NEW t \in Symbols
        PROVE  s = t \/ Disjoint(s, t) \/ Holds(s, t) \/ Holds(t, s)
    <3>1. PICK n \in Declared : s = LocatedAt(n, 1)
      BY <1>2, <1>3, <2>2
    <3>2. PICK m \in Declared : t = LocatedAt(m, 1)
      BY <1>2, <1>3, <2>2
    <3>3. n \in 1 .. Size /\ m \in 1 .. Size
      BY <1>1
    <3>4. /\ n # m => Disjoint(s, t) \/ n \in Above(m) \/ m \in Above(n)
          /\ n \in Above(m) => Holds(s, t)
          /\ m \in Above(n) => Holds(t, s)
      BY <1>1, <3>1, <3>2, <3>3, RangesOfNodes
    <3> QED
      BY <3>1, <3>2, <3>4
  <2> QED
    BY <2>1, <2>2
<1>6. (\A s \in Symbols : s.parent # None =>
          \E p \in Around(s) : IsInnermost(p, Around(s)) /\ p.name = s.parent)
      <=> ContainersAreNext
  <2>1. ASSUME NEW n \in Declared, NEW i
        PROVE  LocatedAt(n, i).parent = None <=> Containing(n) = {}
    <3>1. Containing(n) # {} => Latest(Containing(n)) \in Nat
      BY <1>1, ContainingFacts
    <3>2. Containing(n) # {} => <<Latest(Containing(n)), 1>> # None
      BY <3>1, NoneIsNoName
    <3> QED
      BY <3>2 DEF LocatedAt
  <2>2. ASSUME NEW n \in Declared, NEW i \in PartsOf(n), Containing(n) # {}
        PROVE  (\E p \in Around(LocatedAt(n, i)) :
                    IsInnermost(p, Around(LocatedAt(n, i))) /\ p.name = LocatedAt(n, i).parent)
               <=> \A k \in Declared : k \in Above(n) => k <= Latest(Containing(n))
    BY <2>2, ParentIsInnermost
  <2>3. ASSUME \A s \in Symbols : s.parent # None =>
                  \E p \in Around(s) : IsInnermost(p, Around(s)) /\ p.name = s.parent,
               NEW n \in Declared, Containing(n) # {}
        PROVE  \A k \in Declared : k \in Above(n) => k <= Latest(Containing(n))
    <3>1. 1 \in PartsOf(n) /\ LocatedAt(n, 1) \in Symbols
      BY <1>2 DEF PartsOf
    <3>2. \E p \in Around(LocatedAt(n, 1)) :
             IsInnermost(p, Around(LocatedAt(n, 1))) /\ p.name = LocatedAt(n, 1).parent
      BY <2>1, <2>3, <3>1
    <3> QED
      BY <2>2, <2>3, <3>1, <3>2
  <2>4. ASSUME ContainersAreNext, NEW s \in Symbols, s.parent # None
        PROVE  \E p \in Around(s) : IsInnermost(p, Around(s)) /\ p.name = s.parent
    <3>1. PICK n \in Declared : \E i \in PartsOf(n) : s = LocatedAt(n, i)
      BY <1>2
    <3>2. PICK i \in PartsOf(n) : s = LocatedAt(n, i)
      BY <3>1
    <3>3. Containing(n) # {}
      BY <2>1, <2>4, <3>2
    <3>4. \A k \in Declared : k \in Above(n) => k <= Latest(Containing(n))
      BY <2>4, <3>3 DEF ContainersAreNext
    <3>5. \E p \in Around(LocatedAt(n, i)) :
             IsInnermost(p, Around(LocatedAt(n, i))) /\ p.name = LocatedAt(n, i).parent
      BY <2>2, <3>3, <3>4
    <3> QED
      BY <3>2, <3>5
  <2> QED
    BY <2>3, <2>4 DEF ContainersAreNext
<1> QED
  BY <1>4, <1>5, <1>6 DEF IsForest

(* Between a declaration and its parent lie only constants; one that has a *)
(* parent itself lies directly around some declaration.                    *)
LEMMA OnlyConstantsAreBetween ==
  ASSUME IsTree(tree)
  PROVE  ContainersAreNext <=>
            ~\E n, k \in Declared : k \in Above(n) /\ IsConstant(k) /\ Containing(k) # {}
<1>1. ASSUME NEW n \in Declared, Containing(n) # {}, NEW k \in Declared, k \in Above(n),
             ~(k <= Latest(Containing(n)))
      PROVE  IsConstant(k) /\ Containing(k) # {}
  <2> DEFINE P == Latest(Containing(n))
  <2>1. n \in 1 .. Size
    BY DeclaredFacts
  <2>2. P \in Containing(n) /\ \A a \in Containing(n) : a <= P
    BY <1>1, <2>1, ContainingFacts
  <2>3. P \in Above(n) /\ P \in 1 .. Size /\ IsContainer(P)
    BY <2>1, <2>2, ContainingFacts DEF Containing
  <2>4. k \notin Containing(n)
    BY <1>1, <2>2
  <2> HIDE DEF P
  <2>5. IsConstant(k)
    BY <1>1, <2>4, DeclaredFacts DEF Containing
  <2>6. k \in 1 .. Size /\ P < k
    BY <1>1, <2>1, <2>3, AboveFacts DEF P
  <2>7. P \in Above(k)
    BY <1>1, <2>1, <2>3, <2>6, AboveIsChain
  <2> QED
    BY <2>3, <2>5, <2>7 DEF Containing
<1>2. ASSUME NEW n \in Declared, NEW k \in Declared,
             k \in Above(n), IsConstant(k), Containing(k) # {}, ContainersAreNext
      PROVE  FALSE
  <2> DEFINE B == {m \in Containing(n) \cup {n} : k < m}
  <2>1. n \in 1 .. Size /\ k \in 1 .. Size /\ k < n /\ ~IsContainer(k)
    BY <1>2, DeclaredFacts, AboveFacts
  <2>2. PICK m \in B : \A b \in B : m <= b
    <3>1. B \in SUBSET Nat /\ B # {}
      BY <2>1, ContainingFacts
    <3> HIDE DEF B
    <3> QED
      BY <3>1, Least
  <2>3. m \in Declared /\ m \in 1 .. Size
    BY <2>1, <2>2, ContainersAreDeclared, DeclaredFacts
  <2>4. k \in Above(m)
    <3>1. CASE m = n
      BY <1>2, <3>1
    <3>2. CASE m \in Containing(n)
      BY <1>2, <2>1, <2>2, <3>2, ContainingFacts, AboveIsChain
    <3> QED
      BY <2>2, <3>1, <3>2
  <2>5. Containing(m) # {}
    <3>1. PICK a \in Containing(k) : TRUE
      BY <1>2
    <3>2. a \in Above(m)
      BY <2>3, <2>4, <3>1, AboveIsTransitive DEF Containing
    <3> QED
      BY <3>1, <3>2 DEF Containing
  <2>6. /\ Latest(Containing(m)) \in Containing(m)
        /\ k <= Latest(Containing(m))
    BY <1>2, <2>3, <2>4, <2>5, ContainingFacts DEF ContainersAreNext
  <2> DEFINE a == Latest(Containing(m))
  <2>7. a \in Above(m) /\ IsContainer(a) /\ a \in 1 .. Size /\ a < m
    BY <2>3, <2>6, ContainingFacts DEF Containing
  <2>8. a \in Containing(n)
    <3>1. a \in Above(n)
      <4>1. CASE m = n
        BY <2>7, <4>1
      <4>2. CASE m \in Containing(n)
        BY <2>1, <2>7, <4>2, AboveIsTransitive DEF Containing
      <4> QED
        BY <2>2, <4>1, <4>2
    <3> QED
      BY <2>7, <3>1 DEF Containing
  <2> HIDE DEF a
  <2>9. k < a
    <3>1. k # a
      BY <2>1, <2>7
    <3> QED
      BY <2>1, <2>6, <2>7, <3>1 DEF a
  <2>10. m <= a
    BY <2>2, <2>8, <2>9
  <2> QED
    BY <2>3, <2>7, <2>10
<1> QED
  BY <1>1, <1>2 DEF ContainersAreNext

SharedRange == \E s \in symbols : SharesItsRange(s)
InConstantOfClass == \E s \in symbols : LiesInConstantOfClass(s)

(* The two causes, as they show in the tree.                               *)
LEMMA CausesInTree ==
  ASSUME WalkInv, Finished
  PROVE  /\ SharedRange <=> \E n \in Declared : Type(n) = "fields"
         /\ InConstantOfClass <=>
               \E n, k \in Declared : k \in Above(n) /\ IsConstant(k) /\ Containing(k) # {}
<1> DEFINE symbol(n, i) == [node |-> n, part |-> i, parent |-> ParentOf(n),
                            exported |-> InExport(Above(n))]
<1>1. IsTree(tree) /\ \A n \in Declared : n \in 1 .. Size
  BY FoundFacts DEF Declared
<1>2. \A s : s \in symbols <=> \E n \in Declared : \E i \in PartsOf(n) : s = symbol(n, i)
  BY FoundFacts DEF Declared
<1>3. \A n \in Declared : /\ PartsOf(n) = (IF Type(n) = "fields" THEN {1, 2} ELSE {1})
                          /\ ParentOf(n) = Nobody <=> Containing(n) = {}
  BY <1>1, DeclaredFacts, ContainingFacts
<1>4. \A n, i : /\ symbol(n, i).node = n /\ symbol(n, i).part = i
                /\ symbol(n, i).parent = ParentOf(n)
  OBVIOUS
<1>5. \A s \in symbols : /\ s.node \in Declared /\ s.part \in PartsOf(s.node)
                         /\ s = symbol(s.node, s.part) /\ s.parent = ParentOf(s.node)
  BY <1>2, <1>4
<1>6. \A n \in Declared : symbol(n, 1) \in symbols
  BY <1>2, <1>3
<1>7. \A n \in Declared : Type(n) = "fields" => symbol(n, 2) \in symbols
  BY <1>2, <1>3
<1> HIDE DEF symbol
<1>8. ASSUME NEW s \in symbols, NEW t \in symbols, s # t, t.node = s.node
      PROVE  s.node \in Declared /\ Type(s.node) = "fields"
  <2>1. s.part # t.part
    BY <1>5, <1>8
  <2> QED
    BY <1>3, <1>5, <1>8, <2>1
<1>9. ASSUME NEW n \in Declared, Type(n) = "fields"
      PROVE  \E s \in symbols : \E t \in symbols \ {s} : t.node = s.node
  <2>1. symbol(n, 1) # symbol(n, 2)
    BY <1>4
  <2> QED
    BY <1>4, <1>6, <1>7, <1>9, <2>1
<1>10. SharedRange <=> \E n \in Declared : Type(n) = "fields"
  BY <1>8, <1>9 DEF SharedRange, SharesItsRange
<1>11. InConstantOfClass <=>
         \E n, k \in Declared : k \in Above(n) /\ IsConstant(k) /\ Containing(k) # {}
  <2>1. InConstantOfClass <=>
           \E s, t \in symbols : t.node \in Above(s.node) /\ IsConstant(t.node) /\ t.parent # Nobody
    BY DEF InConstantOfClass, LiesInConstantOfClass
  <2>2. ASSUME NEW s \in symbols, NEW t \in symbols,
               t.node \in Above(s.node), IsConstant(t.node), t.parent # Nobody
        PROVE  \E n, k \in Declared : k \in Above(n) /\ IsConstant(k) /\ Containing(k) # {}
    BY <1>3, <1>5, <2>2
  <2>3. ASSUME NEW n \in Declared, NEW k \in Declared,
               k \in Above(n), IsConstant(k), Containing(k) # {}
        PROVE  \E s, t \in symbols :
                  t.node \in Above(s.node) /\ IsConstant(t.node) /\ t.parent # Nobody
    <3>1. symbol(n, 1) \in symbols /\ symbol(k, 1) \in symbols
      BY <1>6
    <3>2. symbol(n, 1).node = n /\ symbol(k, 1).node = k /\ symbol(k, 1).parent # Nobody
      BY <1>3, <1>4, <2>3
    <3> QED
      BY <2>3, <3>1, <3>2
  <2> QED
    BY <2>1, <2>2, <2>3
<1> QED
  BY <1>10, <1>11

(* So the symbols found are no forest for one of the two causes only.      *)
LEMMA NoForestForACause ==
  ASSUME WalkInv, Finished, file = ParsedFile
  PROVE  IsForest <=> ~(SharedRange \/ InConstantOfClass)
<1>1. IsTree(tree) /\ Symbols = Made /\ file.size = Size
  BY FoundFacts, ParsedIsFile DEF Symbols
<1> QED
  BY <1>1, ForestOfDeclarations, OnlyConstantsAreBetween, CausesInTree

-------------------------------------------------------------------------------
(* Tree, parser and caller *)

(* A caller's file is chunked beside a walk that has nothing to walk.      *)
Idle == tree = Unwritten /\ events = << >> /\ symbols = {} /\ calls = {}

ByOrigin ==
  /\ origin \in {"tree", "parser", "caller"}
  /\ origin = "tree" => WalkInv /\ Fresh
  /\ origin = "parser" => WalkInv /\ Finished /\ file = ParsedFile
  /\ origin = "caller" => Idle

FileInv == StructureInv /\ ByOrigin

LEMMA StructureStarts ==
  ASSUME StructureInit
  PROVE  FileInv
<1>1. CASE origin = "tree"
  <2>1. /\ WalkInit /\ file = Unread /\ todo = << >> /\ phase = "build"
        /\ unique = << >> /\ children = << >> /\ stack = << >>
        /\ selected = 0 /\ candidates = {}
    BY <1>1 DEF StructureInit
  <2>2. Unread.symbols = << >> /\ Len(Unread.symbols) = 0
    BY DEF Unread
  <2>3. SymbolsOf(Unread) = {}
    BY <2>2 DEF SymbolsOf
  <2>4. IsFile(Unread)
    BY <2>2, <2>3 DEF IsFile, Unread
  <2>5. Fresh
    BY <2>1, <2>2, <2>4 DEF Fresh
  <2> QED
    BY <1>1, <2>1, <2>5, FreshStructure, WalkStarts DEF FileInv, ByOrigin
<1>2. CASE origin = "caller"
  <2>1. Init /\ Idle
    BY <1>2 DEF StructureInit, Idle
  <2>2. Fresh
    BY <2>1, FilesAreSorted DEF Init, Fresh
  <2> QED
    BY <1>2, <2>1, <2>2, FreshStructure DEF FileInv, ByOrigin
<1> QED
  BY <1>1, <1>2 DEF StructureInit

(* A tree that stays as it is makes the same file.                         *)
LEMMA ParsedFileStays ==
  ASSUME UNCHANGED walk
  PROVE  ParsedFile' = ParsedFile /\ Finished' = Finished
<1>1. tree' = tree /\ symbols' = symbols /\ calls' = calls /\ events' = events
  BY DEF walk
<1>2. Size' = Size
      /\ \A n : Type(n)' = Type(n) /\ End(n)' = End(n) /\ Trusted(n)' = Trusted(n)
  BY <1>1, TreeStays
<1>3. \A s : Located(s)' = Located(s)
  BY <1>1 DEF Located, Start, End
<1>4. {Located(s) : s \in symbols}' = {Located(s) : s \in symbols}
  BY <1>1, <1>3
<1>5. Sorted({Located(s) : s \in symbols})' = Sorted({Located(s) : s \in symbols})
  BY <1>4 DEF Sorted
<1>6. ParseStatus' = ParseStatus
  BY <1>1, <1>2 DEF ParseStatus
<1>7. {<<Start(n), End(n)>> : n \in {m \in 1 .. Size : Type(m) = "ERROR"}}'
      = {<<Start(n), End(n)>> : n \in {m \in 1 .. Size : Type(m) = "ERROR"}}
  BY <1>1 DEF Start, End, Size, Type
<1> QED
  BY <1>1, <1>2, <1>5, <1>6, <1>7 DEF ParsedFile, Finished

LEMMA HandOverKeeps ==
  ASSUME FileInv, HandOver
  PROVE  FileInv'
<1>1. /\ WalkInv /\ Fresh /\ Finished /\ ParseStatus # "failed"
      /\ origin' = "parser" /\ file' = ParsedFile /\ todo' = file'.symbols
      /\ UNCHANGED <<unique, children, stack, selected, candidates, phase>> /\ UNCHANGED walk
  BY DEF HandOver, FileInv, ByOrigin
<1>2. WalkInv' /\ Finished' /\ ParsedFile' = ParsedFile
  BY <1>1, WalkInvStutters, ParsedFileStays
<1>3. IsFile(file)'
  <2>1. IsFile(ParsedFile)
    BY <1>1, ParsedIsFile
  <2> QED
    BY <1>1, <2>1 DEF IsFile, SymbolsOf
<1>4. Fresh'
  BY <1>1, <1>3 DEF Fresh
<1>5. StructureInv'
  <2>1. (Fresh => StructureInv)'
    BY FreshStructure, PTL
  <2> QED
    BY <1>4, <2>1
<1>6. ByOrigin'
  BY <1>1, <1>2 DEF ByOrigin
<1> QED
  BY <1>5, <1>6 DEF FileInv

(* No step of the chunker changes the file.                                *)
LEMMA FileIsKept ==
  ASSUME Next
  PROVE  file' = file
BY DEF Next, SkipRepetition, RefuseRange, Pop, Refuse, Place, Built, Select, CoverFile,
       KeepSymbols, Invalid

LEMMA FileInvNext ==
  ASSUME FileInv, [StructureNext]_structure
  PROVE  FileInv'
<1>1. StructureInv /\ [Next]_vars => StructureInv'
  BY NextForest, NextChosen DEF StructureInv
<1>2. CASE Extract
  <2>1. origin = "tree" /\ origin' = "tree" /\ WalkNext /\ UNCHANGED vars /\ WalkInv /\ Fresh
    BY <1>2 DEF Extract, FileInv, ByOrigin
  <2>2. WalkInv'
    BY <2>1, EnterKeepsWalkInv, LeaveKeepsWalkInv DEF WalkNext
  <2>3. Fresh'
    BY <2>1 DEF Fresh, vars, IsFile, SymbolsOf
  <2> QED
    BY <1>1, <2>1, <2>2, <2>3 DEF FileInv, ByOrigin
<1>3. CASE HandOver
  BY <1>3, HandOverKeeps
<1>4. CASE Partition
  <2>1. origin # "tree" /\ origin' = origin /\ Next /\ UNCHANGED walk
    BY <1>4 DEF Partition
  <2>2. file' = file
    BY <2>1, FileIsKept
  <2>3. origin = "parser" => WalkInv' /\ Finished' /\ file' = ParsedFile'
    BY <2>1, <2>2, WalkInvStutters, ParsedFileStays DEF FileInv, ByOrigin
  <2>4. origin = "caller" => Idle'
    BY <2>1 DEF FileInv, ByOrigin, Idle, walk, Unwritten
  <2> QED
    BY <1>1, <2>1, <2>3, <2>4 DEF FileInv, ByOrigin
<1>5. CASE UNCHANGED structure
  <2>1. origin' = origin /\ UNCHANGED vars /\ UNCHANGED walk
    BY <1>5 DEF structure
  <2>2. origin = "tree" => WalkInv' /\ Fresh'
    BY <2>1, WalkInvStutters DEF FileInv, ByOrigin, Fresh, vars, IsFile, SymbolsOf
  <2>3. origin = "parser" => WalkInv' /\ Finished' /\ file' = ParsedFile'
    BY <2>1, WalkInvStutters, ParsedFileStays DEF FileInv, ByOrigin, vars
  <2>4. origin = "caller" => Idle'
    BY <2>1 DEF FileInv, ByOrigin, Idle, walk, Unwritten
  <2> QED
    BY <1>1, <2>1, <2>2, <2>3, <2>4 DEF FileInv, ByOrigin
<1> QED
  BY <1>2, <1>3, <1>4, <1>5 DEF StructureNext

(* A walk that has nothing to walk finds nothing.                          *)
LEMMA IdleFindsNothing ==
  ASSUME Idle
  PROVE  OwnersAreLexical /\ SymbolsAreLexical
<1>1. /\ Size = 1 /\ Type(1) = "program" /\ symbols = {} /\ calls = {} /\ Found = {}
      /\ \A n \in 1 .. Size : n = 1
  BY DEF Idle, Unwritten, Size, Type, Found
<1>2. ~IsContainer(1) /\ ~IsConstant(1)
  BY <1>1 DEF IsContainer, IsMember, IsConstant, Containers
<1>3. {n \in 1 .. Size : Type(n) = "call" /\ Trusted(n)} = {}
  BY <1>1
<1>4. {n \in 1 .. Size : /\ IsContainer(n) \/ IsConstant(n)
                         /\ Trusted(n) /\ ~\E a \in Above(n) : Closed(a)} = {}
  BY <1>1, <1>2
<1> QED
  BY <1>1, <1>3, <1>4 DEF OwnersAreLexical, SymbolsAreLexical

-------------------------------------------------------------------------------
(* Theorems *)

(* The file is the parser's, once the walk is finished, or the caller's;   *)
(* what is placed of it is a forest, and what is selected is what its      *)
(* symbols select.                                                         *)
THEOREM FileInvariance ==
  StructureSpec => []FileInv
<1>1. StructureInit => FileInv
  BY StructureStarts
<1>2. FileInv /\ [StructureNext]_structure => FileInv'
  BY FileInvNext
<1> QED
  BY <1>1, <1>2, PTL DEF StructureSpec

(* The forest, the stack and the candidates are of the symbols and bytes   *)
(* of the file, whoever made it.                                           *)
THEOREM StructureTypeCorrect ==
  StructureSpec => []TypeOK
<1>1. FileInv => TypeOK
  BY ChosenIsTyped DEF FileInv
<1> QED
  BY <1>1, FileInvariance, PTL

(* The stack refuses exactly the files whose symbols are no forest.        *)
THEOREM NonForestsAreRefused ==
  StructureSpec => []RefusesExactlyNonForests
<1>1. FileInv => RefusesExactlyNonForests
  BY RefusedInTheEnd DEF FileInv
<1> QED
  BY <1>1, FileInvariance, PTL

(* No two candidates overlap, none is only whitespace unless it is a whole *)
(* symbol, and every non-whitespace byte of a successful file is in one.   *)
THEOREM CandidatesArePartition ==
  StructureSpec => []CandidatesPartition
<1>1. FileInv => CandidatesPartition
  BY PartitionOfBytes DEF FileInv
<1> QED
  BY <1>1, FileInvariance, PTL

(* A chunk is owned by the innermost symbol around each of its             *)
(* non-whitespace bytes, and by none outside all symbols.                  *)
THEOREM InnermostOwn ==
  StructureSpec => []OwnersAreInnermost
<1>1. FileInv => OwnersAreInnermost
  BY InnermostOwners DEF FileInv
<1> QED
  BY <1>1, FileInvariance, PTL

(* In a partial file a context chunk has an owner, and no syntax error or  *)
(* missing node lies in that owner.                                        *)
THEOREM PartialContextsAreSafe ==
  StructureSpec => []PartialContextIsSafe
<1>1. FileInv => PartialContextIsSafe
  BY SafePartialContexts DEF FileInv
<1> QED
  BY <1>1, FileInvariance, PTL

(* A file of the parser is refused because a Java field declares several   *)
(* names, or because something is declared in the value of a constant of a *)
(* class, and for no other reason, in whatever language.                   *)
THEOREM OnlyConstantsAreRefused ==
  StructureSpec => []RefusedForConstantsOnly
<1>1. FileInv => RefusedForConstantsOnly
  <2> SUFFICES ASSUME FileInv, origin = "parser"
               PROVE  /\ phase = "invalid" => SharedRange \/ InConstantOfClass
                      /\ phase \in {"select", "done"} => ~(SharedRange \/ InConstantOfClass)
    BY DEF RefusedForConstantsOnly, SharedRange, InConstantOfClass
  <2>1. IsForest <=> ~(SharedRange \/ InConstantOfClass)
    BY NoForestForACause DEF FileInv, ByOrigin
  <2>2. RefusesExactlyNonForests
    BY RefusedInTheEnd DEF FileInv
  <2> QED
    BY <2>1, <2>2 DEF RefusesExactlyNonForests
<1> QED
  BY <1>1, FileInvariance, PTL

(* The calls that the chunker's file was extracted with have the owners of *)
(* the lexical rules, before and after they are handed over.               *)
THEOREM OwnersStayLexical ==
  StructureSpec => []OwnersAreLexical
<1>1. FileInv => OwnersAreLexical
  BY OwnersInTheEnd, IdleFindsNothing DEF FileInv, ByOrigin
<1> QED
  BY <1>1, FileInvariance, PTL

(* And so do the symbols: those handed over are the declarations that the  *)
(* lexical rules make symbols, with their parents.                         *)
THEOREM SymbolsStayLexical ==
  StructureSpec => []SymbolsAreLexical
<1>1. FileInv => SymbolsAreLexical
  BY SymbolsInTheEnd, IdleFindsNothing DEF FileInv, ByOrigin
<1> QED
  BY <1>1, FileInvariance, PTL

===============================================================================
