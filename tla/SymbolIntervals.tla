---------------------------- MODULE SymbolIntervals ----------------------------
(***************************************************************************)
(* code_chunker/intervals.py, for one parsed file: the symbols become a    *)
(* containment forest (build_symbol_intervals), and the forest becomes the *)
(* ranges that are chunked (select_candidates).  Offset i is the gap       *)
(* before byte i + 1, so the range [start, end) holds start + 1 .. end.    *)
(***************************************************************************)
EXTENDS Naturals, Sequences

CONSTANTS
    Files,    \* parsed files: [symbols, size, blank, status, unsafe]
    None      \* no parent, no owner

(* A symbol is [name, start, end, parent].  The symbols of a file come     *)
(* sorted by _symbol_key; where the key would go on to kind and name, the  *)
(* ranges are equal and the order decides nothing.  blank are the          *)
(* whitespace bytes, unsafe the locations of the syntax errors and missing *)
(* nodes.                                                                  *)
KeyLeq(a, b) == a.start < b.start \/ (a.start = b.start /\ a.end >= b.end)

SymbolsOf(f) == {f.symbols[i] : i \in 1 .. Len(f.symbols)}

IsFile(f) ==
    /\ f.symbols \in Seq(SymbolsOf(f))
    /\ \A s \in SymbolsOf(f) : s.start \in Nat /\ s.end \in Nat
    /\ \A i, j \in 1 .. Len(f.symbols) : i < j => KeyLeq(f.symbols[i], f.symbols[j])
    /\ f.size \in Nat /\ f.blank \subseteq 1 .. f.size
    /\ f.status \in {"success", "partial"}
    /\ f.unsafe \subseteq (0 .. f.size) \X (0 .. f.size)

ASSUME FilesAreSorted == \A f \in Files : IsFile(f)

ASSUME NoneIsNoIndex == None \notin Nat

VARIABLES
    file,        \* the file
    todo,        \* its symbols not yet placed
    unique,      \* the symbols placed, without repetitions
    children,    \* for each of them, the indices of its children
    stack,       \* the symbols around the next one, innermost first
    selected,    \* the symbols select_candidates is done with
    candidates,  \* the candidates so far
    phase        \* "build", "select", "done", or "invalid": InvalidSymbolIntervals

vars == <<file, todo, unique, children, stack, selected, candidates, phase>>

Kinds == {"symbol", "context"}
Candidate(kind, a, b, owner) == [kind |-> kind, start |-> a, end |-> b, owner |-> owner]

Symbols == SymbolsOf(file)

TypeOK ==
    /\ IsFile(file)
    /\ todo \in Seq(Symbols) /\ unique \in Seq(Symbols)
    /\ children \in Seq(Seq(1 .. Len(unique)))
    /\ stack \in Seq(1 .. Len(unique))
    /\ selected \in 0 .. Len(unique)
    /\ candidates \subseteq [kind : Kinds, start : 0 .. file.size, end : 0 .. file.size,
                             owner : (1 .. Len(unique)) \cup {None}]
    /\ phase \in {"build", "select", "done", "invalid"}

Init ==
    /\ file \in Files
    /\ todo = file.symbols
    /\ unique = << >> /\ children = << >> /\ stack = << >>
    /\ selected = 0
    /\ candidates = {}
    /\ phase = "build"

-------------------------------------------------------------------------------
(* build_symbol_intervals *)

Invalid ==
    /\ phase' = "invalid"
    /\ UNCHANGED <<file, todo, unique, children, stack, selected, candidates>>

Symbol == Head(todo)
Top == unique[Head(stack)]
Previous == unique[Len(unique)]
SameRange(a, b) == a.start = b.start /\ a.end = b.end
Repeats == unique # << >> /\ SameRange(Previous, Symbol)

Building == phase = "build" /\ todo # << >>

(* A symbol listed twice counts once; two symbols of one range are refused. *)
SkipRepetition ==
    /\ Building /\ Repeats
    /\ IF Previous = Symbol
       THEN /\ todo' = Tail(todo)
            /\ UNCHANGED <<file, unique, children, stack, selected, candidates, phase>>
       ELSE Invalid

InRange == Symbol.start < Symbol.end /\ Symbol.end <= file.size

RefuseRange ==
    /\ Building /\ ~Repeats /\ ~InRange
    /\ Invalid

(* Mutant: a symbol that begins where another ends is taken to be inside it. *)
LeavesMutant == stack # << >> /\ Symbol.start > Top.end

(* The symbol begins at or behind the end of the one on top of the stack.  *)
Leaves == stack # << >> /\ Symbol.start >= Top.end

Pop ==
    /\ Building /\ ~Repeats /\ InRange /\ Leaves
    /\ stack' = Tail(stack)
    /\ UNCHANGED <<file, todo, unique, children, selected, candidates, phase>>

(* The symbol must end in the one on top of the stack, if any, and may name *)
(* no other parent.                                                         *)
Nests ==
    IF stack = << >> THEN Symbol.parent = None
    ELSE Symbol.end <= Top.end /\ Symbol.parent \in {None, Top.name}

Refuse ==
    /\ Building /\ ~Repeats /\ InRange /\ ~Leaves /\ ~Nests
    /\ Invalid

Place ==
    /\ Building /\ ~Repeats /\ InRange /\ ~Leaves /\ Nests
    /\ LET new == Len(unique) + 1
           adopted == IF stack = << >> THEN children
                      ELSE [children EXCEPT ![Head(stack)] = Append(@, new)]
       IN /\ children' = Append(adopted, << >>)
          /\ stack' = <<new>> \o stack
    /\ unique' = Append(unique, Symbol)
    /\ todo' = Tail(todo)
    /\ UNCHANGED <<file, selected, candidates, phase>>

Built ==
    /\ phase = "build" /\ todo = << >>
    /\ phase' = "select"
    /\ UNCHANGED <<file, todo, unique, children, stack, selected, candidates>>

-------------------------------------------------------------------------------
(* select_candidates *)

(* _append_context: a gap is a candidate unless it is all whitespace.      *)
Context(a, b, owner) ==
    {Candidate("context", a, b, owner) : x \in (a + 1 .. b) \ file.blank}

(* Mutant: what follows the last range is forgotten. *)
GapsMutant(a, b, S) ==
    {g \in ({a} \cup {r.end : r \in S}) \X {r.start : r \in S} :
        g[1] < g[2] /\ \A r \in S : r.end <= g[1] \/ g[2] <= r.start}

(* The gaps that disjoint ranges leave in [a, b).                          *)
Gaps(a, b, S) ==
    {g \in ({a} \cup {r.end : r \in S}) \X ({b} \cup {r.start : r \in S}) :
        g[1] < g[2] /\ \A r \in S : r.end <= g[1] \/ g[2] <= r.start}

Contexts(a, b, S, owner) == UNION {Context(g[1], g[2], owner) : g \in Gaps(a, b, S)}

(* Mutant: an empty error location meets nothing. *)
UnsafeMutant(a, b) == \E u \in file.unsafe : u[1] < b /\ a < u[2]

(* _UnsafeRangeIndex: an empty location counts as the byte that follows it. *)
Unsafe(a, b) ==
    \E u \in file.unsafe : u[1] < b /\ a < (IF u[2] > u[1] THEN u[2] ELSE u[1] + 1)

(* Mutant: a symbol with children is a candidate as a whole, too. *)
CandidatesOfMutant(i) ==
    LET s == unique[i]
        inner == {unique[children[i][k]] : k \in 1 .. Len(children[i])}
    IN {Candidate("symbol", s.start, s.end, i)} \cup
       IF inner = {} THEN {} ELSE Contexts(s.start, s.end, inner, i)

(* Mutant: the gaps between children belong to nobody. *)
UnownedCandidatesOfMutant(i) ==
    LET s == unique[i]
        inner == {unique[children[i][k]] : k \in 1 .. Len(children[i])}
    IN IF inner = {} THEN {Candidate("symbol", s.start, s.end, i)}
       ELSE IF file.status = "partial" /\ Unsafe(s.start, s.end) THEN {}
       ELSE Contexts(s.start, s.end, inner, None)

(* A symbol without children is a candidate; of one with children, the     *)
(* gaps between them are, unless the file is partial and an error lies in  *)
(* the symbol.                                                             *)
CandidatesOf(i) ==
    LET s == unique[i]
        inner == {unique[children[i][k]] : k \in 1 .. Len(children[i])}
    IN IF inner = {} THEN {Candidate("symbol", s.start, s.end, i)}
       ELSE IF file.status = "partial" /\ Unsafe(s.start, s.end) THEN {}
       ELSE Contexts(s.start, s.end, inner, i)

Select ==
    /\ phase = "select" /\ selected < Len(unique)
    /\ selected' = selected + 1
    /\ candidates' = candidates \cup CandidatesOf(selected + 1)
    /\ UNCHANGED <<file, todo, unique, children, stack, phase>>

Disjoint(a, b) == a.end <= b.start \/ b.end <= a.start

(* The bytes of a successful file outside every candidate are candidates   *)
(* of no owner, unless candidates overlap.                                 *)
CoverFile ==
    /\ phase = "select" /\ selected = Len(unique) /\ file.status = "success"
    /\ IF \E c, d \in candidates : c # d /\ ~Disjoint(c, d)
       THEN Invalid
       ELSE /\ candidates' = candidates \cup Contexts(0, file.size, candidates, None)
            /\ phase' = "done"
            /\ UNCHANGED <<file, todo, unique, children, stack, selected>>

(* A partial file has no candidates outside its symbols.                   *)
KeepSymbols ==
    /\ phase = "select" /\ selected = Len(unique) /\ file.status = "partial"
    /\ phase' = "done"
    /\ UNCHANGED <<file, todo, unique, children, stack, selected, candidates>>

Next ==
    \/ SkipRepetition \/ RefuseRange \/ Pop \/ Refuse \/ Place \/ Built
    \/ Select \/ CoverFile \/ KeepSymbols

Spec == Init /\ [][Next]_vars

-------------------------------------------------------------------------------
(* Properties *)

Holds(a, b) == a.start <= b.start /\ b.end <= a.end /\ ~SameRange(a, b)
Around(s) == {p \in Symbols : Holds(p, s)}
IsInnermost(p, S) == p \in S /\ \A q \in S : p = q \/ Holds(q, p)

(* What a parser may hand over: ranges inside the file that are pairwise   *)
(* apart or one inside the other, each naming no parent but the symbol     *)
(* directly around it.                                                     *)
IsForest ==
    /\ \A s \in Symbols : s.start < s.end /\ s.end <= file.size
    /\ \A s, t \in Symbols : s = t \/ Disjoint(s, t) \/ Holds(s, t) \/ Holds(t, s)
    /\ \A s \in Symbols : s.parent # None =>
          \E p \in Around(s) : IsInnermost(p, Around(s)) /\ p.name = s.parent

(* The stack refuses exactly the files whose symbols are no forest; in     *)
(* particular the candidates of a forest never overlap (intervals.py:162). *)
RefusesExactlyNonForests ==
    /\ phase = "invalid" => ~IsForest
    /\ phase \in {"select", "done"} => IsForest

(* No two chunks of a file overlap (design document, section 12), none is *)
(* only whitespace unless it is a whole symbol, and every non-whitespace   *)
(* byte of a successful file is in one.                                    *)
CandidatesPartition ==
    /\ \A c, d \in candidates : c = d \/ Disjoint(c, d)
    /\ \A c \in candidates :
          /\ c.start < c.end
          /\ c.kind = "context" => ~(c.start + 1 .. c.end \subseteq file.blank)
    /\ phase = "done" /\ file.status = "success" =>
          \A x \in (1 .. file.size) \ file.blank :
              \E c \in candidates : x \in c.start + 1 .. c.end

(* A chunk is owned by the innermost symbol around each of its             *)
(* non-whitespace bytes, and by none outside all symbols.                  *)
OwnersAreInnermost ==
    \A c \in candidates : \A x \in (c.start + 1 .. c.end) \ file.blank :
        LET around == {s \in Symbols : x \in s.start + 1 .. s.end}
        IN IF c.owner = None THEN around = {} ELSE IsInnermost(unique[c.owner], around)

(* In a partial file nothing is guessed: a context chunk has an owner, and *)
(* no syntax error or missing node lies in that owner.                     *)
PartialContextIsSafe ==
    file.status = "partial" =>
        \A c \in candidates : c.kind = "context" =>
            /\ c.owner # None
            /\ \A u \in file.unsafe :
                  LET s == unique[c.owner]
                  IN IF u[1] = u[2] THEN ~(s.start <= u[1] /\ u[1] < s.end)
                     ELSE ~(s.start < u[2] /\ u[1] < s.end)
===============================================================================
