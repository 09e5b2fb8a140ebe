------------------------------ MODULE FileStructure ------------------------------
(***************************************************************************)
(* From the syntax tree of one file to its chunk candidates: the symbols   *)
(* the extractor finds (Extraction) are what _process_file                 *)
(* (code_chunker/chunker.py) makes a forest of and selects from            *)
(* (SymbolIntervals).  A caller may also hand the chunker an inventory of  *)
(* its own making, with any symbols in it.                                 *)
(***************************************************************************)
EXTENDS SymbolIntervals, Extraction

ASSUME NoneIsNoName == None \notin Nat \X {1}

VARIABLE
    origin    \* where the symbols are from: "tree", until they are handed over,
              \* then "parser"; or a "caller"

structure == <<vars, walk, origin>>

(* A symbol of the parser for the chunker; sorted as by _symbol_key.       *)
Located(s) ==
    [name |-> <<s.node, s.part>>, start |-> Start(s.node), end |-> End(s.node),
     parent |-> IF s.parent = Nobody THEN None ELSE <<s.parent, 1>>]

(* Of equal keys any may come first. *)
Sorted(S) ==
    CHOOSE list \in [1 .. Cardinality(S) -> S] :
        \A i, j \in 1 .. Cardinality(S) :
            i < j => list[i] # list[j] /\ KeyLeq(list[i], list[j])

ParsedFile ==
    [symbols |-> Sorted({Located(s) : s \in symbols}),
     size |-> Size, blank |-> {}, status |-> ParseStatus,
     unsafe |-> {<<Start(n), End(n)>> :
                    n \in {m \in 1 .. Size : Type(m) = "ERROR"}}]

Unread == [symbols |-> << >>, size |-> 0, blank |-> {}, status |-> "success", unsafe |-> {}]
Unwritten == [language |-> "python", nodes |-> <<[type |-> "program", end |-> 1]>>]

StructureInit ==
    \/ /\ origin = "tree" /\ WalkInit
       /\ file = Unread /\ todo = << >> /\ phase = "build"
       /\ unique = << >> /\ children = << >> /\ stack = << >>
       /\ selected = 0 /\ candidates = {}
    \/ /\ origin = "caller" /\ Init
       /\ tree = Unwritten /\ events = << >>
       /\ scopes = << >> /\ owners = << >> /\ barriers = 0
       /\ pushed = [scope |-> {}, barrier |-> {}, decorator |-> {}]
       /\ context = FALSE /\ restore = [n \in {} |-> FALSE] /\ bodies = {}
       /\ symbols = {} /\ calls = {}

Extract == origin = "tree" /\ WalkNext /\ UNCHANGED <<vars, origin>>

(* _process_file: a file whose parse has failed is not chunked.            *)
HandOver ==
    /\ origin = "tree" /\ Finished /\ ParseStatus # "failed"
    /\ origin' = "parser"
    /\ file' = ParsedFile /\ todo' = file'.symbols
    /\ UNCHANGED <<unique, children, stack, selected, candidates, phase, walk>>

Partition == origin # "tree" /\ Next /\ UNCHANGED <<walk, origin>>

StructureNext == Extract \/ HandOver \/ Partition

StructureSpec == StructureInit /\ [][StructureNext]_structure

-------------------------------------------------------------------------------
(* Properties *)

(* The two ways in which the symbols of one tree are no forest: the names  *)
(* of one Java field are all located at the field, and what is declared in *)
(* the value of a constant of a class names the class as its parent.       *)
SharesItsRange(s) == \E t \in symbols \ {s} : t.node = s.node
LiesInConstantOfClass(s) ==
    \E k \in symbols :
        k.node \in Above(s.node) /\ IsConstant(k.node) /\ k.parent # Nobody

(* The chunker refuses a file the parser has read for these two reasons,   *)
(* in whatever language, and for no other.                                 *)
RefusedForConstantsOnly ==
    LET cause == \E s \in symbols : SharesItsRange(s) \/ LiesInConstantOfClass(s)
    IN origin = "parser" =>
          /\ phase = "invalid" => cause
          /\ phase \in {"select", "done"} => ~cause

(* "Every Module 3 `CONSTANT` is selected as its own symbol candidate       *)
(* unless it lies inside a selected descendant with an identical or        *)
(* narrower authoritative range" (design of the chunker, section 14).      *)
EveryConstantIsSelected ==
    origin = "parser" /\ phase \in {"done", "invalid"} =>
        \A s \in symbols : IsConstant(s.node) =>
            \E c \in candidates :
                /\ c.kind = "symbol"
                /\ Start(s.node) <= c.start /\ c.end <= End(s.node)
===============================================================================
