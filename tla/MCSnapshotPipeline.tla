--------------------------- MODULE MCSnapshotPipeline ---------------------------
(* Contents of every kind the stages tell apart, most of them of one size; *)
(* a configuration chooses those that occur.                               *)
EXTENDS SnapshotPipeline, TLC

CONSTANTS
    here, there,   \* the paths, of which one
    lib, root,     \* is in a directory of its own
    good,      \* parses and chunks
    partial,   \* parses with syntax errors
    hollow,    \* nothing in it parses
    raising,   \* the extractor raises
    uncut,     \* no fragmentation of it is allowed
    latin,     \* not UTF-8
    binary,    \* not text at all
    long,      \* of another size
    huge       \* above the limit

Mixed == [x \in Paths |-> IF x = here THEN "supported" ELSE "unsupported"]
InLibrary == [x \in Paths |-> IF x = here THEN lib ELSE root]
Python == [x \in Paths |-> "python"]

SizeOf == [c \in Contents |-> CASE c = long -> 2 [] c = huge -> 3 [] OTHER -> 1]
BinaryOf == [c \in Contents |-> c = binary]
TextOf == [c \in Contents |-> c \notin {latin, binary}]
ParseOf == [c \in Contents |->
    CASE c = partial -> "partial" [] c = hollow -> "failed" [] c = raising -> "raises"
      [] OTHER -> "success"]
CutOf == [c \in Contents |-> IF c = uncut THEN "fragmentation_error" ELSE "chunks"]

NodeSymmetry == Permutations(Nodes)
===============================================================================
