------------------------------- MODULE Fragmenter -------------------------------
(***************************************************************************)
(* fragment_candidate (code_chunker/fragmenter.py): how one candidate      *)
(* range is cut into pieces of at most max_chunk_bytes.  One step is one   *)
(* turn of its loop.  The candidate is the sequence of its bytes, each     *)
(* reduced to what the cuts depend on: offset i is the gap before byte     *)
(* i + 1, so the half-open range (a, b) holds the bytes a + 1 .. b.        *)
(***************************************************************************)
EXTENDS Naturals, Sequences

CONSTANTS
    Candidates,   \* the candidate ranges: sequences of byte classes
    Configs       \* the ChunkerConfigs: [target, max]

(* A byte is ASCII text, LF, CR, the first byte of a character of 2, 3 or  *)
(* 4 bytes, or a continuation byte.                                        *)
Bytes == {"x", "lf", "cr", "l2", "l3", "l4", "co"}
Width == [b \in Bytes |-> CASE b = "l2" -> 2 [] b = "l3" -> 3 [] b = "l4" -> 4 [] OTHER -> 1]

(* source[a:b].decode("utf-8", errors="strict") succeeds: every character  *)
(* that begins in the range ends in it, and no byte of it is left over.    *)
Decodes(s, a, b) ==
    /\ \A i \in a + 1 .. b : s[i] # "co" =>
          /\ i + Width[s[i]] - 1 <= b
          /\ \A j \in i + 1 .. i + Width[s[i]] - 1 : s[j] = "co"
    /\ \A i \in a + 1 .. b : s[i] = "co" =>
          \E j \in a + 1 .. i - 1 : s[j] # "co" /\ i < j + Width[s[j]]

ASSUME CandidatesAreText ==
    Candidates \subseteq {s \in Seq(Bytes) : s # << >> /\ Decodes(s, 0, Len(s))}
ASSUME ConfigsAreValid ==
    Configs \subseteq {c \in [target : Nat \ {0}, max : Nat \ {0}] : c.target <= c.max}

VARIABLES
    source,    \* the candidate
    config,    \* the limits
    pieces,    \* the pieces cut so far
    current,   \* where the next piece begins
    outcome    \* "cutting", "done", or "failed" for FragmentationFailure

vars == <<source, config, pieces, current, outcome>>

Size == Len(source)

TypeOK ==
    /\ source \in Seq(Bytes)
    /\ config \in Configs
    /\ pieces \in Seq((0 .. Size) \X (0 .. Size))
    /\ current \in 0 .. Size
    /\ outcome \in {"cutting", "done", "failed"}

Init ==
    /\ source \in Candidates
    /\ config \in Configs
    /\ pieces = << >>
    /\ current = 0
    /\ outcome = "cutting"

-------------------------------------------------------------------------------
(* Where the next piece may end *)

Remaining == Size - current

(* newline_ends, restricted to those _last_boundary may return             *)
LineEnds(limit) == {e \in current + 1 .. limit : e <= Size /\ source[e] = "lf"}

IsLast(e, S) == e \in S /\ \A f \in S : f <= e

(* Mutant: the proposed cut may lie inside a CRLF. *)
ProposedMutant == current + config.max

(* The proposed cut of a line longer than the limit: not inside a CRLF.    *)
Proposed ==
    LET b == current + config.max
    IN IF source[b] = "cr" /\ source[b + 1] = "lf" THEN b - 1 ELSE b

(* Mutant: the cuts stop one short of the limit. *)
CodePointEndsMutant == {e \in current + 1 .. Proposed - 1 : Decodes(source, current, e)}

(* the cuts at which the prefix decodes                                    *)
CodePointEnds == {e \in current + 1 .. Proposed : Decodes(source, current, e)}

Fits == Remaining <= config.max

-------------------------------------------------------------------------------
(* The turns of the loop *)

(* Mutant: the next piece begins one byte late. *)
TakeMutant(end) ==
    /\ pieces' = Append(pieces, <<current, end>>)
    /\ current' = end + 1
    /\ outcome' = IF end = Size THEN "done" ELSE "cutting"
    /\ UNCHANGED <<source, config>>

Take(end) ==
    /\ pieces' = Append(pieces, <<current, end>>)
    /\ current' = end
    /\ outcome' = IF end = Size THEN "done" ELSE "cutting"
    /\ UNCHANGED <<source, config>>

(* What is left fits: one last piece (also the early return for a whole    *)
(* candidate that fits).                                                   *)
TakeRest ==
    /\ outcome = "cutting" /\ Fits
    /\ Take(Size)

(* Cut after the last line that ends within the target, else within the    *)
(* maximum.                                                                *)
CutAfterLine ==
    /\ outcome = "cutting" /\ ~Fits
    /\ \E e \in LineEnds(current + config.max) :
          /\ IF LineEnds(current + config.target) # {}
             THEN IsLast(e, LineEnds(current + config.target))
             ELSE IsLast(e, LineEnds(current + config.max))
          /\ Take(e)

(* Mutant: a line longer than the target is cut at once. *)
CutInsideLineMutant ==
    /\ outcome = "cutting" /\ ~Fits
    /\ LineEnds(current + config.target) = {}
    /\ \E e \in CodePointEnds : IsLast(e, CodePointEnds) /\ Take(e)

(* No line ends in reach: cut the line at the last whole character.        *)
CutInsideLine ==
    /\ outcome = "cutting" /\ ~Fits
    /\ LineEnds(current + config.max) = {}
    /\ \E e \in CodePointEnds : IsLast(e, CodePointEnds) /\ Take(e)

(* Not even one character fits: FragmentationFailure, no piece is kept.    *)
Fail ==
    /\ outcome = "cutting" /\ ~Fits
    /\ LineEnds(current + config.max) = {}
    /\ CodePointEnds = {}
    /\ outcome' = "failed"
    /\ pieces' = << >>
    /\ UNCHANGED <<source, config, current>>

Next == TakeRest \/ CutAfterLine \/ CutInsideLine \/ Fail

Spec == Init /\ [][Next]_vars
-------------------------------------------------------------------------------
(* Properties *)

(* The pieces lie end to end from the start of the candidate, none of them *)
(* empty, and the fragmentation is done exactly when they exhaust it: no   *)
(* byte is trimmed, repeated or overlapped (fragmenter.py:66-70).          *)
PiecesTile ==
    /\ \A i \in 1 .. Len(pieces) :
          /\ pieces[i][1] = IF i = 1 THEN 0 ELSE pieces[i - 1][2]
          /\ pieces[i][1] < pieces[i][2]
    /\ outcome # "failed" => current = IF pieces = << >> THEN 0 ELSE pieces[Len(pieces)][2]
    /\ outcome = "done" <=> current = Size

(* Every piece is at most max_chunk_bytes long and is text of its own: it  *)
(* decodes, and neither end of it lies inside a CRLF.                      *)
PiecesAreText ==
    \A i \in 1 .. Len(pieces) :
        LET a == pieces[i][1]  b == pieces[i][2]
        IN /\ b - a <= config.max
           /\ Decodes(source, a, b)
           /\ b < Size => ~(source[b] = "cr" /\ source[b + 1] = "lf")

(* The range (a, b) is one line, with its terminator if it has one.        *)
IsLine(a, b) ==
    /\ a < b
    /\ a = 0 \/ source[a] = "lf"
    /\ b = Size \/ source[b] = "lf"
    /\ \A i \in a + 1 .. b - 1 : source[i] # "lf"

(* A line that fits max_chunk_bytes is never cut, whatever lines surround  *)
(* it and wherever the pieces before it ended.                             *)
LinesStayWhole ==
    \A i \in 1 .. Len(pieces), a \in 0 .. Size, b \in 0 .. Size :
        IsLine(a, b) /\ a < pieces[i][2] /\ pieces[i][2] < b => b - a > config.max

(* FragmentationFailure is raised for nothing but a character, or a CRLF,  *)
(* that is itself wider than max_chunk_bytes.                              *)
FailsOnlyOnWideText ==
    outcome = "failed" =>
        \E i \in 1 .. Size :
            \/ Width[source[i]] > config.max
            \/ i < Size /\ source[i] = "cr" /\ source[i + 1] = "lf" /\ config.max = 1

(* "It must always make positive progress ... a valid boundary always      *)
(* exists" (docs/superpowers/specs/2026-08-29-code-chunker-design.md:340): *)
(* no candidate is refused.                                                *)
AlwaysProgresses == outcome # "failed"

===============================================================================
