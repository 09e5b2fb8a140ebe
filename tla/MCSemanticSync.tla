----------------------------- MODULE MCSemanticSync -----------------------------
(* Small instances of SemanticSync for TLC. *)
EXTENDS SemanticSync

C(i, t) == [id |-> i, text |-> t]
(* Chunks that appear, change, swap contents, go, and an empty repository. *)
MCInventories == {<<>>, <<C(1, "x")>>, <<C(1, "x"), C(2, "y"), C(3, "x")>>,
                  <<C(1, "y"), C(2, "y"), C(3, "x")>>, <<C(2, "x"), C(3, "y")>>}
================================================================================
