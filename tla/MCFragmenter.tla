------------------------------ MODULE MCFragmenter ------------------------------
(* Every text of at most MaxBytes bytes, under every pair of limits up to MaxLimit. *)
EXTENDS Fragmenter, FiniteSets

CONSTANTS MaxBytes, MaxLimit

ShortTexts ==
    UNION {{s \in [1 .. n -> Bytes] : Decodes(s, 0, n)} : n \in 1 .. MaxBytes}
SmallConfigs ==
    {c \in [target : 1 .. MaxLimit, max : 1 .. MaxLimit] : c.target <= c.max}
===============================================================================
