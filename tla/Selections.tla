----------------------------- MODULE Selections -----------------------------
(* The part of a sequence that is in a set, as SelectSeq has it, by a         *)
(* recursive function.                                                        *)
EXTENDS Naturals, Sequences

\* The entries of s that are in T, in their order.
Filtered(s, T) ==
    LET f[n \in 0..Len(s)] ==
            IF n = 0 THEN <<>>
            ELSE IF s[n] \in T THEN Append(f[n - 1], s[n])
            ELSE f[n - 1]
    IN  f[Len(s)]
=============================================================================
