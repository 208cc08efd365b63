----------------------------- MODULE Subsequences -----------------------------
(***************************************************************************)
(* SelectSeq with a set for the test, as a recursive function, so that     *)
(* what it selects can be proved.                                          *)
(***************************************************************************)
EXTENDS Naturals, Sequences

\* The elements of s that are in S, in their order.
Only(s, S) ==
    LET first[n \in 0..Len(s)] ==
          IF n = 0 THEN << >>
          ELSE IF s[n] \in S THEN Append(first[n - 1], s[n]) ELSE first[n - 1]
    IN  first[Len(s)]
=============================================================================
