------------------------------ MODULE Sublists ------------------------------
(***************************************************************************)
(* The part of a list that passes a test, which the pages take with        *)
(* Array.filter and the services with WHERE. It is SelectSeq with the set  *)
(* of what passes, written as a function that the proofs can follow.       *)
(***************************************************************************)
EXTENDS Naturals, Sequences

\* The elements of s that are in S, in their order.
Sifted(s, S) ==
    LET first[n \in 0 .. Len(s)] ==
            IF n = 0 THEN <<>>
            ELSE IF s[n] \in S THEN Append(first[n - 1], s[n]) ELSE first[n - 1]
    IN first[Len(s)]
=============================================================================
