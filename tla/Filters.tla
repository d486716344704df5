------------------------------- MODULE Filters -------------------------------
(***************************************************************************)
(* A filter as a function of a set.  SelectSeq of the standard modules has *)
(* an operator for its parameter, which a proof cannot instantiate; the    *)
(* components whose proofs need what a filter keeps have this one.         *)
(***************************************************************************)
EXTENDS Naturals, Sequences

\* The elements of s that are in S, in their order.
Those(s, S) ==
    LET those[i \in 0..Len(s)] ==
            IF i = 0 THEN <<>>
            ELSE IF s[i] \in S THEN Append(those[i - 1], s[i]) ELSE those[i - 1]
    IN  those[Len(s)]
=============================================================================
