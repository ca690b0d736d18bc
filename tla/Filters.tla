------------------------------- MODULE Filters -------------------------------
(***************************************************************************)
(* What a comprehension or a query keeps of a list: SelectSeq, with a set  *)
(* for the test and written as a recursive function, so that what it       *)
(* computes can be proved (SumProofs).                                     *)
(***************************************************************************)
EXTENDS Integers, Sequences

\* the elements of s that are in kept, in their order
Filtered(s, kept) ==
    LET upTo[i \in 0..Len(s)] ==
            IF i = 0 THEN <<>>
            ELSE IF s[i] \in kept THEN Append(upTo[i - 1], s[i]) ELSE upTo[i - 1]
    IN  upTo[Len(s)]
=============================================================================
