------------------------------- MODULE Selection -------------------------------
(* What a loop that passes by some elements of a list leaves of it. *)
EXTENDS Sequences, Naturals

\* The elements of s that are in S, in their order.
Kept(s, S) ==
  LET upTo[n \in 0 .. Len(s)] ==
        IF n = 0 THEN <<>>
        ELSE IF s[n] \in S THEN Append(upTo[n - 1], s[n])
        ELSE upTo[n - 1]
  IN  upTo[Len(s)]
=============================================================================
