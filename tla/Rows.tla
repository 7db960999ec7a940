-------------------------------- MODULE Rows --------------------------------
(* What is kept of a list: the filter of the code's loops (without, others), *)
(* as a recursive function, which a proof can unfold.                        *)
EXTENDS Integers, Sequences

\* The elements of s that are in S, in their order.
Only(s, S) ==
    LET kept[i \in 0..Len(s)] ==
            IF i = 0 THEN <<>>
            ELSE IF s[i] \in S THEN Append(kept[i - 1], s[i]) ELSE kept[i - 1]
    IN  kept[Len(s)]
=============================================================================
