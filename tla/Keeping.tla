-------------------------------- MODULE Keeping --------------------------------
(* Filtering a sequence, as VecDeque::retain does. *)
EXTENDS Naturals, Sequences

\* The entries of s that are members of T, in their order.
Kept(s, T) ==
  LET upTo[n \in 0..Len(s)] ==
        IF n = 0 THEN <<>>
        ELSE IF s[n] \in T THEN Append(upTo[n - 1], s[n])
        ELSE upTo[n - 1]
  IN  upTo[Len(s)]
=============================================================================
