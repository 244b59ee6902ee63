------------------------------- MODULE Lists -------------------------------
(* The list comprehension with a condition, in the form that proofs can use. *)
EXTENDS Naturals, Sequences

(* [x for x in s if x in S]                                                *)
Only(s, S) ==
    LET upto[n \in 0 .. Len(s)] ==
          IF n = 0 THEN <<>>
          ELSE IF s[n] \in S THEN Append(upto[n - 1], s[n]) ELSE upto[n - 1]
    IN upto[Len(s)]
=============================================================================
