------------------------------- MODULE Lists -------------------------------
(* Loops over lists that proofs reason about.                              *)
EXTENDS Integers, Sequences

\* The entries of s that are in S, in order.
Keeping(s, S) ==
  LET kept[n \in 0 .. Len(s)] ==
        IF n = 0 THEN <<>>
        ELSE IF s[n] \in S THEN Append(kept[n - 1], s[n]) ELSE kept[n - 1]
  IN  kept[Len(s)]
=============================================================================
