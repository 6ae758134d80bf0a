------------------------------- MODULE Listing -------------------------------
(***************************************************************************)
(* What the tables of the server have in common: a list in some order, what *)
(* is left of it when entries are dropped, and the sum of what they hold.   *)
(***************************************************************************)
EXTENDS Integers, Sequences

AllOf(s) == {s[i] : i \in DOMAIN s}

\* What of s is in T, in the order of s.
OnlyOf(s, T) ==
    LET only[i \in 0 .. Len(s)] ==
          IF i = 0 THEN <<>>
          ELSE IF s[i] \in T THEN Append(only[i - 1], s[i]) ELSE only[i - 1]
    IN  only[Len(s)]

\* The sum of what the entries of s weigh.
Total(s, weight) ==
    LET sum[i \in 0 .. Len(s)] == IF i = 0 THEN 0 ELSE sum[i - 1] + weight[s[i]]
    IN  sum[Len(s)]
=============================================================================
