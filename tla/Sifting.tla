---- MODULE Sifting ----
(***************************************************************************)
(* A sequence with only those of its elements that lie in a set, in their  *)
(* order: SelectSeq for a set, written as a recursive function.            *)
(***************************************************************************)
EXTENDS Integers, Sequences

Sift(s, T) ==
  LET f[n \in 0 .. Len(s)] ==
        IF n = 0 THEN <<>>
        ELSE IF s[n] \in T THEN Append(f[n - 1], s[n]) ELSE f[n - 1]
  IN  f[Len(s)]
====
