------------------------------ MODULE Positions ------------------------------
(***************************************************************************)
(* What a loop over an array keeps, the entries at some of its positions   *)
(* in the order of the array, and what it adds up.                         *)
(***************************************************************************)
EXTENDS Naturals, Sequences, FiniteSets

(* How many of P are not beyond i, and the k-th of P. *)
Rank(P, i) == Cardinality({j \in P : j <= i})
Kth(P, k) == CHOOSE i \in P : Rank(P, i) = k

(* The entries of s at the positions in P. *)
Selected(s, P) == [k \in 1 .. Cardinality(P) |-> s[Kth(P, k)]]

(* What some places hold together, f saying how many units each: a unit is  *)
(* told by its place and its number there.                                  *)
Volume(f, S) == Cardinality(UNION {{s} \X (1 .. f[s]) : s \in S})
==============================================================================
