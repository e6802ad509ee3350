-------------------------------- MODULE Sums --------------------------------
(***************************************************************************)
(* Sums of the first n entries of a function on an initial segment of the  *)
(* positive integers, as a recursive function.  The folds of the community *)
(* modules go through an operator argument and a CHOOSE over an index set, *)
(* about which the provers can show nothing; this form is provable         *)
(* (SumsProofs).                                                           *)
(***************************************************************************)
EXTENDS Integers

PrefixSums(w) ==
    LET s[i \in Nat] == IF i = 0 THEN 0 ELSE s[i - 1] + w[i] IN s

Total(w, n) == PrefixSums(w)[n]

=============================================================================
