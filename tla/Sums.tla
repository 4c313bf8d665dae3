-------------------------------- MODULE Sums --------------------------------
(***************************************************************************)
(* The sum of a function over 1..n, written as a recursive function so     *)
(* that its laws can be proved (MoneyProofs).                              *)
(***************************************************************************)
EXTENDS Integers

PartialSums(f, n) ==
    LET upTo[k \in 0..n] == IF k = 0 THEN 0 ELSE upTo[k - 1] + f[k]
    IN  upTo

Total(f, n) == PartialSums(f, n)[n]

=============================================================================
