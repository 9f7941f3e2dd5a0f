-------------------------------- MODULE Sums --------------------------------
(* The sum of the values of a function, which the loops of the program add up. *)
EXTENDS Functions

Sum(f) == FoldFunction(+, 0, f)

=============================================================================
