--------------------------- MODULE MCRentalReturns ---------------------------
(* RentalReturns on small instances.                                        *)
EXTENDS RentalReturns, TLC

ReturnSymmetry ==
    Permutations(Returns) \cup Permutations(Lines) \cup Permutations(Requests)

=============================================================================
