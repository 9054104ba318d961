----------------------------- MODULE MCCheckout -----------------------------
EXTENDS Checkout, TLC
CONSTANTS r1, r2
Symmetry == Permutations(Request)
=============================================================================
