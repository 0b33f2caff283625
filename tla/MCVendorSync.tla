---- MODULE MCVendorSync ----
EXTENDS VendorClaims, TLC
MCRules == [p \in Products |-> [buffer |-> 2, cap |-> 1, zeroAt |-> 0, minChange |-> 0, increases |-> TRUE]]
Symmetry == Permutations(Products)
====
