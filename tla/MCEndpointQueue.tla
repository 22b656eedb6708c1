-------------------------- MODULE MCEndpointQueue --------------------------
(* Instances of EndpointQueue for TLC: sessions a and b, b optionally a     *)
(* sub-agent of a.                                                          *)
EXTENDS EndpointQueue
CONSTANTS a, b

NoParents == [k \in Keys |-> <<>>]
BChildOfA == [k \in Keys |-> IF k = b THEN <<a>> ELSE <<>>]
Symmetry == Permutations(Keys)
NoCap == -1
=============================================================================
