--------------------------- MODULE MCWsAdmission ---------------------------
(* Instances of WsAdmission for TLC: sessions a and b, b optionally a       *)
(* sub-agent of a.                                                          *)
EXTENDS WsAdmission
CONSTANTS a, b

NoParents == [k \in Keys |-> <<>>]
BChildOfA == [k \in Keys |-> IF k = b THEN <<a>> ELSE <<>>]
NoCap == -1
=============================================================================
