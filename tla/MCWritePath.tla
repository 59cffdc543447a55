---------------------------- MODULE MCWritePath ----------------------------
(* Small instances of WritePath for TLC.                                     *)
EXTENDS WritePath, TLC

CONSTANTS p1, m1, m2

(* One client with a manager of its own, and clients that share another.     *)
OneManager == [p \in Writes |-> m1]
TwoManagers == [p \in Writes |-> IF p = p1 THEN m1 ELSE m2]

(* The writes that share a manager are interchangeable.                      *)
WriteSymmetry == Permutations(Writes \ {p1})
=============================================================================
