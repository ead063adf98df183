------------------------------- MODULE MCTftp -------------------------------
(* Instances of Tftp for TLC. *)
EXTENDS Tftp, TLC

CONSTANTS f1, f2, s1, s2, p1, p2

MCSize == [f \in Files |-> IF f = f1 THEN 3 ELSE 1]

=============================================================================
