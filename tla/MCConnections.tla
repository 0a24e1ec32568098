---------------------------- MODULE MCConnections ----------------------------
(****************************************************************************)
(* Connections between islands A and B.                                     *)
(****************************************************************************)
EXTENDS Connections

CONSTANTS A, B, m1, m2, m3

\* A sends m1 and m2, B sends m3.
MCFrom == [m \in Messages |-> IF m = m3 THEN B ELSE A]
=============================================================================
