------------------------------ MODULE MCDiagram ------------------------------
(****************************************************************************)
(* Diagram on small instances.                                              *)
(****************************************************************************)
EXTENDS Diagram

CONSTANTS a1, a2,  \* actors
          i1       \* another island

\* Both actors send to the other island, and one to a promise too.
MCRace == {<<a1, i1>>, <<a2, i1>>, <<a1, Promissary>>}
=============================================================================
