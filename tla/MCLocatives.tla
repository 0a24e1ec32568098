---------------------------- MODULE MCLocatives ----------------------------
(****************************************************************************)
(* Locatives, on small instances.                                           *)
(****************************************************************************)
EXTENDS Locatives, TLC

CONSTANTS a, b,        \* two actors
          pa,          \* the primal locative of a
          x1, x2, x3   \* identities for derived locatives

MCPrimal == a :> pa

Symmetry == Permutations({x1, x2, x3} \cap Locatives)
=============================================================================
