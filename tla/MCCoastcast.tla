----------------------------- MODULE MCCoastcast -----------------------------
(****************************************************************************)
(* Coastcast on small instances.                                            *)
(****************************************************************************)
EXTENDS Coastcast

CONSTANTS d1, d2,  \* decoders
          I, J     \* islands

\* A GUI on one island only.
MCOne == <<I>>
=============================================================================
