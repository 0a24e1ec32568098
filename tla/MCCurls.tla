------------------------------- MODULE MCCurls -------------------------------
(****************************************************************************)
(* Curls on small instances.                                                *)
(****************************************************************************)
EXTENDS Curls

CONSTANTS a, b,    \* actors
          cx, cz   \* a locative that expires, one that never does

MCExpires == [l \in Locatives |-> IF l = cx THEN 2 ELSE Inf]
=============================================================================
