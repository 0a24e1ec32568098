----------------------------- MODULE MCPromises -----------------------------
(****************************************************************************)
(* Promises on small instances.                                             *)
(****************************************************************************)
EXTENDS Promises

CONSTANTS s1, s2,  \* senders
          w1, w2,  \* waiters
          v1, v2,  \* values
          bad      \* a message that is no resolution
=============================================================================
