------------------------------- MODULE MCRoot -------------------------------
(****************************************************************************)
(* Root on small instances.                                                 *)
(****************************************************************************)
EXTENDS Root

CONSTANTS s1, s2, s3,      \* spawn requests
          m1, m2, m3, m4   \* other messages

\* Two messages from other islands and one from here for the first actor, and
\* one that is no spawn request for the public CURL.
MCTo == [m \in Messages |-> IF m = m4 THEN Public ELSE s1]
=============================================================================
