----------------------------- MODULE PromiseCell -----------------------------
(****************************************************************************)
(* What promise/new and promise/wait promise: a cell that is resolved once, *)
(* with a value or with its ruin, and waiters that all see that resolution  *)
(* unless they lose patience.                                               *)
(****************************************************************************)
CONSTANTS
    Waiters,  \* the actors that wait on the promise
    Values,   \* what a promise may be kept with
    Failure,  \* what a waiter asks to be given instead
    None      \* no outcome, no answer

VARIABLES
    outcome,  \* None, then the value kept or Failure
    answer    \* what promise/wait returned to each waiter

vars == <<outcome, answer>>

Init ==
    /\ outcome = None
    /\ answer = [w \in Waiters |-> None]

Resolve ==
    /\ outcome = None
    /\ outcome' \in Values \cup {Failure}
    /\ UNCHANGED answer

Answer(w) ==
    /\ answer[w] = None
    /\ \E r \in {outcome, Failure} \ {None} : answer' = [answer EXCEPT ![w] = r]
    /\ UNCHANGED outcome

Next == Resolve \/ \E w \in Waiters : Answer(w)

Spec == Init /\ [][Next]_vars
=============================================================================
