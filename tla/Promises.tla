------------------------------ MODULE Promises ------------------------------
(****************************************************************************)
(* Promises (Motile/actor/promise.rkt): a write-once cell resolved by a     *)
(* nanny actor.  promise/new starts the nanny and returns a CURL on a       *)
(* locative of the nanny that allows one send within the lifespan of the    *)
(* promise; the nanny keeps the promise with the message it receives, or    *)
(* ruins it when its own timer runs out.  The semaphore of the promise is a *)
(* turnstile that waiters pass one at a time.                               *)
(*                                                                          *)
(* The behaviours start when promise/new returns.  The check of a send and  *)
(* the change of the sends count are one step here: see ImplementsAccounts  *)
(* in Locatives.  The thread-send that follows is a step of its own.        *)
(****************************************************************************)
EXTENDS Integers, Sequences, FiniteSets

CONSTANTS
    Senders,    \* the actors that hold the CURL, each sends once
    Waiters,    \* the actors that wait on the promise, each once
    Values,     \* well-formed resolutions
    Malformed,  \* messages that are not deliveries
    Failure,    \* the failure argument of promise/wait
    None,       \* #f
    Lifespan,   \* the argument of promise/new
    Patience,   \* the patience arguments of promise/wait
    StartBy,    \* bound on the time the nanny's thread takes to start
    MaxNow      \* bound on the clock

ASSUME PromisesAssumption ==
    /\ IsFiniteSet(Waiters)
    /\ Values \cap Malformed = {}
    /\ Failure \notin Values /\ None \notin Values /\ Failure # None
    /\ Lifespan \in Nat \ {0} /\ StartBy \in Nat /\ MaxNow \in Nat
    /\ Patience \subseteq Nat \ {0}
    /\ StartBy + Lifespan <= MaxNow

VARIABLES
    now,        \* the clock, 0 when the promise is made
    sends,      \* the sends left in the resolver's locative
    mailbox,    \* the mailbox of the nanny's thread
    nanny,      \* where the nanny is
    timer,      \* when the nanny's sync/timeout runs out
    letter,     \* the contents of the message the nanny received
    value, kept, ruined, semaphore,   \* the fields of the promise
    sender,     \* each sender's call of curl/send
    waiter      \* each waiter's call of promise/wait

vars == <<now, sends, mailbox, nanny, timer, letter, value, kept, ruined,
          semaphore, sender, waiter>>

promise == <<value, kept, ruined, semaphore>>
nannys  == <<nanny, timer, letter>>

Messages == Values \cup Malformed

-----------------------------------------------------------------------------
Init ==
    /\ now = 0
    /\ sends = 1
    /\ mailbox = <<>>
    /\ nanny = "start" /\ timer = 0 /\ letter = None
    /\ value = None /\ kept = FALSE /\ ruined = FALSE /\ semaphore = 0
    /\ sender = [s \in Senders |->
                   [pc |-> "idle", message |-> None, ok |-> FALSE, at |-> 0]]
    /\ waiter = [w \in Waiters |-> [pc |-> "idle", until |-> 0, result |-> None]]

\* A variant that does not look at the sends count.
Sendable_Unlimited == now < Lifespan

\* The resolver's locative expires when the lifespan of the promise is over,
\* counted from promise/new.
Sendable == now < Lifespan /\ sends > 0

\* (curl/send c m): locative/send checks and pays for the send.
Accept(s, m) ==
    /\ sender[s].pc = "idle"
    /\ Sendable
    /\ sends' = sends - 1
    /\ sender' = [sender EXCEPT ![s].pc = "accepted", ![s].message = m]
    /\ UNCHANGED <<now, mailbox, nannys, promise, waiter>>

\* (curl/send c m) returns #f: the locative has expired or is spent.
Refuse(s) ==
    /\ sender[s].pc = "idle"
    /\ ~Sendable
    /\ sender' = [sender EXCEPT ![s].pc = "done", ![s].at = now]
    /\ UNCHANGED <<now, sends, mailbox, nannys, promise, waiter>>

\* The thread-send of locative/send, to a thread that may have terminated.
ThreadSend(s) ==
    /\ sender[s].pc = "accepted"
    /\ mailbox' = IF nanny = "dead" THEN mailbox
                  ELSE Append(mailbox, sender[s].message)
    /\ sender' = [sender EXCEPT ![s].pc = "done", ![s].ok = nanny # "dead",
                                ![s].at = now]
    /\ UNCHANGED <<now, sends, nannys, promise, waiter>>

-----------------------------------------------------------------------------
(* nanny/thunk, run by the nanny's thread once it is jumpstarted.           *)

\* A variant whose timer is one tick short.
NannyStart_Early ==
    /\ nanny = "start"
    /\ nanny' = "wait"
    /\ timer' = now + Lifespan - 1
    /\ UNCHANGED <<now, sends, mailbox, letter, promise, sender, waiter>>

NannyStart ==
    /\ nanny = "start"
    /\ nanny' = "wait"
    /\ timer' = now + Lifespan
    /\ UNCHANGED <<now, sends, mailbox, letter, promise, sender, waiter>>

\* sync/timeout finds a message; the test of its structure.
NannyReceive ==
    /\ nanny = "wait"
    /\ mailbox # <<>>
    /\ mailbox' = Tail(mailbox)
    /\ letter' = Head(mailbox)
    /\ nanny' = IF Head(mailbox) \in Values THEN "keep" ELSE "ruin"
    /\ UNCHANGED <<now, sends, timer, promise, sender, waiter>>

\* A variant that forgets to ruin the promise.
NannyTimeout_Forgets ==
    /\ nanny = "wait"
    /\ mailbox = <<>>
    /\ now >= timer
    /\ nanny' = "dead"
    /\ UNCHANGED <<now, sends, mailbox, timer, letter, promise, sender, waiter>>

\* sync/timeout returns #f.
NannyTimeout ==
    /\ nanny = "wait"
    /\ mailbox = <<>>
    /\ now >= timer
    /\ nanny' = IF kept THEN "dead" ELSE "ruin"
    /\ UNCHANGED <<now, sends, mailbox, timer, letter, promise, sender, waiter>>

\* A variant of promise/keep! that raises the flag before the value is there.
NannyKeep_FlagFirst ==
    \/ /\ nanny = "keep" /\ nanny' = "flag"
       /\ kept' = TRUE
       /\ UNCHANGED <<now, sends, mailbox, timer, letter, value, ruined,
                      semaphore, sender, waiter>>
    \/ /\ nanny = "flag" /\ nanny' = "post"
       /\ value' = letter
       /\ UNCHANGED <<now, sends, mailbox, timer, letter, kept, ruined,
                      semaphore, sender, waiter>>

\* The first two steps of promise/keep!: the value, then the flag.
NannyKeep ==
    \/ /\ nanny = "keep" /\ nanny' = "flag"
       /\ value' = letter
       /\ UNCHANGED <<now, sends, mailbox, timer, letter, kept, ruined,
                      semaphore, sender, waiter>>
    \/ /\ nanny = "flag" /\ nanny' = "post"
       /\ kept' = TRUE
       /\ UNCHANGED <<now, sends, mailbox, timer, letter, value, ruined,
                      semaphore, sender, waiter>>

\* A variant of promise/ruin! by a nanny that goes on waiting.
NannyRuin_GoesOn ==
    /\ nanny = "ruin" /\ nanny' = "wait"
    /\ ruined' = TRUE
    /\ UNCHANGED <<now, sends, mailbox, timer, letter, value, kept, semaphore,
                   sender, waiter>>

\* The first step of promise/ruin!.
NannyRuin ==
    /\ nanny = "ruin" /\ nanny' = "post"
    /\ ruined' = TRUE
    /\ UNCHANGED <<now, sends, mailbox, timer, letter, value, kept, semaphore,
                   sender, waiter>>

\* The last step of promise/keep! and of promise/ruin!; the thunk returns.
NannyPost ==
    /\ nanny = "post" /\ nanny' = "dead"
    /\ semaphore' = semaphore + 1
    /\ UNCHANGED <<now, sends, mailbox, timer, letter, value, kept, ruined,
                   sender, waiter>>

-----------------------------------------------------------------------------
(* promise/wait.                                                            *)

Answered(w, r) == [waiter EXCEPT ![w].pc = "done", ![w].result = r]

elsewhere == <<now, sends, mailbox, nannys, value, kept, ruined, sender>>

\* The clauses of promise/wait that need no waiting, or the start of the
\* sync/timeout.  Bound: a wait ends within MaxNow.
Wait(w, patience) ==
    /\ waiter[w].pc = "idle"
    /\ now + patience <= MaxNow
    /\ waiter' =
         IF kept THEN Answered(w, value)
         ELSE IF ruined THEN Answered(w, Failure)
         ELSE [waiter EXCEPT ![w].pc = "sync", ![w].until = now + patience]
    /\ UNCHANGED <<elsewhere, semaphore>>

\* sync/timeout finds the semaphore posted; peeking takes nothing.
Peek(w) ==
    /\ waiter[w].pc = "sync"
    /\ semaphore > 0
    /\ waiter' = [waiter EXCEPT ![w].pc = "take"]
    /\ UNCHANGED <<elsewhere, semaphore>>

\* sync/timeout returns #f: "We lost patience."
LosePatience(w) ==
    /\ waiter[w].pc = "sync"
    /\ semaphore = 0
    /\ now >= waiter[w].until
    /\ waiter' = Answered(w, Failure)
    /\ UNCHANGED <<elsewhere, semaphore>>

\* (semaphore-wait (promise/semaphore p)), which has no timeout.
Take(w) ==
    /\ waiter[w].pc = "take"
    /\ semaphore > 0
    /\ semaphore' = semaphore - 1
    /\ waiter' = [waiter EXCEPT ![w].pc = "read"]
    /\ UNCHANGED elsewhere

Read(w) ==
    /\ waiter[w].pc = "read"
    /\ waiter' = [waiter EXCEPT ![w].pc = "give",
                                ![w].result = IF ~ruined /\ kept THEN value
                                              ELSE Failure]
    /\ UNCHANGED <<elsewhere, semaphore>>

\* A variant that keeps the semaphore.
Give_Keeps(w) ==
    /\ waiter[w].pc = "give"
    /\ waiter' = [waiter EXCEPT ![w].pc = "done"]
    /\ UNCHANGED <<elsewhere, semaphore>>

\* (semaphore-post (promise/semaphore p)), for the next waiter.
Give(w) ==
    /\ waiter[w].pc = "give"
    /\ semaphore' = semaphore + 1
    /\ waiter' = [waiter EXCEPT ![w].pc = "done"]
    /\ UNCHANGED elsewhere

-----------------------------------------------------------------------------
\* Time passes.  Bounds: MaxNow, and StartBy for the nanny's thread to start.
Tick ==
    /\ now < MaxNow
    /\ nanny = "start" => now < StartBy
    /\ now' = now + 1
    /\ UNCHANGED <<sends, mailbox, nannys, promise, sender, waiter>>

NannyStep ==
    \/ NannyStart \/ NannyReceive \/ NannyTimeout
    \/ NannyKeep \/ NannyRuin \/ NannyPost

WaiterStep(w) == Peek(w) \/ LosePatience(w) \/ Read(w) \/ Give(w)

Next ==
    \/ NannyStep
    \/ \E s \in Senders : \/ \E m \in Messages : Accept(s, m)
                          \/ Refuse(s) \/ ThreadSend(s)
    \/ \E w \in Waiters : \/ \E patience \in Patience : Wait(w, patience)
                          \/ Take(w) \/ WaiterStep(w)
    \/ Tick

Spec == Init /\ [][Next]_vars

\* Time passes and Racket schedules every runnable thread; its semaphores are
\* fair to the threads blocked on them.
Fairness ==
    /\ WF_vars(Tick) /\ WF_vars(NannyStep)
    /\ \A s \in Senders : WF_vars(ThreadSend(s))
    /\ \A w \in Waiters : WF_vars(WaiterStep(w)) /\ SF_vars(Take(w))

FairSpec == Spec /\ Fairness

-----------------------------------------------------------------------------
(* Properties.                                                              *)

\* Type correctness.
TypeOK ==
    /\ now \in 0 .. MaxNow /\ timer \in Nat
    /\ sends \in {0, 1} /\ semaphore \in {0, 1}
    /\ mailbox \in Seq(Messages)
    /\ nanny \in {"start", "wait", "keep", "flag", "ruin", "post", "dead"}
    /\ letter \in Messages \cup {None}
    /\ value \in Values \cup {None} /\ kept \in BOOLEAN /\ ruined \in BOOLEAN
    /\ sender \in [Senders -> [pc : {"idle", "accepted", "done"}, at : Nat,
                               message : Messages \cup {None}, ok : BOOLEAN]]
    /\ waiter \in [Waiters -> [pc : {"idle", "sync", "take", "read", "give", "done"},
                               until : Nat, result : Values \cup {Failure, None}]]

\* One resolver at most is let through, and a kept promise holds its message
\* (the locative made by promise/new allows one send).
OneResolver ==
    /\ \A s, u \in Senders :
          sender[s].message # None /\ sender[u].message # None => s = u
    /\ kept => \E s \in Senders : sender[s].message = value /\ value # None

\* What a waiter is told is the promise's one resolution, and it is told of a
\* failure only when the promise is ruined or its patience is over
\* (promise/wait reads the fields while the nanny writes them).
AnswersAgree ==
    \A w \in Waiters : waiter[w].pc = "done" =>
        \/ kept /\ ~ruined /\ waiter[w].result = value
        \/ waiter[w].result = Failure /\ (ruined \/ now >= waiter[w].until)

\* A well-formed resolution whose curl/send returned #t before the end of the
\* lifespan is never lost to the nanny's timer.
EarlyResolutionStands ==
    \A s \in Senders :
        sender[s].ok /\ sender[s].message \in Values /\ sender[s].at < Lifespan
            => ~ruined

\* Once the nanny has posted, the semaphore is one token that circulates
\* among the waiters.
Turnstile ==
    semaphore + Cardinality({w \in Waiters : waiter[w].pc \in {"read", "give"}})
        = IF nanny = "dead" THEN 1 ELSE 0

\* Every promise is kept or ruined in the end (the nanny's timer).
Resolved == <>(kept \/ ruined)

\* Every call of promise/wait returns, even those that went past their own
\* timeout to the untimed semaphore-wait.
WaitersReturn ==
    \A w \in Waiters : waiter[w].pc = "sync" ~> waiter[w].pc = "done"

Cell == INSTANCE PromiseCell WITH
    outcome <- IF kept THEN value ELSE IF ruined THEN Failure ELSE None,
    answer  <- [w \in Waiters |-> IF waiter[w].pc = "done"
                                  THEN waiter[w].result ELSE None]

\* The nanny, the turnstile and the waiters implement a write-once cell.
ImplementsCell == Cell!Spec
=============================================================================
