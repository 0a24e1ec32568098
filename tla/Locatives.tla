------------------------------ MODULE Locatives ------------------------------
(****************************************************************************)
(* Locatives (Motile/actor/locative.rkt): the capabilities by which the     *)
(* actors of one island send to each other.  A locative names an actor, an  *)
(* expiration time and a number of sends; locative/cons derives a weaker    *)
(* locative from one, so the locatives of an actor form a tree under its    *)
(* primal locative.  A derived locative has its own sends count, taken out  *)
(* of its superior's, or shares the count of a superior (sends = #f).       *)
(*                                                                          *)
(* Actors are Racket threads.  The calls they make are interleaved step by  *)
(* step: the semaphore ATOMIC, the checks, the change of the count, the     *)
(* release of ATOMIC and the thread-send are steps of their own.            *)
(****************************************************************************)
EXTENDS Integers, FiniteSets

CONSTANTS
    Actors,       \* the actors of the island; each is one thread
    Locatives,    \* identities of locatives
    Targets,      \* the actors whose locatives are followed
    Primal,       \* the primal locative of each (locative/unrestricted/new)
    Inf,          \* +inf.0
    None,         \* #f
    MaxNow,       \* bound on the clock
    ExpiresArgs,  \* the expires arguments callers pass to locative/cons
    SendsArgs,    \* the sends arguments callers pass to locative/cons
    SendersArgs   \* the senders/intra arguments: None is #t, a set is a
                  \* predicate that holds of the actors of the set

ASSUME ConstantsAssumption ==
    /\ IsFiniteSet(Actors)
    /\ Inf \notin Nat
    /\ None \notin Nat \cup Actors \cup Locatives
    /\ Inf # None
    /\ Targets \subseteq Actors
    /\ Primal \in [Targets -> Locatives]
    /\ \A a, b \in Targets : Primal[a] = Primal[b] => a = b
    /\ MaxNow \in Nat
    /\ ExpiresArgs \subseteq Nat \cup {Inf, None}
    /\ SendsArgs \subseteq (Nat \ {0}) \cup {Inf, None}
    /\ SendersArgs \subseteq {None} \cup SUBSET Actors

VARIABLES
    loc,     \* the locatives made so far, by identity
    atomic,  \* the count of the semaphore ATOMIC
    now,     \* the clock, (time/now)
    alive,   \* the actors whose thread has not terminated
    pc,      \* where the thread of an actor is in its call
    call,    \* the arguments and the outcome of that call
    ledger   \* history: what became of the sends of each finite count

vars == <<loc, atomic, now, alive, pc, call, ledger>>

-----------------------------------------------------------------------------
(* Types.  "prior" links never change once a locative is made, so a walk    *)
(* along them is given by two derived fields: "superiors", every locative   *)
(* above this one, and "counter", the locative whose sends count it uses.   *)

Deadline == Nat \cup {Inf, None}
Count    == Nat \cup {Inf, None}

Locative ==
    [actor     : Actors,
     expires   : Deadline,
     sends     : Count,
     senders   : SUBSET Actors,   \* the actors the predicates admit
     predicate : BOOLEAN,         \* senders/intra is no longer ANYONE
     revoked   : BOOLEAN,
     prior     : Locatives \cup {None},
     superiors : SUBSET Locatives,
     counter   : Locatives]

Account ==
    [granted : Count, spent : Nat, lent : Nat, delivered : Nat, lost : Nat]

Labels == {"idle", "enter", "leave", "deliver", "raised",
           "sendRevoked", "sendExpires", "sendBudget", "sendCharge",
           "consExpires", "consRevoked", "consBudget", "consDerive"}

Call ==
    [op      : {"none", "send", "cons"},
     x       : Locatives \cup {None},
     expires : Deadline,
     sends   : Count,
     senders : {None} \cup SUBSET Actors,
     began   : Nat,       \* history: the clock when ATOMIC was taken
     clean   : BOOLEAN,   \* history: nothing above x was revoked then
     ok      : BOOLEAN]

NoCall == [op |-> "none", x |-> None, expires |-> None, sends |-> None,
           senders |-> None, began |-> 0, clean |-> FALSE, ok |-> FALSE]

Made == DOMAIN loc

\* The labels at which a thread is between start-atomic and end-atomic.
CriticalLabels == Labels \ {"idle", "enter", "deliver", "raised"}

InAtomic(t) == pc[t] \in CriticalLabels

-----------------------------------------------------------------------------
(* The questions a locative answers.                                        *)

\* e <= f for two times or two counts, neither of them #f.
Leq(e, f) == f = Inf \/ (e # Inf /\ e <= f)

\* locative/unexpired?, of an expires field that is not #f.
Unexpired(x) == loc[x].expires = Inf \/ now < loc[x].expires

\* locative/revoked?: the locative or a superior of it is revoked.
IsRevoked(x) == \E y \in {x} \cup loc[x].superiors : loc[y].revoked

\* A variant that looks at the locative's own count, #f when it is shared.
IsPositive_Unchecked(x) == TRUE

\* locative/sends/positive?
IsPositive(x) == loc[loc[x].counter].sends # 0

\* locative/send?.  A restriction makes senders/intra a Racket procedure of
\* one argument, which motile/call applies to a continuation, the actor and a
\* global environment: the arity exception is caught and the answer is #f.
SenderAllowed(x, a) == ~loc[x].predicate

\* locative/expires/restrict?, when it does not raise.
MayExpireAt_Any(x, e) == TRUE
MayExpireAt(x, e) == e = None \/ Leq(e, loc[x].expires)

\* locative/sends/restrict?, when it does not raise.
MayTake_Any(x, n) == TRUE
MayTake(x, n) == n = None \/ Leq(n, loc[x].sends)

\* Comparing a number with #f raises.
RaisesOnExpires(x, e) == e # None /\ loc[x].expires = None

\* locative/sends/restrict? recurs with one argument where it takes two.
RaisesOnSends(x, n) == n # None /\ loc[x].sends = None

-----------------------------------------------------------------------------
(* Changes of the sends counts, each with the history of the count.         *)

Finite(x) == ledger[x].granted \in Nat

\* locative/sends/--!: an exhausted count stays at 0.
Charge(x) ==
    LET c == loc[x].counter IN
    /\ loc' = IF loc[c].sends \in Nat \ {0}
              THEN [loc EXCEPT ![c].sends = @ - 1] ELSE loc
    /\ ledger' = IF Finite(c) THEN [ledger EXCEPT ![c].spent = @ + 1]
                 ELSE ledger

\* A variant of Rest that leaves the superior's count as it was.
Rest_Undeducted(x, n) == loc[x].sends

\* locative/sends/restrict!: what the count of x is after n of it is taken.
Rest(x, n) ==
    IF n # None /\ loc[x].sends \in Nat THEN loc[x].sends - n
    ELSE loc[x].sends

\* The locative y that locative/cons/any builds from x.
Derived(x, y, c) ==
    [actor     |-> loc[x].actor,
     expires   |-> c.expires,
     sends     |-> c.sends,
     senders   |-> IF c.senders = None THEN loc[x].senders
                   ELSE loc[x].senders \cap c.senders,
     predicate |-> loc[x].predicate \/ c.senders # None,
     revoked   |-> FALSE,
     prior     |-> x,
     superiors |-> {x} \cup loc[x].superiors,
     counter   |-> IF c.sends = None THEN loc[x].counter ELSE y]

NewAccount(n) == [granted |-> n, spent |-> 0, lent |-> 0,
                  delivered |-> 0, lost |-> 0]

-----------------------------------------------------------------------------
Unrestricted(a) ==
    [actor |-> a, expires |-> Inf, sends |-> Inf, senders |-> Actors,
     predicate |-> FALSE, revoked |-> FALSE, prior |-> None,
     superiors |-> {}, counter |-> Primal[a]]

PrimalOwner(x) == CHOOSE a \in Targets : Primal[a] = x

PrimalLocatives == {Primal[a] : a \in Targets}

Init ==
    /\ loc = [x \in PrimalLocatives |-> Unrestricted(PrimalOwner(x))]
    /\ ledger = [x \in PrimalLocatives |-> NewAccount(Inf)]
    /\ atomic = 1
    /\ now = 0
    /\ alive = Actors
    /\ pc = [t \in Actors |-> "idle"]
    /\ call = [t \in Actors |-> NoCall]

Idle(t) == t \in alive /\ pc[t] = "idle"

Goto(t, label) == pc' = [pc EXCEPT ![t] = label]

\* The call returns: its arguments and outcome are forgotten.
Return(t) == Goto(t, "idle") /\ call' = [call EXCEPT ![t] = NoCall]

\* An actor calls (locative/send x message).
LocativeSend(t, x) ==
    /\ Idle(t)
    /\ Goto(t, "enter")
    /\ call' = [call EXCEPT ![t] = [NoCall EXCEPT !.op = "send", !.x = x]]
    /\ UNCHANGED <<loc, atomic, now, alive, ledger>>

\* Threads whose pending call may still take an identity.
Deriving == {t \in Actors : call[t].op = "cons"}

\* An actor calls (locative/cons/any x e n q #t).  Bound: Locatives has an
\* identity left for every call that is under way.
LocativeCons(t, x, e, n, q) ==
    /\ Idle(t)
    /\ Cardinality(Deriving) < Cardinality(Locatives \ Made)
    /\ Goto(t, "enter")
    /\ call' = [call EXCEPT ![t] =
                  [NoCall EXCEPT !.op = "cons", !.x = x, !.expires = e,
                                 !.sends = n, !.senders = q]]
    /\ UNCHANGED <<loc, atomic, now, alive, ledger>>

\* A variant that enters without waiting for the semaphore.
StartAtomic_NoWait(t) ==
    /\ pc[t] = "enter"
    /\ call' = [call EXCEPT ![t].began = now,
                            ![t].clean = ~IsRevoked(call[t].x)]
    /\ Goto(t, IF call[t].op = "send" THEN "sendRevoked" ELSE "consExpires")
    /\ UNCHANGED <<loc, atomic, now, alive, ledger>>

\* (start-atomic): semaphore-wait on ATOMIC.
StartAtomic(t) ==
    /\ pc[t] = "enter"
    /\ atomic > 0
    /\ atomic' = atomic - 1
    /\ call' = [call EXCEPT ![t].began = now,
                            ![t].clean = ~IsRevoked(call[t].x)]
    /\ Goto(t, IF call[t].op = "send" THEN "sendRevoked" ELSE "consExpires")
    /\ UNCHANGED <<loc, now, alive, ledger>>

\* A variant that leaves a refused call without releasing the semaphore.
EndAtomic_OnlyIfOk(t) ==
    /\ pc[t] = "leave"
    /\ atomic' = IF call[t].ok THEN atomic + 1 ELSE atomic
    /\ IF call[t].op = "send" /\ call[t].ok
       THEN Goto(t, "deliver") /\ UNCHANGED call
       ELSE Return(t)
    /\ UNCHANGED <<loc, now, alive, ledger>>

\* (end-atomic): semaphore-post; an accepted message is still to be sent.
EndAtomic(t) ==
    /\ pc[t] = "leave"
    /\ atomic' = atomic + 1
    /\ IF call[t].op = "send" /\ call[t].ok
       THEN Goto(t, "deliver") /\ UNCHANGED call
       ELSE Return(t)
    /\ UNCHANGED <<loc, now, alive, ledger>>

-----------------------------------------------------------------------------
(* locative/sendable?, conjunct by conjunct, and the change of the count.   *)

\* locative/revoked? caches what it found above x by calling locative/revoke!,
\* which obeys only the thread of x's actor.
CacheRevoked(t, x) ==
    loc' = IF IsRevoked(x) /\ t = loc[x].actor
           THEN [loc EXCEPT ![x].revoked = TRUE] ELSE loc

\* A variant that looks at the locative's own flag only.
SendRevoked_OwnFlag(t) ==
    /\ pc[t] = "sendRevoked"
    /\ Goto(t, IF loc[call[t].x].revoked THEN "leave" ELSE "sendExpires")
    /\ UNCHANGED <<loc, atomic, now, alive, call, ledger>>

\* (not (locative/revoked? x))
SendRevoked(t) ==
    LET x == call[t].x IN
    /\ pc[t] = "sendRevoked"
    /\ CacheRevoked(t, x)
    /\ Goto(t, IF IsRevoked(x) THEN "leave" ELSE "sendExpires")
    /\ UNCHANGED <<atomic, now, alive, call, ledger>>

\* (locative/unexpired? x), which raises when x expires at #f: end-atomic is
\* not reached then.
SendExpires(t) ==
    LET x == call[t].x IN
    /\ pc[t] = "sendExpires"
    /\ \/ loc[x].expires = None /\ Goto(t, "raised")
       \/ /\ loc[x].expires # None
          /\ Goto(t, IF Unexpired(x) THEN "sendBudget" ELSE "leave")
    /\ UNCHANGED <<loc, atomic, now, alive, call, ledger>>

\* (locative/sends/positive? x) and (locative/send? x (this/actor))
SendBudget(t) ==
    LET x == call[t].x IN
    /\ pc[t] = "sendBudget"
    /\ Goto(t, IF IsPositive(x) /\ SenderAllowed(x, t) THEN "sendCharge" ELSE "leave")
    /\ UNCHANGED <<loc, atomic, now, alive, call, ledger>>

\* (locative/sends/--! x) #t
SendCharge(t) ==
    /\ pc[t] = "sendCharge"
    /\ Charge(call[t].x)
    /\ call' = [call EXCEPT ![t].ok = TRUE]
    /\ Goto(t, "leave")
    /\ UNCHANGED <<atomic, now, alive>>

\* (thread-send (actor/thread (locative/actor x)) message #f): the message
\* reaches the mailbox of a live thread and is dropped at a dead one.
Deliver(t) ==
    LET x == call[t].x
        c == loc[x].counter
    IN
    /\ pc[t] = "deliver"
    /\ ledger' = IF ~Finite(c) THEN ledger
                 ELSE IF loc[x].actor \in alive
                      THEN [ledger EXCEPT ![c].delivered = @ + 1]
                      ELSE [ledger EXCEPT ![c].lost = @ + 1]
    /\ Return(t)
    /\ UNCHANGED <<loc, atomic, now, alive>>

-----------------------------------------------------------------------------
(* locative/cons/any, between start-atomic and end-atomic.                  *)

\* (locative/expires/restrict? x expires), which raises when a number is
\* compared with an expires field of #f.
ConsExpires(t) ==
    LET x == call[t].x
        e == call[t].expires
    IN
    /\ pc[t] = "consExpires"
    /\ \/ RaisesOnExpires(x, e) /\ Goto(t, "raised")
       \/ /\ ~RaisesOnExpires(x, e)
          /\ Goto(t, IF MayExpireAt(x, e) THEN "consRevoked" ELSE "leave")
    /\ UNCHANGED <<loc, atomic, now, alive, call, ledger>>

\* (not (locative/revoked? x))
ConsRevoked(t) ==
    LET x == call[t].x IN
    /\ pc[t] = "consRevoked"
    /\ CacheRevoked(t, x)
    /\ Goto(t, IF IsRevoked(x) THEN "leave" ELSE "consBudget")
    /\ UNCHANGED <<atomic, now, alive, call, ledger>>

\* (locative/sends/positive? x), then (locative/sends/restrict? x sends) unless
\* sends is #f.
ConsBudget(t) ==
    LET x == call[t].x
        n == call[t].sends
    IN
    /\ pc[t] = "consBudget"
    /\ \/ /\ IsPositive(x)
          /\ RaisesOnSends(x, n)
          /\ Goto(t, "raised")
       \/ /\ IsPositive(x) => ~RaisesOnSends(x, n)
          /\ Goto(t, IF IsPositive(x) /\ MayTake(x, n)
                     THEN "consDerive" ELSE "leave")
    /\ UNCHANGED <<loc, atomic, now, alive, call, ledger>>

\* locative/sends/restrict! and the construction of the derived locative y.
ConsDerive(t, y) ==
    LET x == call[t].x
        n == call[t].sends
    IN
    /\ pc[t] = "consDerive"
    /\ y \notin Made
    /\ loc' = [z \in Made \cup {y} |->
                 IF z = y THEN Derived(x, y, call[t])
                 ELSE IF z = x THEN [loc[x] EXCEPT !.sends = Rest(x, n)]
                 ELSE loc[z]]
    /\ ledger' = [z \in Made \cup {y} |->
                    IF z = y THEN NewAccount(n)
                    ELSE IF z = x /\ n # None /\ Finite(x)
                         THEN [ledger[x] EXCEPT !.lent = @ + n]
                    ELSE ledger[z]]
    /\ Goto(t, "leave")
    /\ UNCHANGED <<atomic, now, alive, call>>

-----------------------------------------------------------------------------
(* What happens outside ATOMIC.                                             *)

\* locative/revoke!.  Its macros read slots 4 and 2 of the locative as if it
\* were an actor, so only the thread of the locative's actor passes the test;
\* for every other thread the call changes nothing.
Revoke(t, x) ==
    /\ Idle(t)
    /\ t = loc[x].actor
    /\ loc' = [loc EXCEPT ![x].revoked = TRUE]
    /\ UNCHANGED <<atomic, now, alive, pc, call, ledger>>

\* An exception left the call.  It ends the thread unless a caller handles it;
\* nobody posts ATOMIC either way.
Unwind(t) ==
    /\ pc[t] = "raised"
    /\ Return(t)
    /\ alive' \in {alive, alive \ {t}}
    /\ UNCHANGED <<loc, atomic, now, ledger>>

\* The actor's thunk returns and its thread terminates.
Exit(t) ==
    /\ Idle(t)
    /\ alive' = alive \ {t}
    /\ UNCHANGED <<loc, atomic, now, pc, call, ledger>>

\* Time passes.  Bound: MaxNow.
Tick ==
    /\ now < MaxNow
    /\ now' = now + 1
    /\ UNCHANGED <<loc, atomic, alive, pc, call, ledger>>

\* A step of a call under way, other than entering ATOMIC.
Step(t) ==
    \/ SendRevoked(t) \/ SendExpires(t) \/ SendBudget(t) \/ SendCharge(t)
    \/ ConsExpires(t) \/ ConsRevoked(t) \/ ConsBudget(t)
    \/ \E y \in Locatives : ConsDerive(t, y)
    \/ EndAtomic(t) \/ Deliver(t) \/ Unwind(t)

\* A step an actor is free to take or not.
Act(t) ==
    \/ \E x \in Made : LocativeSend(t, x) \/ Revoke(t, x)
    \/ \E x \in Made, e \in ExpiresArgs, n \in SendsArgs, q \in SendersArgs :
          LocativeCons(t, x, e, n, q)
    \/ Exit(t)

Next ==
    \/ \E t \in Actors : Act(t) \/ StartAtomic(t) \/ Step(t)
    \/ Tick

Spec == Init /\ [][Next]_vars

\* Racket schedules every runnable thread, and its semaphores are fair: a
\* thread blocked on a semaphore that is posted again and again is unblocked.
Fairness == \A t \in Actors : WF_vars(Step(t)) /\ SF_vars(StartAtomic(t))

FairSpec == Spec /\ Fairness

-----------------------------------------------------------------------------
(* Properties.                                                              *)

\* Type correctness; a sends count never goes below zero and ATOMIC is binary.
TypeOK ==
    /\ Made \subseteq Locatives
    /\ loc \in [Made -> Locative]
    /\ ledger \in [Made -> Account]
    /\ atomic \in {0, 1}
    /\ now \in Nat
    /\ alive \subseteq Actors
    /\ pc \in [Actors -> Labels]
    /\ call \in [Actors -> Call]
    /\ \A t \in Actors : pc[t] # "idle" => call[t].x \in Made

\* Accepted messages that are not yet thread-sent, by count.
InFlight(c) ==
    {t \in Actors : /\ pc[t] \in {"leave", "deliver"}
                    /\ call[t].op = "send" /\ call[t].ok
                    /\ loc[call[t].x].counter = c}

\* Every send granted to a finite count is accounted for: it is still in the
\* count, was lent to a derived locative, reached a mailbox, was dropped at a
\* dead thread, or is on its way (locative/send, locative/cons/any).
BudgetConserved ==
    \A c \in Made : Finite(c) =>
        /\ loc[c].sends \in Nat
        /\ ledger[c].granted =
             loc[c].sends + ledger[c].lent + ledger[c].delivered
             + ledger[c].lost + Cardinality(InFlight(c))

\* x and every locative derived from it, and one element for each send that
\* was paid for by the count of one of them.
Subtree(x) == {y \in Made : y = x \/ x \in loc[y].superiors}

Carried(x) == UNION {{y} \X (1 .. ledger[y].spent) : y \in Subtree(x)}

\* All the messages carried by a finite locative and by everything derived
\* from it, together, are no more than the sends that locative was granted
\* (locative/send and locative/cons/any on the whole tree).
SubtreeWithinGrant ==
    \A x \in Made : Finite(x) => Cardinality(Carried(x)) <= ledger[x].granted

\* A derived locative grants no more than any locative above it: it names the
\* same actor, outlives none of them, admits no other senders; and the derived
\* fields are those a walk along the prior links finds (locative/cons/any).
NoLater(e, f) == e = None \/ (f # None /\ Leq(e, f))

Attenuation ==
    \A x \in Made :
        /\ loc[x].prior = None =>
              loc[x].superiors = {} /\ loc[x].counter = x
        /\ loc[x].prior # None =>
              /\ loc[x].prior \in Made
              /\ loc[x].superiors =
                    {loc[x].prior} \cup loc[loc[x].prior].superiors
        /\ \A y \in loc[x].superiors :
              /\ y \in Made
              /\ loc[x].actor = loc[y].actor
              /\ NoLater(loc[x].expires, loc[y].expires)
              /\ loc[x].senders \subseteq loc[y].senders

\* A message is accepted only by a call that began when the locative and all of
\* its superiors were unrevoked and unexpired, although locative/send looks at
\* the expiration of the locative alone.
AcceptedWhileLive ==
    \A t \in Actors : call[t].op = "send" /\ call[t].ok =>
        /\ call[t].clean
        /\ \A y \in {call[t].x} \cup loc[call[t].x].superiors :
              loc[y].expires = Inf \/ call[t].began < loc[y].expires

\* Only a thread inside locative/send or locative/cons holds ATOMIC.
AtomicReleased == atomic = 1 \/ \E t \in Actors : InAtomic(t)

\* Every locative/send and locative/cons/any an actor begins returns.
CallsReturn == \A t \in Actors : pc[t] = "enter" ~> pc[t] = "idle"

-----------------------------------------------------------------------------
(* The counts of the locatives as accounts: see SendAccounts.               *)

Counts == {c \in Made : loc[c].sends # None}

Accounts == INSTANCE SendAccounts WITH
    Account <- Locatives,
    Amounts <- SendsArgs \ {None},
    Opened  <- PrimalLocatives,
    balance <- [c \in Counts |-> loc[c].sends],
    spent   <- [c \in Counts |-> ledger[c].spent]

\* locative/send and locative/cons/any change the counts as the atomic
\* accounts of SendAccounts do.
ImplementsAccounts == Accounts!Spec
=============================================================================
