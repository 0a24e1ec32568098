-------------------------------- MODULE Curls --------------------------------
(****************************************************************************)
(* The exported CURLs of an island (Motile/actor/curl.rkt, the CURL cases   *)
(* of Motile/compile/serialize.rkt).  curl/new/any issues a CURL on a       *)
(* locative; serializing the CURL enters the locative in the table EXPORTS, *)
(* where deserialization finds it again when the CURL comes home; the       *)
(* reaper thread takes locatives that have expired out of the table.  Its   *)
(* count REAPINGS is written and never read, and is left out.               *)
(*                                                                          *)
(* Actors serialize concurrently, without a lock: the test of the locative, *)
(* the lookup in EXPORTS, the insertion and the message to the reaper are   *)
(* steps of their own.  The clock saturates at Late, when every locative    *)
(* that expires has expired.                                                *)
(****************************************************************************)
EXTENDS Integers, Sequences, FiniteSets

CONSTANTS
    Actors,     \* the actors that issue and serialize CURLs
    Locatives,  \* the locatives CURLs are issued on
    Expires,    \* when each expires: a time, or Inf
    Lifespans,  \* the optional lifespan arguments of curl/new/any
    Inf,        \* +inf.0
    None,       \* #f
    Interval,   \* the reaper's timeout
    Late        \* the last time on the clock

ASSUME CurlsAssumption ==
    /\ Inf \notin Nat /\ None \notin Locatives
    /\ Late \in Nat
    /\ Expires \in [Locatives -> (1 .. Late) \cup {Inf}]
    /\ Lifespans \subseteq Nat \ {0}
    /\ Interval \in Nat \ {0}

VARIABLES
    now,      \* the clock
    usable,   \* locatives neither exhausted, revoked, nor of a dead actor
    curls,    \* the CURLs issued here
    actor,    \* where each actor is in serializing a CURL
    exports,  \* EXPORTS
    mailbox,  \* the mailbox of the reaper's thread
    heap,     \* EXPIRATIONS: how many times a locative is in it
    reaper,   \* what the reaper does: "wait", "enroll" or "reap"
    waited,   \* how long the reaper's sync/timeout has waited
    wire,     \* history: the CURLs that have been serialized
    held      \* CURLs that came home, with the locative found for them

vars == <<now, usable, curls, actor, exports, mailbox, heap, reaper, waited,
          wire, held>>

reaping == <<heap, reaper, waited>>

Unexpired(x) == Expires[x] # Inf => now < Expires[x]

Curl == [locative : Locatives, expires : (1 .. Late) \cup {Inf}]

Idle == [pc |-> "idle", curl |-> None]

-----------------------------------------------------------------------------
Init ==
    /\ now = 0
    /\ usable = Locatives
    /\ curls = {} /\ wire = {} /\ held = {}
    /\ actor = [a \in Actors |-> Idle]
    /\ exports = {}
    /\ mailbox = <<>>
    /\ heap = [x \in Locatives |-> 0]
    /\ reaper = "wait" /\ waited = 0

\* (curl/new/any x path meta) and (curl/new/any x path meta lifespan).
NewCurl(x, deadline) ==
    /\ Unexpired(x) /\ x \in usable
    /\ deadline \in {Expires[x]} \cup {now + s : s \in Lifespans}
    /\ Expires[x] # Inf => deadline <= Expires[x]
    /\ curls' = curls \cup {[locative |-> x, expires |-> deadline]}
    /\ UNCHANGED <<now, usable, actor, exports, mailbox, reaping, wire, held>>

\* The locative is used up or revoked, or its actor's thread terminates.
Spoil(x) ==
    /\ usable' = usable \ {x}
    /\ UNCHANGED <<now, curls, actor, exports, mailbox, reaping, wire, held>>

\* motile/serialize meets a CURL: the tests of its locative.  When one fails
\* the serializer raises, and nothing of the message is sent.
Serialize(a, c) ==
    /\ actor[a] = Idle
    /\ c.locative \in usable /\ Unexpired(c.locative)
    /\ actor' = [actor EXCEPT ![a] = [pc |-> "lookup", curl |-> c]]
    /\ UNCHANGED <<now, usable, curls, exports, mailbox, reaping, wire, held>>

\* (unless (hash-ref map lid #f) ...)
Lookup(a) ==
    /\ actor[a].pc = "lookup"
    /\ actor' = [actor EXCEPT ![a].pc =
                   IF actor[a].curl.locative \in exports THEN "return" ELSE "insert"]
    /\ UNCHANGED <<now, usable, curls, exports, mailbox, reaping, wire, held>>

\* (hash-set! map lid locative)
Insert(a) ==
    /\ actor[a].pc = "insert"
    /\ exports' = exports \cup {actor[a].curl.locative}
    /\ actor' = [actor EXCEPT ![a].pc = "notify"]
    /\ UNCHANGED <<now, usable, curls, mailbox, reaping, wire, held>>

\* A variant that does not tell the reaper.
Notify_Silent(a) ==
    /\ actor[a].pc = "notify"
    /\ actor' = [actor EXCEPT ![a].pc = "return"]
    /\ UNCHANGED <<now, usable, curls, exports, mailbox, reaping, wire, held>>

\* (thread-send REAPER locative)
Notify(a) ==
    /\ actor[a].pc = "notify"
    /\ mailbox' = Append(mailbox, actor[a].curl.locative)
    /\ actor' = [actor EXCEPT ![a].pc = "return"]
    /\ UNCHANGED <<now, usable, curls, exports, reaping, wire, held>>

\* The serializer returns; the signed CURL may now leave the island.
Return(a) ==
    /\ actor[a].pc = "return"
    /\ wire' = wire \cup {actor[a].curl}
    /\ actor' = [actor EXCEPT ![a] = Idle]
    /\ UNCHANGED <<now, usable, curls, exports, mailbox, reaping, held>>

\* A CURL of this island comes back in a message and is deserialized: its
\* locative is looked up, or its id becomes #f.  A CURL without a finite
\* expiration is refused by curl/ok? and the deserializer raises.
Deserialize(c) ==
    /\ c \in wire
    /\ c.expires # Inf
    /\ held' = held \cup {[curl |-> c, target |-> IF c.locative \in exports
                                                  THEN c.locative ELSE None]}
    /\ UNCHANGED <<now, usable, curls, actor, exports, mailbox, reaping, wire>>

-----------------------------------------------------------------------------
(* thunk/reaper.                                                            *)

\* sync/timeout, or thread-try-receive in the loop enroll, gets a locative.
\* One that never expires is not enrolled and ends the loop.
Enroll ==
    /\ reaper \in {"wait", "enroll"}
    /\ mailbox # <<>>
    /\ mailbox' = Tail(mailbox)
    /\ LET x == Head(mailbox) IN
       IF Expires[x] = Inf
       THEN reaper' = "wait" /\ waited' = 0 /\ UNCHANGED heap
       ELSE /\ reaper' = "enroll"
            /\ heap' = [heap EXCEPT ![x] = @ + 1]
            /\ UNCHANGED waited
    /\ UNCHANGED <<now, usable, curls, actor, exports, wire, held>>

\* No more messages: sync/timeout starts over.
Enrolled ==
    /\ reaper = "enroll"
    /\ mailbox = <<>>
    /\ reaper' = "wait" /\ waited' = 0
    /\ UNCHANGED <<now, usable, curls, actor, exports, mailbox, heap,
                   wire, held>>

\* sync/timeout returns #f.
Timeout ==
    /\ reaper = "wait"
    /\ mailbox = <<>>
    /\ waited = Interval
    /\ reaper' = "reap"
    /\ UNCHANGED <<now, usable, curls, actor, exports, mailbox, heap, waited, wire, held>>

\* A variant that reaps the first candidate, expired or not.
Candidates_All == {x \in Locatives : heap[x] > 0}

\* A variant that does not look whether the locative is in the heap.
Candidates_Unenrolled == {x \in Locatives : ~Unexpired(x)}

\* The candidates that locative/expired? lets the reaper take.
Candidates == {x \in Locatives : heap[x] > 0 /\ ~Unexpired(x)}

\* The first of the candidates leaves the heap and EXPORTS.
Reap ==
    /\ reaper = "reap"
    /\ \E x \in Candidates :
          /\ \A y \in Candidates : Expires[x] <= Expires[y]
          /\ heap' = [heap EXCEPT ![x] = @ - 1]
          /\ exports' = exports \ {x}
    /\ UNCHANGED <<now, usable, curls, actor, mailbox, reaper, waited, wire,
                   held>>

Reaped ==
    /\ reaper = "reap"
    /\ Candidates = {}
    /\ reaper' = "wait" /\ waited' = 0
    /\ UNCHANGED <<now, usable, curls, actor, exports, mailbox, heap,
                   wire, held>>

\* Time passes.
Tick ==
    /\ now' = IF now < Late THEN now + 1 ELSE now
    /\ waited' = IF reaper = "wait" /\ waited < Interval THEN waited + 1 ELSE waited
    /\ UNCHANGED <<usable, curls, actor, exports, mailbox, heap, reaper, wire, held>>

-----------------------------------------------------------------------------
ReaperStep == Enroll \/ Enrolled \/ Timeout \/ Reap \/ Reaped

ActorStep(a) == Lookup(a) \/ Insert(a) \/ Notify(a) \/ Return(a)

Next ==
    \/ \E x \in Locatives :
          \/ \E d \in (1 .. Late) \cup {Inf} : NewCurl(x, d)
          \/ Spoil(x)
    \/ \E a \in Actors : ActorStep(a) \/ \E c \in curls : Serialize(a, c)
    \/ \E c \in wire : Deserialize(c)
    \/ ReaperStep
    \/ Tick

Spec == Init /\ [][Next]_vars

\* Racket schedules every runnable thread, and time passes.
Fairness ==
    /\ WF_vars(ReaperStep) /\ WF_vars(Tick)
    /\ \A a \in Actors : WF_vars(ActorStep(a))

FairSpec == Spec /\ Fairness

-----------------------------------------------------------------------------
(* Properties.                                                              *)

\* Type correctness.
TypeOK ==
    /\ now \in 0 .. Late
    /\ usable \subseteq Locatives /\ exports \subseteq Locatives
    /\ curls \subseteq Curl /\ wire \subseteq curls
    /\ actor \in [Actors -> [pc : {"idle", "lookup", "insert", "notify", "return"},
                             curl : Curl \cup {None}]]
    /\ mailbox \in Seq(Locatives)
    /\ heap \in [Locatives -> Nat]
    /\ reaper \in {"wait", "enroll", "reap"} /\ waited \in 0 .. Interval
    /\ held \subseteq [curl : wire, target : Locatives \cup {None}]

\* A CURL of this island that comes home finds its locative in EXPORTS unless
\* the locative has expired (the reaper runs beside the serializer).
ResolvesWhileLive ==
    /\ \A c \in wire : Unexpired(c.locative) => c.locative \in exports
    /\ \A h \in held : h.target = None => ~Unexpired(h.curl.locative)

\* A locative in EXPORTS that can expire is in the hands of the reaper or of
\* the actor about to tell it: none is forgotten in the table.
NoneForgotten ==
    \A x \in exports : Expires[x] # Inf =>
        \/ heap[x] > 0
        \/ \E i \in 1 .. Len(mailbox) : mailbox[i] = x
        \/ \E a \in Actors : actor[a].pc = "notify" /\ actor[a].curl.locative = x

\* A locative that expires leaves EXPORTS in the end, once exports cease.
ExportsDrain ==
    \A x \in Locatives :
        Expires[x] # Inf => (x \in exports ~> [](x \notin exports))
=============================================================================
