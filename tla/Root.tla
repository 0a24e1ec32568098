-------------------------------- MODULE Root --------------------------------
(****************************************************************************)
(* The root actor of an island: how it is started (listen-on/make-root of   *)
(* peer/src/api/framework.rkt, actor/root/new and actor/jumpstart of        *)
(* Motile/actor/jumpstart.rkt) and what its loop does with the messages in  *)
(* its mailbox (my-root-loop of apps/coastcast/startup.rkt): it spawns the  *)
(* actors asked for on the public CURL, and forwards the deliveries from    *)
(* other islands to the actors here (curl/forward of Motile/actor/send.rkt).*)
(*                                                                          *)
(* The main thread, the network's input threads, the root and the actors    *)
(* are concurrent.  What a locative allows is in Locatives; here it is      *)
(* usable until some moment.  The user interface is left out: the root      *)
(* discards its notifications.                                              *)
(****************************************************************************)
EXTENDS Integers, Sequences, FiniteSets, SequencesExt

CONSTANTS
    Spawns,    \* spawn requests, each for an actor of its own
    Faulty,    \* those whose body is not a procedure
    Messages,  \* all other messages
    To,        \* the actor, named by its spawn request, or Public that each of
               \* them is sent to
    Remote,    \* the requests and messages that come from other islands
    Public,    \* PUBLIC-CURL
    Thunk      \* the thunk that starts the root

ASSUME RootAssumption ==
    /\ Spawns \cap Messages = {}
    /\ Faulty \subseteq Spawns
    /\ Public \notin Spawns
    /\ Thunk \notin Spawns \cup Messages
    /\ To \in [Messages -> Spawns \cup {Public}]
    /\ Remote \subseteq Spawns \cup Messages

VARIABLES
    main,     \* how far the main thread is
    root,     \* what the root's thread does
    inbox,    \* the mailbox of the root's thread
    actor,    \* the thread of the actor of each spawn request
    usable,   \* the actors whose CURLs have a locative that may be used
    mail,     \* what has reached the mailbox of each actor
    sent,     \* history: the requests and messages sent so far
    arrived   \* history: what the input threads gave to the root, in order

vars == <<main, root, inbox, actor, usable, mail, sent, arrived>>

actors == <<actor, usable, mail>>

\* The actors that have been started: CURLs that name them may be about.
Known == {s \in Spawns : actor[s] \in {"running", "ended"}}

-----------------------------------------------------------------------------
Init ==
    /\ main = "make" /\ root = "none"
    /\ inbox = <<>>
    /\ actor = [s \in Spawns |-> "none"]
    /\ usable = Spawns
    /\ mail = [s \in Spawns |-> <<>>]
    /\ sent = {} /\ arrived = <<>>

\* (make-root/get-public/register-public): the root's thread, and the public
\* locative in EXPORTS.
MakeRoot ==
    /\ main = "make" /\ main' = "listen"
    /\ root' = "waiting"
    /\ UNCHANGED <<inbox, actors, sent, arrived>>

\* run-tcp-peer, with the root's thread as the receiver.
Listen ==
    /\ main = "listen" /\ main' = "jumpstart"
    /\ UNCHANGED <<root, inbox, actors, sent, arrived>>

\* thread-send to the root's thread: nothing when it is dead.
Post(m) == inbox' = IF root = "dead" THEN inbox ELSE Append(inbox, m)

\* (actor/jumpstart ROOT thunk) raises when the root's thread is dead.
Jumpstart ==
    /\ main = "jumpstart"
    /\ main' = IF root = "dead" THEN "failed" ELSE "up"
    /\ Post(Thunk)
    /\ UNCHANGED <<root, actors, sent, arrived>>

\* The main thread sends a spawn request on PUBLIC-CURL.
RequestSpawn(s) ==
    /\ main = "up"
    /\ s \notin sent \cup Remote
    /\ sent' = sent \cup {s}
    /\ Post(s)
    /\ UNCHANGED <<main, root, actors, arrived>>

\* A variant in which the router also gives messages of this island to the root.
Arrive_Any(m) ==
    /\ main \in {"jumpstart", "up", "failed"}
    /\ m \notin sent
    /\ m \in Messages => To[m] \in Known \cup {Public}
    /\ sent' = sent \cup {m}
    /\ Post(m)
    /\ arrived' = IF root = "dead" THEN arrived ELSE Append(arrived, m)
    /\ UNCHANGED <<main, root, actors>>

\* An input thread gives what it has read to the root (input-next).  The public
\* CURL is known to other islands before this one starts.
Arrive(m) ==
    /\ main \in {"jumpstart", "up", "failed"}
    /\ m \in Remote \ sent
    /\ m \in Messages => To[m] \in Known \cup {Public}
    /\ sent' = sent \cup {m}
    /\ Post(m)
    /\ arrived' = IF root = "dead" THEN arrived ELSE Append(arrived, m)
    /\ UNCHANGED <<main, root, actors>>

-----------------------------------------------------------------------------
(* The root.                                                                *)

\* The thread waits for its first message and ends unless it is a procedure.
Begin ==
    /\ root = "waiting" /\ inbox # <<>>
    /\ IF Head(inbox) = Thunk
       THEN root' = "starting" /\ inbox' = Tail(inbox)
       ELSE root' = "dead" /\ inbox' = <<>>
    /\ UNCHANGED <<main, actors, sent, arrived>>

\* The user interface is ready.
Ready ==
    /\ root = "starting" /\ root' = "loop"
    /\ UNCHANGED <<main, inbox, actors, sent, arrived>>

\* The root's loop takes message m out of its mailbox.
Takes(m) == root = "loop" /\ inbox # <<>> /\ m = Head(inbox)

\* actor/new and eval-actor: nobody else knows the actor before it is started.
Spawn(s) ==
    /\ Takes(s) /\ s \in Spawns \ Faulty
    /\ inbox' = Tail(inbox)
    /\ actor' = [actor EXCEPT ![s] = "running"]
    /\ UNCHANGED <<main, root, usable, mail, sent, arrived>>

\* eval-actor refuses a body that is not a procedure, after actor/new.  Nobody
\* handles the exception: the root's thread ends, the new actor never starts.
SpawnFails(s) ==
    /\ Takes(s) /\ s \in Faulty
    /\ inbox' = <<>> /\ root' = "dead"
    /\ actor' = [actor EXCEPT ![s] = "waiting"]
    /\ UNCHANGED <<main, usable, mail, sent, arrived>>

\* locative/send to the actor of s: the message is lost when the locative may
\* not be used any more, or when the actor's thread has ended.
SendTo(s, m) ==
    mail' = IF s \in usable /\ actor[s] = "running"
            THEN [mail EXCEPT ![s] = Append(@, m)] ELSE mail

\* A variant that takes the newest message of the mailbox.
Forward_Last(m) ==
    /\ root = "loop" /\ inbox # <<>> /\ m = Last(inbox)
    /\ m \in Messages /\ To[m] # Public
    /\ inbox' = Front(inbox)
    /\ SendTo(To[m], m)
    /\ UNCHANGED <<main, root, actor, usable, sent, arrived>>

\* curl/forward.  A CURL whose locative has left EXPORTS makes it raise, which
\* the loop handles: the delivery is lost all the same.
Forward(m) ==
    /\ Takes(m) /\ m \in Messages /\ To[m] # Public
    /\ inbox' = Tail(inbox)
    /\ SendTo(To[m], m)
    /\ UNCHANGED <<main, root, actor, usable, sent, arrived>>

\* A variant that puts the delivery back at the head of the mailbox.
ForwardPublic_Rewind(m) ==
    /\ Takes(m) /\ m \in Messages /\ To[m] = Public
    /\ UNCHANGED vars

\* A variant that leaves the delivery in the mailbox as well.
ForwardPublic_Copy(m) ==
    /\ Takes(m) /\ m \in Messages /\ To[m] = Public
    /\ Len(inbox) < 4
    /\ inbox' = Append(inbox, m)
    /\ UNCHANGED <<main, root, actors, sent, arrived>>

\* A delivery on the public CURL that is no spawn request goes to the actor of
\* the public locative, which is the root itself.
ForwardPublic(m) ==
    /\ Takes(m) /\ m \in Messages /\ To[m] = Public
    /\ inbox' = Append(Tail(inbox), m)
    /\ UNCHANGED <<main, root, actors, sent, arrived>>

-----------------------------------------------------------------------------
(* The actors.                                                              *)

\* Actor a sends message m to an actor here or to PUBLIC-CURL, or asks for a
\* spawn: curl/send on an intra-island CURL.
Send(a, m) ==
    /\ actor[a] = "running"
    /\ m \notin sent \cup Remote
    /\ sent' = sent \cup {m}
    /\ IF m \in Spawns \/ To[m] = Public
       THEN Post(m) /\ UNCHANGED mail
       ELSE To[m] \in Known /\ SendTo(To[m], m) /\ UNCHANGED inbox
    /\ UNCHANGED <<main, root, actor, usable, arrived>>

\* The actor's thread ends.
End(a) ==
    /\ actor[a] = "running"
    /\ actor' = [actor EXCEPT ![a] = "ended"]
    /\ UNCHANGED <<main, root, inbox, usable, mail, sent, arrived>>

\* The locative of the actor's CURLs expires, is revoked or is used up.
Spoil(a) ==
    /\ a \in usable \cap Known
    /\ usable' = usable \ {a}
    /\ UNCHANGED <<main, root, inbox, actor, mail, sent, arrived>>

-----------------------------------------------------------------------------
Handle(m) == Spawn(m) \/ SpawnFails(m) \/ Forward(m) \/ ForwardPublic(m)

Next ==
    \/ MakeRoot \/ Listen \/ Jumpstart \/ Begin \/ Ready
    \/ \E s \in Spawns : RequestSpawn(s) \/ End(s) \/ Spoil(s)
    \/ \E m \in Spawns \cup Messages :
          Arrive(m) \/ Handle(m) \/ \E a \in Spawns : Send(a, m)

Spec == Init /\ [][Next]_vars

\* Racket schedules the root's thread whenever it can run.
Fairness == WF_vars(\E m \in Spawns \cup Messages : Handle(m))

FairSpec == Spec /\ Fairness

-----------------------------------------------------------------------------
(* Properties.                                                              *)

\* Type correctness.
TypeOK ==
    /\ main \in {"make", "listen", "jumpstart", "up", "failed"}
    /\ root \in {"none", "waiting", "starting", "loop", "dead"}
    /\ inbox \in Seq(Spawns \cup Messages \cup {Thunk})
    /\ actor \in [Spawns -> {"none", "waiting", "running", "ended"}]
    /\ usable \subseteq Spawns
    /\ mail \in [Spawns -> Seq(Messages)]
    /\ sent \subseteq Spawns \cup Messages
    /\ arrived \in Seq(Remote)

\* The places a message or request is in: the root's mailbox, the mailbox of an
\* actor, or, for a request, the actor it has created.
Occurs(m, seq) == {i \in 1 .. Len(seq) : seq[i] = m}

Places(m) ==
    Cardinality(Occurs(m, inbox))
    + (IF m \in Spawns THEN IF actor[m] # "none" THEN 1 ELSE 0
       ELSE IF To[m] # Public THEN Cardinality(Occurs(m, mail[To[m]])) ELSE 0)

\* A request starts one actor and a message is received once, also when the
\* root sends deliveries to itself and deliveries go round in its mailbox.
HandledOnce == \A m \in Spawns \cup Messages : Places(m) <= 1

\* m arrived before n.
Before(m, n) ==
    \E k, l \in 1 .. Len(arrived) : k < l /\ arrived[k] = m /\ arrived[l] = n

\* The deliveries from other islands that reach an actor do so in the order in
\* which they reached the root, whatever else is in the root's mailbox.
InOrder ==
    \A s \in Spawns : \A i, j \in 1 .. Len(mail[s]) :
        i < j /\ {mail[s][i], mail[s][j]} \subseteq Remote =>
            Before(mail[s][i], mail[s][j])

\* Whatever else is in its mailbox, deliveries that go round for ever included,
\* the root gets to every request and every delivery for an actor, unless its
\* thread ends.
Served ==
    \A m \in Spawns \cup {n \in Messages : To[n] # Public} :
        root = "loop" /\ m \in ToSet(inbox) ~> m \notin ToSet(inbox)

\* "with incoming messages delivered to the ROOT": what the input threads read is
\* given to a root that is alive, as long as no request is faulty.
IncomingDelivered == sent \cap Remote \subseteq ToSet(arrived)
=============================================================================
