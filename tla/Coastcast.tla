----------------------------- MODULE Coastcast -----------------------------
(****************************************************************************)
(* How coastcast carries video from an encoder to decoders on several       *)
(* islands (apps/coastcast/motiles.rkt) and how a decoder finds the GUI of  *)
(* its island (the GUI registry of apps/coastcast/envs.rkt).                *)
(*                                                                          *)
(* The encoder-side relay sends each frame to one forward relay per island  *)
(* that has subscribers, and deploys the forward relay when the first of    *)
(* them asks; the forward relay sends the frame to the decoders there.  A   *)
(* decoder starts by waiting for the GUI controller of its island, asks it  *)
(* for a display and then subscribes.  The user may close a GUI or move it  *)
(* to another island; its decoders end, or follow.                          *)
(*                                                                          *)
(* Every actor is a thread with a mailbox.  A send puts the message into    *)
(* the mailbox of its receiver: what the network does to it is in Root and  *)
(* Connections; here one that takes too long is a promise that times out.   *)
(* The display's own actors are reduced to the controller's answer; the     *)
(* control of the encoder and picture-in-picture are left out.              *)
(****************************************************************************)
EXTENDS Integers, Sequences, FiniteSets

CONSTANTS
    Decoders,
    Islands,    \* the islands that decoders and GUIs are on
    Starts,     \* the islands, in some order, that start a GUI controller
    MaxFrames,  \* bound on the frames encoded
    MaxQuits,   \* bound on the GUIs closed or moved
    None

ASSUME CoastcastAssumption ==
    /\ IsFiniteSet(Decoders) /\ IsFiniteSet(Islands) /\ Starts \in Seq(Islands)
    /\ MaxFrames \in Nat /\ MaxQuits \in Nat
    /\ None \notin Islands \cup Nat

VARIABLES
    encoded,   \* the number of frames sent by the encoder
    relay,     \* the encoder-side relay
    forward,   \* the forward relay of each island
    decoder,   \* the decoders; a moved decoder is a new one, its next life
    gui,       \* the GUI controllers started so far
    current,   \* current-gui-curl of each island
    readlock   \* the semaphores each island's readlock was, the last it is

vars == <<encoded, relay, forward, decoder, gui, current, readlock>>

registry == <<current, readlock>>

\* The CURL of one life of a decoder.
Subscriber == [who : Decoders, life : Nat]
Self(d)    == [who |-> d, life |-> decoder[d].life]

\* A subscription of a forward relay, under the id made for it.
Subscription == [id : Nat, curl : Subscriber]

Frame(n)      == [body |-> "Frame", n |-> n]
AddCURL(c, i) == [body |-> "AddCURL", curl |-> c, isle |-> i]
RemoveCURL(k) == [body |-> "RemoveCURL", id |-> k]
Quit          == [body |-> "Quit"]
QuitMV(i)     == [body |-> "Quit/MV", host |-> i]

Frames    == [body : {"Frame"}, n : 1 .. MaxFrames]
Additions == [body : {"AddCURL"}, curl : Subscriber, isle : Islands]
Removals  == [body : {"RemoveCURL"}, id : Nat]
Orders    == {Quit} \cup [body : {"Quit/MV"}, host : Islands]

NewForward == [state |-> "none", mail |-> <<>>, curls |-> {}, ids |-> 0]

NewDecoder(i, n) ==
    [state |-> "start", isle |-> i, life |-> n, lock |-> 0, gui |-> 0,
     ctrl |-> 0, mail |-> <<>>, last |-> 0]

NewGui(i) == [state |-> "start", isle |-> i, decoders |-> {}, to |-> None]

\* make-big-bang has started the encoder and the encoder-side relay.
Init ==
    /\ encoded = 0
    /\ relay = [state |-> "loop", mail |-> <<>>, relays |-> {}, request |-> None]
    /\ forward = [i \in Islands |-> NewForward]
    /\ decoder \in [Decoders -> {[NewDecoder(i, 1) EXCEPT !.state = "unborn"] :
                                    i \in Islands}]
    /\ gui = [k \in DOMAIN Starts |-> NewGui(Starts[k])]
    /\ current = [i \in Islands |-> None]
    /\ readlock = [i \in Islands |-> <<0>>]

-----------------------------------------------------------------------------
(* The encoder and its relay.                                               *)

\* A message to the encoder-side relay; one to an ended thread is dropped.
Publish(m) ==
    relay' = IF relay.state = "dead" THEN relay
             ELSE [relay EXCEPT !.mail = Append(@, m)]

Encode ==
    /\ encoded < MaxFrames
    /\ encoded' = encoded + 1
    /\ Publish(Frame(encoded + 1))
    /\ UNCHANGED <<forward, decoder, gui, registry>>

\* A message m to the forward relays of the islands of S.
SendForward(S, m) ==
    forward' = [i \in Islands |->
                  IF i \in S THEN [forward[i] EXCEPT !.mail = Append(@, m)]
                  ELSE forward[i]]

Received(body) ==
    /\ relay.state = "loop" /\ relay.mail # <<>> /\ Head(relay.mail).body = body

RelayFrame ==
    /\ Received("Frame")
    /\ SendForward(relay.relays, Head(relay.mail))
    /\ relay' = [relay EXCEPT !.mail = Tail(@)]
    /\ UNCHANGED <<encoded, decoder, gui, registry>>

\* The subscriber's island has a forward relay.
RelayAdd ==
    LET m == Head(relay.mail)
    IN  /\ Received("AddCURL") /\ m.isle \in relay.relays
        /\ SendForward({m.isle}, m)
        /\ relay' = [relay EXCEPT !.mail = Tail(@)]
        /\ UNCHANGED <<encoded, decoder, gui, registry>>

\* It has none: the relay asks the island to spawn one and waits for its CURL.
DeployForward ==
    LET m == Head(relay.mail)
    IN  /\ Received("AddCURL") /\ m.isle \notin relay.relays
        /\ forward' = [forward EXCEPT ![m.isle].state = "spawn"]
        /\ relay' = [relay EXCEPT !.mail = Tail(@), !.state = "wait", !.request = m]
        /\ UNCHANGED <<encoded, decoder, gui, registry>>

\* Mutant: the request that made the relay deploy is forgotten.
Deployed_Forgotten ==
    /\ relay.state = "wait" /\ forward[relay.request.isle].state = "live"
    /\ relay' = [relay EXCEPT !.state = "loop", !.request = None,
                              !.relays = @ \cup {relay.request.isle}]
    /\ UNCHANGED <<encoded, forward, decoder, gui, registry>>

\* The CURL is here in time: the request goes to the new forward relay.
Deployed ==
    /\ relay.state = "wait" /\ forward[relay.request.isle].state = "live"
    /\ SendForward({relay.request.isle}, relay.request)
    /\ relay' = [relay EXCEPT !.state = "loop", !.request = None,
                              !.relays = @ \cup {relay.request.isle}]
    /\ UNCHANGED <<encoded, decoder, gui, registry>>

\* It is not.  All three forms of the clause meant for success are evaluated,
\* and curl/send raises on what promise/wait returned: the relay's thread ends.
DeployFails ==
    /\ relay.state = "wait"
    /\ relay' = [relay EXCEPT !.state = "dead", !.mail = <<>>]
    /\ UNCHANGED <<encoded, forward, decoder, gui, registry>>

-----------------------------------------------------------------------------
(* The forward relays.                                                      *)

\* The forward relay starts and reports its CURL.
Spawned(i) ==
    /\ forward[i].state = "spawn"
    /\ forward' = [forward EXCEPT ![i].state = "live"]
    /\ UNCHANGED <<encoded, relay, decoder, gui, registry>>

Heard(i, body) ==
    /\ forward[i].state = "live" /\ forward[i].mail # <<>>
    /\ Head(forward[i].mail).body = body

\* A message reaches a life of a decoder that has not ended.
Alive(d) == decoder[d].state \notin {"unborn", "dead"}

\* The frame goes out once for each subscription.
ForwardFrame(i) ==
    LET mine(d) == {s \in forward[i].curls : s.curl = Self(d) /\ Alive(d)}
        copies(d) == [k \in 1 .. Cardinality(mine(d)) |-> Head(forward[i].mail)]
    IN  /\ Heard(i, "Frame")
        /\ decoder' = [d \in Decoders |-> [decoder[d] EXCEPT !.mail = @ \o copies(d)]]
        /\ forward' = [forward EXCEPT ![i].mail = Tail(@)]
        /\ UNCHANGED <<encoded, relay, gui, registry>>

\* Mutant: one identifier for all subscriptions.
ForwardAdd_SameId(i) ==
    LET c == Head(forward[i].mail).curl
    IN  /\ Heard(i, "AddCURL")
        /\ forward' = [forward EXCEPT ![i].mail = Tail(@), ![i].ids = 1,
                                      ![i].curls = @ \cup {[id |-> 1, curl |-> c]}]
        /\ decoder' = IF Self(c.who) = c /\ decoder[c.who].state = "subscribe"
                      THEN [decoder EXCEPT ![c.who].state = "loop", ![c.who].ctrl = 1]
                      ELSE decoder
        /\ UNCHANGED <<encoded, relay, gui, registry>>

\* A new subscription, and its control CURL to whoever waits for it.
ForwardAdd(i) ==
    LET c  == Head(forward[i].mail).curl
        id == forward[i].ids + 1
    IN  /\ Heard(i, "AddCURL")
        /\ forward' = [forward EXCEPT ![i].mail = Tail(@), ![i].ids = id,
                                      ![i].curls = @ \cup {[id |-> id, curl |-> c]}]
        /\ decoder' = IF Self(c.who) = c /\ decoder[c.who].state = "subscribe"
                      THEN [decoder EXCEPT ![c.who].state = "loop", ![c.who].ctrl = id]
                      ELSE decoder
        /\ UNCHANGED <<encoded, relay, gui, registry>>

ForwardRemove(i) ==
    /\ Heard(i, "RemoveCURL")
    /\ forward' = [forward EXCEPT
                     ![i].mail = Tail(@),
                     ![i].curls = {s \in @ : s.id # Head(forward[i].mail).id}]
    /\ UNCHANGED <<encoded, relay, decoder, gui, registry>>

-----------------------------------------------------------------------------
(* The decoders.                                                            *)

Is(d, state) == decoder[d].state = state

\* A decoder is spawned: by make-big-bang or copied from another.
Spawn(d) ==
    /\ Is(d, "unborn")
    /\ decoder' = [decoder EXCEPT ![d].state = "start"]
    /\ UNCHANGED <<encoded, relay, forward, gui, registry>>

\* get-current-gui-curl: the semaphore that readlock is now, its token, the
\* CURL, and the token back.
Enter(d) ==
    /\ Is(d, "start")
    /\ decoder' = [decoder EXCEPT ![d].state = "enter",
                                  ![d].lock = Len(readlock[decoder[d].isle])]
    /\ UNCHANGED <<encoded, relay, forward, gui, registry>>

\* Mutant: the token is taken without waiting for it.
Take_Unguarded(d) ==
    LET i == decoder[d].isle
    IN  /\ Is(d, "enter")
        /\ readlock' = [readlock EXCEPT ![i][decoder[d].lock] = @ - 1]
        /\ decoder' = [decoder EXCEPT ![d].state = "read"]
        /\ UNCHANGED <<encoded, relay, forward, gui, current>>

Take(d) ==
    LET i == decoder[d].isle
    IN  /\ Is(d, "enter") /\ readlock[i][decoder[d].lock] > 0
        /\ readlock' = [readlock EXCEPT ![i][decoder[d].lock] = @ - 1]
        /\ decoder' = [decoder EXCEPT ![d].state = "read"]
        /\ UNCHANGED <<encoded, relay, forward, gui, current>>

\* Mutant: the token is not given back.
Read_Kept(d) ==
    LET i == decoder[d].isle
    IN  /\ Is(d, "read")
        /\ decoder' = [decoder EXCEPT
                         ![d].state = IF current[i] = None THEN "dead" ELSE "display",
                         ![d].gui = IF current[i] = None THEN 0 ELSE current[i]]
        /\ UNCHANGED <<encoded, relay, forward, gui, registry>>

\* With #f for a CURL the decoder's curl/send/promise raises.
Read(d) ==
    LET i == decoder[d].isle
    IN  /\ Is(d, "read")
        /\ readlock' = [readlock EXCEPT ![i][decoder[d].lock] = @ + 1]
        /\ decoder' = [decoder EXCEPT
                         ![d].state = IF current[i] = None THEN "dead" ELSE "display",
                         ![d].gui = IF current[i] = None THEN 0 ELSE current[i]]
        /\ UNCHANGED <<encoded, relay, forward, gui, current>>

\* Mutant: the request is sent twice.
Subscribe_Twice(d) ==
    LET m == AddCURL(Self(d), decoder[d].isle)
    IN  /\ Is(d, "displayed")
        /\ decoder' = [decoder EXCEPT ![d].state = "subscribe"]
        /\ relay' = IF relay.state = "dead" THEN relay
                    ELSE [relay EXCEPT !.mail = @ \o <<m, m>>]
        /\ UNCHANGED <<encoded, forward, gui, registry>>

\* With a display, it subscribes through the encoder-side relay.
Subscribe(d) ==
    /\ Is(d, "displayed")
    /\ decoder' = [decoder EXCEPT ![d].state = "subscribe"]
    /\ Publish(AddCURL(Self(d), decoder[d].isle))
    /\ UNCHANGED <<encoded, forward, gui, registry>>

\* promise/wait gives up and the decoder's thread ends, when its request is
\* lost with the GUI or the relay it was sent to: the 10000 s it waits for are
\* longer than any answer takes.
Unanswered(d) ==
    \/ Is(d, "display") /\ gui[decoder[d].gui].state \in {"leave", "quit"}
    \/ Is(d, "subscribe") /\ relay.state = "dead"
       /\ \A i \in Islands : \A k \in 1 .. Len(forward[i].mail) :
             forward[i].mail[k] # AddCURL(Self(d), decoder[d].isle)

GiveUp(d) ==
    /\ Unanswered(d)
    /\ decoder' = [decoder EXCEPT ![d].state = "dead", ![d].mail = <<>>]
    /\ UNCHANGED <<encoded, relay, forward, gui, registry>>

Finds(d, body) ==
    /\ Is(d, "loop") /\ decoder[d].mail # <<>> /\ Head(decoder[d].mail).body = body

Decode(d) ==
    /\ Finds(d, "Frame")
    /\ decoder' = [decoder EXCEPT ![d].mail = Tail(@),
                                  ![d].last = Head(decoder[d].mail).n]
    /\ UNCHANGED <<encoded, relay, forward, gui, registry>>

\* Mutant: the subscription is kept.
Leave_Subscribed(d) ==
    /\ Finds(d, "Quit") \/ Finds(d, "Quit/MV")
    /\ decoder' = [decoder EXCEPT
                     ![d] = IF Finds(d, "Quit")
                            THEN [@ EXCEPT !.state = "dead", !.mail = <<>>]
                            ELSE NewDecoder(Head(@.mail).host, @.life + 1)]
    /\ UNCHANGED <<encoded, relay, forward, gui, registry>>

\* Mutant: the decoder is spawned anew where it was.
Leave_Home(d) ==
    /\ Finds(d, "Quit") \/ Finds(d, "Quit/MV")
    /\ SendForward({decoder[d].isle}, RemoveCURL(decoder[d].ctrl))
    /\ decoder' = [decoder EXCEPT
                     ![d] = IF Finds(d, "Quit")
                            THEN [@ EXCEPT !.state = "dead", !.mail = <<>>]
                            ELSE NewDecoder(@.isle, @.life + 1)]
    /\ UNCHANGED <<encoded, relay, gui, registry>>

\* The decoder gives back its subscription and ends, or is spawned anew on
\* the other island.
Leave(d) ==
    /\ Finds(d, "Quit") \/ Finds(d, "Quit/MV")
    /\ SendForward({decoder[d].isle}, RemoveCURL(decoder[d].ctrl))
    /\ decoder' = [decoder EXCEPT
                     ![d] = IF Finds(d, "Quit")
                            THEN [@ EXCEPT !.state = "dead", !.mail = <<>>]
                            ELSE NewDecoder(Head(@.mail).host, @.life + 1)]
    /\ UNCHANGED <<encoded, relay, gui, registry>>

-----------------------------------------------------------------------------
(* The GUI controllers.                                                     *)

Guis == 1 .. Len(gui)

Set(g, state) == gui' = [gui EXCEPT ![g].state = state]

\* set-current-gui-curl!: the assignment, and the post.
Register(g) ==
    /\ gui[g].state = "start"
    /\ current' = [current EXCEPT ![gui[g].isle] = g]
    /\ Set(g, "post")
    /\ UNCHANGED <<encoded, relay, forward, decoder, readlock>>

Post(g) ==
    LET i == gui[g].isle
    IN  /\ gui[g].state = "post"
        /\ readlock' = [readlock EXCEPT ![i][Len(readlock[i])] = @ + 1]
        /\ Set(g, "loop")
        /\ UNCHANGED <<encoded, relay, forward, decoder, current>>

\* A decoder of this island asks for a display and gets one.
Display(g, d) ==
    /\ gui[g].state = "loop" /\ Is(d, "display") /\ decoder[d].gui = g
    /\ gui' = [gui EXCEPT ![g].decoders = @ \cup {Self(d)}]
    /\ decoder' = [decoder EXCEPT ![d].state = "displayed"]
    /\ UNCHANGED <<encoded, relay, forward, registry>>

\* The user ends a flow that the GUI shows, as it does from the first frame on:
\* its decoder is told, and is no longer the GUI's.
Dismiss(g, d) ==
    /\ gui[g].state = "loop" /\ Self(d) \in gui[g].decoders
    /\ Alive(d) /\ decoder[d].last > 0
    /\ gui' = [gui EXCEPT ![g].decoders = @ \ {Self(d)}]
    /\ decoder' = [decoder EXCEPT ![d].mail = Append(@, Quit)]
    /\ UNCHANGED <<encoded, relay, forward, registry>>

Quits == Cardinality({g \in Guis : gui[g].state \in {"leave", "quit"}})

\* The user closes the GUI (to is None) or moves it.  reset-current-gui-curl!
\* first clears the CURL ...
Clear(g, to) ==
    /\ gui[g].state = "loop" /\ Quits < MaxQuits
    /\ to \in (Islands \cup {None}) \ {gui[g].isle}
    /\ current' = [current EXCEPT ![gui[g].isle] = None]
    /\ gui' = [gui EXCEPT ![g].state = "leave", ![g].to = to]
    /\ UNCHANGED <<encoded, relay, forward, decoder, readlock>>

\* ... and then replaces the semaphore; the controller is spawned on the other
\* island, and its decoders are told.
Reset(g) ==
    LET to   == gui[g].to
        quit == [gui EXCEPT ![g].state = "quit"]
    IN  /\ gui[g].state = "leave"
        /\ readlock' = [readlock EXCEPT ![gui[g].isle] = Append(@, 0)]
        /\ gui' = IF to = None THEN quit ELSE Append(quit, NewGui(to))
        /\ decoder' = [d \in Decoders |->
                         IF Self(d) \in gui[g].decoders /\ Alive(d)
                         THEN [decoder[d] EXCEPT
                                 !.mail = Append(@, IF to = None THEN Quit ELSE QuitMV(to))]
                         ELSE decoder[d]]
        /\ UNCHANGED <<encoded, relay, forward, current>>

-----------------------------------------------------------------------------
RelayStep == RelayFrame \/ RelayAdd \/ DeployForward \/ Deployed

ForwardStep(i) == Spawned(i) \/ ForwardFrame(i) \/ ForwardAdd(i) \/ ForwardRemove(i)

DecoderStep(d) ==
    \/ Enter(d) \/ Take(d) \/ Read(d) \/ Subscribe(d) \/ GiveUp(d)
    \/ Decode(d) \/ Leave(d)

GuiStep(g) == Register(g) \/ Post(g) \/ Reset(g) \/ \E d \in Decoders : Display(g, d)

UserStep(g) ==
    \/ \E to \in Islands \cup {None} : Clear(g, to)
    \/ \E d \in Decoders : Dismiss(g, d)

Next ==
    \/ Encode \/ RelayStep \/ DeployFails
    \/ \E i \in Islands : ForwardStep(i)
    \/ \E d \in Decoders : Spawn(d) \/ DecoderStep(d)
    \/ \E g \in Guis : GuiStep(g) \/ UserStep(g)

Spec == Init /\ [][Next]_vars

\* Racket runs every runnable thread.  The camera, the user and the timeout of
\* the relay's wait are under no fairness.
Fairness ==
    /\ WF_vars(RelayStep)
    /\ \A i \in Islands : WF_vars(ForwardStep(i))
    /\ \A d \in Decoders : SF_vars(Take(d)) /\ WF_vars(DecoderStep(d))
    /\ \A g \in 1 .. Len(Starts) + MaxQuits : WF_vars(g \in Guis /\ GuiStep(g))

FairSpec == Spec /\ Fairness

-----------------------------------------------------------------------------
(* Properties.                                                              *)

\* Type correctness.
TypeOK ==
    /\ encoded \in 0 .. MaxFrames
    /\ relay \in [state : {"loop", "wait", "dead"}, mail : Seq(Frames \cup Additions),
                  relays : SUBSET Islands, request : Additions \cup {None}]
    /\ \A i \in Islands :
          /\ forward[i].state \in {"none", "spawn", "live"}
          /\ forward[i].mail \in Seq(Frames \cup Additions \cup Removals)
          /\ forward[i].curls \subseteq Subscription /\ forward[i].ids \in Nat
    /\ decoder \in
         [Decoders ->
            [state : {"unborn", "start", "enter", "read", "display", "displayed",
                      "subscribe", "loop", "dead"},
             isle : Islands, life : Nat, lock : Nat, gui : Guis \cup {0},
             ctrl : Nat, mail : Seq(Frames \cup Orders), last : 0 .. MaxFrames]]
    /\ \A g \in Guis :
          /\ gui[g].state \in {"start", "post", "loop", "leave", "quit"}
          /\ gui[g].isle \in Islands /\ gui[g].to \in Islands \cup {None}
          /\ gui[g].decoders \subseteq Subscriber
    /\ current \in [Islands -> Guis \cup {None}]
    /\ readlock \in [Islands -> Seq(Nat)]

\* From the first frame it gets, a decoder gets every frame the encoder sends,
\* once and in order, while others subscribe, leave and move, and relays are
\* deployed: the frames in its mailbox continue the last one it has decoded.
FrameAt(d) == {k \in 1 .. Len(decoder[d].mail) : decoder[d].mail[k].body = "Frame"}

FramesContinuous ==
    \A d \in Decoders : \A k \in FrameAt(d) :
        LET n       == decoder[d].mail[k].n
            earlier == {j \in FrameAt(d) : j < k}
        IN  IF earlier = {} THEN decoder[d].last # 0 => n = decoder[d].last + 1
            ELSE \E j \in earlier :
                    n = decoder[d].mail[j].n + 1 /\ \A i \in earlier : i <= j

\* The control CURL a decoder holds is for its own subscription, on its island,
\* the only one it has: giving it back ends its frames and no one else's.
Holds(c) ==
    UNION {{<<i, s.id>> : s \in {t \in forward[i].curls : t.curl = c}} : i \in Islands}

OwnSubscription ==
    \A d \in Decoders : Is(d, "loop") =>
        LET i == decoder[d].isle
        IN  /\ Holds(Self(d)) = {<<i, decoder[d].ctrl>>}
            /\ \A s \in forward[i].curls :
                  s.id = decoder[d].ctrl => s.curl = Self(d)

\* No forward relay sends for ever to a decoder that has ended or moved.
Ended(c) == Self(c.who) # c \/ decoder[c.who].state = "dead"

Outdated(d) ==
    \E i \in Islands : \E s \in forward[i].curls : s.curl.who = d /\ Ended(s.curl)

Cancelled == \A d \in Decoders : Outdated(d) ~> ~Outdated(d)

\* Every request to subscribe is granted, also while the relay is deploying for
\* another, unless a deployment fails.
Granted ==
    \A d \in Decoders : Is(d, "subscribe") ~> Is(d, "loop") \/ relay.state = "dead"

\* The decoders that a GUI takes along are up on the island it moved to in the
\* end, whatever state they are in when it moves, unless a deployment fails or
\* that GUI is closed as well.
Moving(d) == \E k \in 1 .. Len(decoder[d].mail) : decoder[d].mail[k].body = "Quit/MV"

Moved(d) == \E g \in Guis : gui[g].state = "quit" /\ gui[g].to = decoder[d].isle

MovesComplete ==
    \A d \in Decoders :
        Moving(d) ~> \/ Is(d, "loop") /\ ~Moving(d) /\ Moved(d)
                     \/ relay.state = "dead" \/ Quits > 1

\* A decoder that waits for the GUI of its island gets on once there is one,
\* whichever semaphore it waits on, unless a GUI has been closed there.
GuiIs(i, states) == \E g \in Guis : gui[g].isle = i /\ gui[g].state \in states

Found ==
    \A d \in Decoders :
        Is(d, "enter") /\ GuiIs(decoder[d].isle, {"loop"})
          ~> ~Is(d, "enter") \/ GuiIs(decoder[d].isle, {"leave", "quit"})
=============================================================================
