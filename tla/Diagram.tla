------------------------------ MODULE Diagram ------------------------------
(****************************************************************************)
(* The diagram of who sends to whom that coastcast shows in a browser.      *)
(* The root (apps/coastcast/startup.rkt) adds a node for every actor it     *)
(* spawns, and every actor's curl/send is wrapped in an instrumentation     *)
(* that adds an edge, and a node when the receiver is on another island     *)
(* that has none.  The pictures go through the session of ui/ws.rkt to the  *)
(* thread that serves the page's WebSocket, and the page (ui.html,          *)
(* monitoring.js, dracula_graph.js) adds them to its graph.                 *)
(*                                                                          *)
(* The root and the actors share the two tables, without a lock; the pages, *)
(* and the threads that serve them, are concurrent with all of them.  A     *)
(* page may be loaded by several tabs, and closed; its connection may end,  *)
(* which the library that serves it does after an hour.  What is displayed  *)
(* is reduced to the nodes, their labels and the edges.                     *)
(****************************************************************************)
EXTENDS Integers, Sequences, FiniteSets

CONSTANTS
    Actors,      \* the actors spawned, by nickname
    Islands,     \* the addresses of other islands
    Promissary,  \* the actor of the promises' CURLs, which has no node
    Root,        \* the nickname of the root
    Sends,       \* who may send to whom, which bounds the instance
    MaxPages,    \* bound on the loads of the page, each with its connection
    MaxLost,     \* bound on the pages closed or cut off
    None

ASSUME DiagramAssumption ==
    /\ IsFiniteSet(Actors) /\ IsFiniteSet(Islands)
    /\ MaxPages \in Nat /\ MaxLost \in Nat
    /\ Actors \cap Islands = {}
    /\ {Promissary, Root} \cap (Actors \cup Islands) = {} /\ Promissary # Root
    /\ Sends \subseteq Actors \X (Actors \cup Islands \cup {Promissary, Root})
    /\ None \notin Actors \cup Islands \cup {Promissary, Root} \cup Nat
    /\ None \notin [key : Actors \cup Islands \cup {Root}, by : Actors \cup {Root}]

VARIABLES
    thread,  \* what the root's and each actor's thread does
    nodes,   \* sending-diagram-nodes
    edges,   \* sending-diagram-edges, each under the keys of its ends
    out,     \* session-out-thd: the page served by that thread
    posts,   \* the count of session-ready-sema
    conn,    \* what the thread of each page's connection does
    mail,    \* the mailbox of that thread
    lost,    \* the pages closed or cut off
    page     \* what each page shows

vars == <<thread, nodes, edges, out, posts, conn, mail, lost, page>>

Pages   == 1 .. MaxPages
Threads == Actors \cup {Root}
Keys    == Actors \cup Islands \cup {Root}
Targets == Actors \cup Islands \cup {Promissary, Root}

\* A node made by new-node: the identifier is fresh, here its key and maker.
Node == [key : Keys, by : Threads]

\* What ui-send! carries, by the name the page knows it under.
Edge == [item : {"diagramedge"}, from : Node, to : Node]

Item == [item : {"diagram"}] \cup [item : {"diagramnode"}, node : Node] \cup Edge

NewDiagram    == [item |-> "diagram"]
NewNode(n)    == [item |-> "diagramnode", node |-> n]
NewEdge(n, m) == [item |-> "diagramedge", from |-> n, to |-> m]

\* The sender and the receiver an edge is for, and those the table has one for.
EndsOf(e) == <<e.from.key, e.to.key>>
Recorded  == {EndsOf(e) : e \in edges}

EmptyPage == [diagram |-> FALSE, labelled |-> {}, blank |-> {}, drawn |-> <<>>]

Init ==
    /\ thread = [t \in Threads |->
                   [pc |-> IF t = Root THEN "open" ELSE "unborn", to |-> None]]
    /\ nodes = [k \in Keys |-> None]
    /\ edges = {}
    /\ out = None
    /\ posts = 0
    /\ conn = [p \in Pages |-> "none"]
    /\ mail = [p \in Pages |-> <<>>]
    /\ lost = {}
    /\ page = [p \in Pages |-> EmptyPage]

-----------------------------------------------------------------------------
(* The session.                                                             *)

sessions == <<out, posts, conn, lost, page>>
tables   == <<nodes, edges>>

\* ui-send!: thread-send to the thread that serves the session; a message to a
\* thread that has ended is reported and dropped.
UiSend(m) ==
    mail' = IF conn[out] = "dead" THEN mail
            ELSE [mail EXCEPT ![out] = Append(@, m)]

\* The browser, sent to the session's address by open-a-tab, loads the page,
\* which opens a WebSocket.  The user may load it in more tabs, or again.
Load(p) ==
    /\ thread[Root].pc # "open" /\ conn[p] = "none"
    /\ p > 1 => conn[p - 1] # "none"
    /\ conn' = [conn EXCEPT ![p] = "look"]
    /\ UNCHANGED <<thread, tables, out, posts, mail, lost, page>>

\* The thread of a connection finds the session unserved, or served already.
Look(p) ==
    /\ conn[p] = "look"
    /\ conn' = [conn EXCEPT ![p] = IF out = None THEN "claim" ELSE "idle"]
    /\ UNCHANGED <<thread, tables, out, posts, mail, lost, page>>

Claim(p) ==
    /\ conn[p] = "claim"
    /\ out' = p
    /\ conn' = [conn EXCEPT ![p] = "greet"]
    /\ UNCHANGED <<thread, tables, posts, mail, lost, page>>

\* Mutant: the session is reported ready before the greeting and after it.
Greet_Twice(p) ==
    /\ conn[p] = "greet"
    /\ \/ conn' = [conn EXCEPT ![p] = "serve"] /\ posts' = posts + 2
       \/ p \in lost /\ conn' = [conn EXCEPT ![p] = "dead"] /\ UNCHANGED posts
    /\ UNCHANGED <<thread, tables, out, mail, lost, page>>

\* It waits for the page's greeting and reports the session ready.  A page that
\* is gone may have sent it before; if not, the thread ends with an exception.
Greet(p) ==
    /\ conn[p] = "greet"
    /\ \/ conn' = [conn EXCEPT ![p] = "serve"] /\ posts' = posts + 1
       \/ p \in lost /\ conn' = [conn EXCEPT ![p] = "dead"] /\ UNCHANGED posts
    /\ UNCHANGED <<thread, tables, out, mail, lost, page>>

AddDiagram(g) == [g EXCEPT !.diagram = TRUE]

\* Graph.addNode: a node that the graph has already stays as it is.
AddNode(g, n) ==
    IF n \in g.labelled \cup g.blank THEN g
    ELSE [g EXCEPT !.labelled = @ \cup {n}]

\* Graph.addEdge adds the ends it does not find, without a label.
AddEdge(g, n, m) ==
    [g EXCEPT !.blank = @ \cup ({n, m} \ g.labelled),
              !.drawn = Append(@, <<n, m>>)]

\* onmessage.  Without the diagram the handlers of nodes and edges raise.
Handle(g, m) ==
    CASE m.item = "diagram" -> AddDiagram(g)
      [] m.item = "diagramnode" /\ g.diagram -> AddNode(g, m.node)
      [] m.item = "diagramedge" /\ g.diagram -> AddEdge(g, m.from, m.to)
      [] OTHER -> g

\* Mutant: the last message is sent first.
Deliver_Newest(p) ==
    LET k == Len(mail[p])
    IN  /\ conn[p] = "serve" /\ k > 0 /\ p \notin lost
        /\ mail' = [mail EXCEPT ![p] = SubSeq(@, 1, k - 1)]
        /\ page' = [page EXCEPT ![p] = Handle(@, mail[p][k])]
        /\ UNCHANGED <<thread, tables, out, posts, conn, lost>>

\* The serving thread sends the next message to its page, which handles it.
Deliver(p) ==
    /\ conn[p] = "serve" /\ mail[p] # <<>> /\ p \notin lost
    /\ mail' = [mail EXCEPT ![p] = Tail(@)]
    /\ page' = [page EXCEPT ![p] = Handle(@, Head(mail[p]))]
    /\ UNCHANGED <<thread, tables, out, posts, conn, lost>>

\* The page is gone: the message is lost, and once the port reports it the
\* thread ends with an exception.
DeliverFails(p) ==
    /\ conn[p] = "serve" /\ mail[p] # <<>> /\ p \in lost
    /\ \/ mail' = [mail EXCEPT ![p] = Tail(@)] /\ UNCHANGED conn
       \/ mail' = [mail EXCEPT ![p] = <<>>] /\ conn' = [conn EXCEPT ![p] = "dead"]
    /\ UNCHANGED <<thread, tables, out, posts, lost, page>>

\* The page is closed, and what it showed is gone.
Lose(p) ==
    /\ conn[p] # "none" /\ p \notin lost /\ Cardinality(lost) < MaxLost
    /\ lost' = lost \cup {p}
    /\ page' = [page EXCEPT ![p] = EmptyPage]
    /\ UNCHANGED <<thread, tables, out, posts, conn, mail>>

-----------------------------------------------------------------------------
(* The root.                                                                *)

At(t, pc) == thread[t].pc = pc

Goto(t, pc, k) == thread' = [thread EXCEPT ![t] = [pc |-> pc, to |-> k]]

OpenTab ==
    /\ At(Root, "open")
    /\ Goto(Root, "wait", None)
    /\ UNCHANGED <<tables, mail, sessions>>

\* ui-wait-for-readiness.
Ready ==
    /\ At(Root, "wait") /\ posts > 0
    /\ posts' = posts - 1
    /\ Goto(Root, "ready", None)
    /\ UNCHANGED <<tables, out, conn, mail, lost, page>>

SendDiagram ==
    /\ At(Root, "ready")
    /\ UiSend(NewDiagram)
    /\ Goto(Root, "self", None)
    /\ UNCHANGED <<tables, sessions>>

\* Mutant: the actor starts before its node is sent.
RecordNode_Early(k) ==
    /\ \/ At(Root, "self") /\ k = Root
       \/ At(Root, "loop") /\ k \in Actors /\ At(k, "unborn")
    /\ nodes' = [nodes EXCEPT ![k] = [key |-> k, by |-> Root]]
    /\ thread' = [t \in Threads |->
                    IF t = Root THEN [pc |-> "announce", to |-> k]
                    ELSE IF t = k THEN [pc |-> "run", to |-> None]
                    ELSE thread[t]]
    /\ UNCHANGED <<edges, mail, sessions>>

\* A node for the root, and one for each actor it is asked to spawn, goes to
\* the table first and to the page next.
RecordNode(k) ==
    /\ \/ At(Root, "self") /\ k = Root
       \/ At(Root, "loop") /\ k \in Actors /\ At(k, "unborn")
    /\ nodes' = [nodes EXCEPT ![k] = [key |-> k, by |-> Root]]
    /\ Goto(Root, "announce", k)
    /\ UNCHANGED <<edges, mail, sessions>>

\* Only then does the actor start.
Announce ==
    /\ At(Root, "announce")
    /\ UiSend(NewNode(nodes[thread[Root].to]))
    /\ thread' = [t \in Threads |->
                    IF t = Root THEN [pc |-> "loop", to |-> None]
                    ELSE IF t = thread[Root].to THEN [pc |-> "run", to |-> None]
                    ELSE thread[t]]
    /\ UNCHANGED <<tables, sessions>>

-----------------------------------------------------------------------------
(* The instrumentation of the actors' sends.                                *)

Running == {a \in Actors : thread[a].pc # "unborn"}

\* Actor a sends to an actor of this island, or to another island, for which
\* it finds a node or none.
Aim(a, t) ==
    /\ At(a, "run")
    /\ <<a, t>> \in Sends
    /\ t \in Running \cup Islands \cup {Root, Promissary}
    /\ Goto(a, IF t \in Islands /\ nodes[t] = None THEN "name" ELSE "link", t)
    /\ UNCHANGED <<tables, mail, sessions>>

\* new-node and hash-set! for the other island.
NameIsland(a) ==
    /\ At(a, "name")
    /\ nodes' = [nodes EXCEPT ![thread[a].to] = [key |-> thread[a].to, by |-> a]]
    /\ Goto(a, "tell", thread[a].to)
    /\ UNCHANGED <<edges, mail, sessions>>

TellIsland(a) ==
    /\ At(a, "tell")
    /\ UiSend(NewNode([key |-> thread[a].to, by |-> a]))
    /\ Goto(a, "link", thread[a].to)
    /\ UNCHANGED <<tables, sessions>>

HasNode(t) == t \in Keys /\ nodes[t] # None

\* Mutant: whether the edge is there already is not looked at.
Link_Repeated(a) ==
    LET t == thread[a].to
    IN  /\ At(a, "link")
        /\ IF HasNode(t) THEN Goto(a, "connect", t) ELSE Goto(a, "run", None)
        /\ UNCHANGED <<tables, mail, sessions>>

\* add-new-edge: unless the edge is there, and when both ends have a node.
Link(a) ==
    LET t == thread[a].to
    IN  /\ At(a, "link")
        /\ IF <<a, t>> \notin Recorded /\ HasNode(t)
           THEN Goto(a, "connect", t) ELSE Goto(a, "run", None)
        /\ UNCHANGED <<tables, mail, sessions>>

\* The edge is made of the nodes there are by now, and put into the table.
Connect(a) ==
    /\ At(a, "connect")
    /\ edges' = edges \cup {NewEdge(nodes[a], nodes[thread[a].to])}
    /\ Goto(a, "draw", thread[a].to)
    /\ UNCHANGED <<nodes, mail, sessions>>

\* That edge is sent, whatever node its end has got since.
Draw(a) ==
    /\ At(a, "draw")
    /\ \E e \in edges : EndsOf(e) = <<a, thread[a].to>> /\ UiSend(e)
    /\ Goto(a, "run", None)
    /\ UNCHANGED <<tables, sessions>>

-----------------------------------------------------------------------------
RootStep == OpenTab \/ Ready \/ SendDiagram \/ RecordNode(Root) \/ Announce

Instrument(a) == NameIsland(a) \/ TellIsland(a) \/ Link(a) \/ Connect(a) \/ Draw(a)

Serve(p) == Look(p) \/ Claim(p) \/ Greet(p) \/ Deliver(p) \/ DeliverFails(p)

Next ==
    \/ RootStep
    \/ \E a \in Actors : RecordNode(a) \/ Instrument(a) \/ \E t \in Targets : Aim(a, t)
    \/ \E p \in Pages : Load(p) \/ Serve(p) \/ Lose(p)

Spec == Init /\ [][Next]_vars

\* Racket runs every runnable thread, and the browser loads the page it is sent
\* to.  Spawning, sending, loading again and losing a page are under none.
Fairness ==
    /\ WF_vars(RootStep)
    /\ \A a \in Actors : WF_vars(Instrument(a))
    /\ \A p \in Pages : WF_vars(Serve(p))
    /\ \A p \in Pages : WF_vars(p = 1 /\ Load(p))

FairSpec == Spec /\ Fairness

-----------------------------------------------------------------------------
(* Properties.                                                              *)

\* Type correctness.
TypeOK ==
    /\ \A t \in Threads :
          /\ thread[t].pc \in
               IF t = Root THEN {"open", "wait", "ready", "self", "announce", "loop"}
               ELSE {"unborn", "run", "name", "tell", "link", "connect", "draw"}
          /\ thread[t].to \in Targets \cup {None}
    /\ nodes \in [Keys -> Node \cup {None}]
    /\ edges \subseteq Edge
    /\ out \in Pages \cup {None}
    /\ posts \in 0 .. Cardinality(Pages)
    /\ conn \in [Pages -> {"none", "look", "claim", "greet", "serve", "idle", "dead"}]
    /\ mail \in [Pages -> Seq(Item)]
    /\ lost \subseteq Pages
    /\ \A p \in Pages :
          /\ page[p].diagram \in BOOLEAN
          /\ page[p].labelled \subseteq Node /\ page[p].blank \subseteq Node
          /\ page[p].drawn \in Seq(Node \X Node)

\* A page shows an edge before the label of its end only for another island,
\* and only when another actor than the one that made its node has sent there;
\* actors and the root always have their label.
BlankByRace ==
    \A p \in Pages : \A n \in page[p].blank :
        /\ n.key \in Islands
        /\ \E a \in Actors \ {n.by} : <<a, n.key>> \in Recorded

Drawings == UNION {{p} \X DOMAIN page[p].drawn : p \in Pages}

Ends(d) == LET e == page[d[1]].drawn[d[2]] IN <<e[1].key, e[2].key>>

\* Over all pages, an actor's sends to one receiver draw one edge, although the
\* table is looked at in one step and written in another, and an island may get
\* several nodes.
DrawnOnce == \A c, d \in Drawings : Ends(c) = Ends(d) => c = d

\* What is to be drawn, what is, and when edges may be missing: the page that is
\* served was lost, or two claimed the session.
Due ==
    {<<a, thread[a].to>> : a \in {a \in Actors : At(a, "link") /\ thread[a].to # Promissary}}
        \cup Recorded

Shown == {Ends(d) : d \in Drawings}

Served == {p \in Pages : conn[p] \in {"greet", "serve", "dead"}}

Disturbed == Served \cap lost # {} \/ Cardinality(Served) > 1

Abandoned ==
    /\ At(Root, "wait") /\ posts = 0 /\ Served # {}
    /\ \A p \in Pages : conn[p] \in {"none", "idle", "dead"}

\* The root gets to spawn, and every send to an actor or to another island ends
\* up as an edge on the page, whoever races for the receiver's node, whichever
\* tabs come and go and however many claim the session; only the edges are
\* excepted where the diagram is disturbed.  The root is left waiting when every
\* page that claimed the session was closed before its greeting, and then only.
SendsShown == []<>(\/ At(Root, "loop") /\ (Disturbed \/ Due \subseteq Shown)
                  \/ Abandoned)
=============================================================================
