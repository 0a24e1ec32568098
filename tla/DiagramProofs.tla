---------------------------- MODULE DiagramProofs ----------------------------
(****************************************************************************)
(* Theorems about Diagram: type correctness; a pair of actors is drawn once *)
(* on all the pages; a page shows an end without its label for another      *)
(* island and after a race only.                                            *)
(****************************************************************************)
EXTENDS Diagram, FiniteSetTheorems, TLAPS

-----------------------------------------------------------------------------
(* The invariant, in parts.                                                 *)

RootPcs  == {"open", "wait", "ready", "self", "announce", "loop"}
ActorPcs == {"unborn", "run", "name", "tell", "link", "connect", "draw"}
ConnPcs  == {"none", "look", "claim", "greet", "serve", "idle", "dead"}

ThreadType ==
    /\ thread \in [Threads -> [pc : RootPcs \cup ActorPcs, to : Targets \cup {None}]]
    /\ thread[Root].pc \in RootPcs
    /\ \A a \in Actors : thread[a].pc \in ActorPcs

TablesType == nodes \in [Keys -> Node \cup {None}] /\ edges \subseteq Edge

SessionType ==
    /\ out \in Pages \cup {None} /\ posts \in Nat
    /\ conn \in [Pages -> ConnPcs] /\ lost \subseteq Pages

MailType == mail \in [Pages -> Seq(Item)]

Graph == [diagram : BOOLEAN, labelled : SUBSET Node, blank : SUBSET Node,
          drawn : Seq(Node \X Node)]

PageType == page \in [Pages -> Graph]

Types == ThreadType /\ TablesType /\ SessionType /\ MailType /\ PageType

\* A page posts the semaphore once at most: when its connection starts to serve,
\* or ends for want of it.
Greeted == {p \in Pages : conn[p] \in {"serve", "dead"}}

PostsInv == posts <= Cardinality(Greeted)

\* The nodes of the root and of the actors are made by the root, before the
\* actor runs; those of other islands by actors, once there are any.
RootNode(k) == [key |-> k, by |-> Root]

Early == thread[Root].pc \in {"open", "wait", "ready", "self"}

NodesInv ==
    /\ Early => /\ edges = {} /\ \A k \in Islands : nodes[k] = None
                /\ \A a \in Actors : At(a, "unborn")
    /\ At(Root, "announce") =>
          /\ thread[Root].to \in Actors \cup {Root}
          /\ nodes[thread[Root].to] = RootNode(thread[Root].to)
          /\ thread[Root].to \in Actors => At(thread[Root].to, "unborn")
          /\ thread[Root].to = Root => \A a \in Actors : At(a, "unborn")
    /\ At(Root, "loop") \/ (At(Root, "announce") /\ thread[Root].to # Root)
          => nodes[Root] = RootNode(Root)
    /\ \A a \in Actors : ~ At(a, "unborn") => nodes[a] = RootNode(a)
    /\ \A k \in Islands : nodes[k] = None \/ nodes[k] \in [key : {k}, by : Actors]

\* What the label of an actor says about the receiver it sends to.
AimInv ==
    \A a \in Actors :
        /\ thread[a].pc \in {"name", "tell"} => thread[a].to \in Islands
        /\ At(a, "link") =>
              thread[a].to \in Islands \cup Running \cup {Root, Promissary}
        /\ At(a, "connect") =>
              /\ thread[a].to \in Islands \cup Running \cup {Root}
              /\ thread[a].to \in Islands => nodes[thread[a].to] # None
              /\ <<a, thread[a].to>> \notin Recorded
        /\ At(a, "draw") => /\ thread[a].to \in Islands \cup Running \cup {Root}
                            /\ <<a, thread[a].to>> \in Recorded

\* A connection ends for a lost page only; the one that is served has claimed
\* the session.
SessionInv ==
    /\ \A p \in Pages : conn[p] = "dead" => p \in lost
    /\ out \in Pages => conn[out] \in {"greet", "serve", "dead"}

\* A page that has not claimed the session has been sent nothing, and none has
\* before the diagram: one that claims it later does not get it, and its page
\* shows nothing.
UnsentInv ==
    /\ \A p \in Pages : conn[p] \in {"none", "look", "claim", "idle"} =>
          mail[p] = <<>> /\ ~ page[p].diagram
    /\ thread[Root].pc \in {"open", "wait", "ready"} => \A p \in Pages : mail[p] = <<>>

Positions(s) == 1 .. Len(s)

IsEdge(m) == m.item = "diagramedge"

Drawn(p, k) == <<page[p].drawn[k][1].key, page[p].drawn[k][2].key>>

\* An edge that is under way or drawn was recorded, and is in one place; one
\* about to be sent is in none.
MailedOnce ==
    \A p, q \in Pages : \A j \in Positions(mail[p]) : \A k \in Positions(mail[q]) :
        IsEdge(mail[p][j]) /\ IsEdge(mail[q][k]) /\ EndsOf(mail[p][j]) = EndsOf(mail[q][k])
            => p = q /\ j = k

ShownOnce ==
    \A p, q \in Pages : \A j \in Positions(page[p].drawn) : \A k \in Positions(page[q].drawn) :
        Drawn(p, j) = Drawn(q, k) => p = q /\ j = k

ShownOrMailed ==
    \A p, q \in Pages : \A j \in Positions(mail[p]) : \A k \in Positions(page[q].drawn) :
        IsEdge(mail[p][j]) => EndsOf(mail[p][j]) # Drawn(q, k)

MailedRecorded ==
    \A p \in Pages : \A j \in Positions(mail[p]) : IsEdge(mail[p][j]) =>
        /\ EndsOf(mail[p][j]) \in Recorded
        /\ \A a \in Actors : At(a, "draw") => EndsOf(mail[p][j]) # <<a, thread[a].to>>

ShownRecorded ==
    \A p \in Pages : \A k \in Positions(page[p].drawn) :
        /\ Drawn(p, k) \in Recorded
        /\ \A a \in Actors : At(a, "draw") => Drawn(p, k) # <<a, thread[a].to>>

OnceInv == MailedOnce /\ ShownOnce /\ ShownOrMailed /\ MailedRecorded /\ ShownRecorded

\* What a page has, or gets from a message of its mail before position j.
GotDiagram(p, j) ==
    page[p].diagram \/ \E i \in Positions(mail[p]) : i < j /\ mail[p][i] = NewDiagram

GotNode(p, j, n) ==
    \/ n \in page[p].labelled \cup page[p].blank
    \/ \E i \in Positions(mail[p]) : i < j /\ mail[p][i] = NewNode(n)

\* What it has or gets.
GetsDiagram(p) == page[p].diagram \/ \E i \in Positions(mail[p]) : mail[p][i] = NewDiagram

GetsNode(p, n) ==
    \/ n \in page[p].labelled \cup page[p].blank
    \/ \E i \in Positions(mail[p]) : mail[p][i] = NewNode(n)

\* Another actor than its maker has sent to an island's node.
Raced(n) == n.key \in Islands /\ \E a \in Actors \ {n.by} : <<a, n.key>> \in Recorded

\* A page that gets the diagram gets it before the nodes and edges, and a node
\* before the edges that end there, unless there was a race.
MailOrder ==
    \A p \in Pages \ lost : GetsDiagram(p) => \A j \in Positions(mail[p]) :
        /\ mail[p][j].item # "diagram" => GotDiagram(p, j)
        /\ IsEdge(mail[p][j]) =>
              \A n \in {mail[p][j].from, mail[p][j].to} : GotNode(p, j, n) \/ Raced(n)

\* The page that is served, if it was sent the diagram, has been sent every node,
\* but for the one about to be sent, and the ends of every edge that there is.
Told(k) ==
    \/ k = Root /\ (At(Root, "loop") \/ (At(Root, "announce") /\ thread[Root].to # Root))
    \/ k \in Actors /\ ~ At(k, "unborn")
    \/ /\ k \in Islands /\ nodes[k] # None
       /\ ~ (At(nodes[k].by, "tell") /\ thread[nodes[k].by].to = k)

Awake == thread[Root].pc \in {"self", "announce", "loop"}

ServedInv ==
    \A p \in Pages \ lost :
        out = p /\ Awake /\ GetsDiagram(p) =>
            /\ \A k \in Keys : Told(k) => GetsNode(p, nodes[k])
            /\ \A e \in edges : \A n \in {e.from, e.to} : GetsNode(p, n) \/ Raced(n)

BlankInv == \A p \in Pages : \A n \in page[p].blank : Raced(n)

Inv ==
    /\ Types /\ PostsInv /\ NodesInv /\ AimInv /\ SessionInv /\ UnsentInv
    /\ OnceInv /\ MailOrder /\ ServedInv /\ BlankInv

-----------------------------------------------------------------------------
(* The steps.                                                               *)

\* What no step of the session touches, and what no step of a thread does.
TablesKept == thread' = thread /\ nodes' = nodes /\ edges' = edges

SessionKept == out' = out /\ posts' = posts /\ conn' = conn /\ lost' = lost /\ page' = page

\* No two of the names of an instance are the same.
LEMMA Names ==
    /\ Actors \cap Islands = {} /\ Root \notin Actors \cup Islands
    /\ Promissary \notin Keys /\ None \notin Keys \cup Targets \cup Pages
    /\ Keys \subseteq Targets /\ Actors \subseteq Threads /\ Root \in Threads
    /\ None \notin Node
  BY DiagramAssumption DEF Keys, Targets, Threads, Pages, Node

\* ui-send! appends to the mailbox of the session's page, unless its thread
\* has ended.
LEMMA SentTo ==
    ASSUME SessionType, MailType, NEW m \in Item, UiSend(m)
    PROVE  /\ MailType'
           /\ \A p \in Pages : p # out \/ conn[p] = "dead" => mail'[p] = mail[p]
           /\ \A p \in Pages : p = out /\ conn[p] # "dead" =>
                 mail'[p] = Append(mail[p], m)
  <1>1. CASE out \in Pages /\ conn[out] # "dead"
    <2>1. Append(mail[out], m) \in Seq(Item)
      BY <1>1 DEF MailType
    <2>2. mail' = [mail EXCEPT ![out] = Append(mail[out], m)]
      BY <1>1 DEF UiSend
    <2> QED
      BY <1>1, <2>1, <2>2 DEF MailType
  <1>2. CASE out \notin Pages \/ conn[out] = "dead"
    BY <1>2 DEF MailType, UiSend
  <1> QED
    BY <1>1, <1>2

\* What a thread does next is what Goto says.
LEMMA Gone ==
    ASSUME ThreadType, NEW t \in Threads, NEW pc, NEW k \in Targets \cup {None}, Goto(t, pc, k),
           pc \in IF t = Root THEN RootPcs ELSE ActorPcs
    PROVE  /\ ThreadType'
           /\ thread'[t].pc = pc /\ thread'[t].to = k
           /\ \A u \in Threads \ {t} : thread'[u] = thread[u]
  <1>1. thread' = [thread EXCEPT ![t] = [pc |-> pc, to |-> k]]
    BY DEF Goto
  <1>2. [pc |-> pc, to |-> k] \in [pc : RootPcs \cup ActorPcs, to : Targets \cup {None}]
    OBVIOUS
  <1> QED
    BY <1>1, <1>2, Names DEF ThreadType, Threads
\* The steps of the session leave the threads and the tables alone; those of the
\* threads leave the session alone, but for the semaphore.
LEMMA SessionSteps ==
    ASSUME NEW p \in Pages, Load(p) \/ Serve(p) \/ Lose(p)
    PROVE  TablesKept
  BY DEF Serve, Load, Look, Claim, Greet, Deliver, DeliverFails, Lose, TablesKept, tables

LEMMA ThreadSteps ==
    /\ OpenTab \/ SendDiagram \/ Announce => SessionKept
    /\ \A k \in Actors \cup {Root} : RecordNode(k) => SessionKept
    /\ \A a \in Actors : Instrument(a) => SessionKept
    /\ \A a \in Actors, t \in Targets : Aim(a, t) => SessionKept
  BY DEF OpenTab, SendDiagram, RecordNode, Announce, Instrument, NameIsland, TellIsland,
         Link, Connect, Draw, Aim, SessionKept, sessions

\* The two ends of the edge an actor makes have a node, and the edge is between
\* the two.
LEMMA Connected ==
    ASSUME Types, NodesInv, AimInv, NEW a \in Actors, At(a, "connect"),
           NEW t, t = thread[a].to, NEW e, e = NewEdge(nodes[a], nodes[t])
    PROVE  /\ t \in Targets /\ t \in Keys /\ nodes[t] \in Node
           /\ e \in Edge /\ e.from = nodes[a] /\ e.to = nodes[t]
           /\ nodes[t].key = t /\ EndsOf(e) = <<a, t>>
           /\ nodes[a] = RootNode(a)
  <1>1. nodes[a] = RootNode(a) /\ nodes[a] \in Node
    BY Names DEF NodesInv, At, RootNode, Node, Keys, Threads
  <1>2. t \in Islands \cup Running \cup {Root} /\ (t \in Islands => nodes[t] # None)
    BY DEF AimInv
  <1>3. nodes[t] \in Node /\ nodes[t].key = t
    <2>1. CASE t \in Islands
      <3>1. nodes[t] \in [key : {t}, by : Actors]
        BY <1>2, <2>1 DEF NodesInv
      <3> QED
        BY <3>1, <2>1, Names DEF Node, Keys
    <2>2. CASE t \in Running \cup {Root}
      <3>1. thread[Root].pc \in {"announce", "loop"}
        BY DEF NodesInv, At, Early, Types, ThreadType, RootPcs
      <3>2. nodes[t] = RootNode(t)
        BY <2>2, <3>1 DEF NodesInv, At, Running
      <3>3. t \in Keys
        BY <2>2 DEF Running, Keys
      <3> QED
        BY <3>2, <3>3, Names DEF Node, RootNode
    <2> QED
      BY <1>2, <2>1, <2>2
  <1>4. t \in Targets /\ t \in Keys
    BY <1>2 DEF Targets, Keys, Running
  <1> QED
    BY <1>1, <1>3, <1>4 DEF NewEdge, Edge, EndsOf, RootNode

\* The edge is the one recorded.
LEMMA ConnectRecords ==
    ASSUME Types, NodesInv, AimInv, NEW a \in Actors, Connect(a)
    PROVE  Recorded' = Recorded \cup {<<a, thread[a].to>>}
  <1>1. PICK e : e = NewEdge(nodes[a], nodes[thread[a].to])
    OBVIOUS
  <1>2. EndsOf(e) = <<a, thread[a].to>>
    BY <1>1, Connected DEF Connect
  <1>3. edges' = edges \cup {e}
    BY <1>1 DEF Connect
  <1> QED
    BY <1>2, <1>3 DEF Recorded

-----------------------------------------------------------------------------
(* Types.                                                                   *)

\* Every thread and every table keeps its type.
LEMMA ThreadsTyped ==
    ASSUME Types, NodesInv, AimInv, Next
    PROVE  ThreadType' /\ TablesType'
  <1> USE DEF Types
  <1>1. ThreadType /\ TablesType
    OBVIOUS
  <1>2. ASSUME TablesKept PROVE ThreadType' /\ TablesType'
    BY <1>2 DEF TablesKept, ThreadType, TablesType, At
  <1>3. CASE OpenTab
    BY <1>3, Gone, Names DEF OpenTab, At, tables, TablesType, RootPcs, Threads
  <1>4. CASE Ready
    BY <1>4, Gone, Names DEF Ready, At, tables, TablesType, RootPcs, Threads
  <1>5. CASE SendDiagram
    BY <1>5, Gone, Names DEF SendDiagram, At, tables, TablesType, RootPcs, Threads
  <1>6. ASSUME NEW k \in Actors \cup {Root}, RecordNode(k) PROVE ThreadType' /\ TablesType'
    <2>1. [key |-> k, by |-> Root] \in Node /\ k \in Keys /\ k \in Targets
      BY Names DEF Node, Keys, Threads, Targets
    <2>2. Goto(Root, "announce", k) /\ nodes' = [nodes EXCEPT ![k] = [key |-> k, by |-> Root]]
          /\ edges' = edges
      BY <1>6 DEF RecordNode
    <2>3. ThreadType'
      BY <2>1, <2>2, Gone, Names DEF RootPcs
    <2> QED
      BY <2>1, <2>2, <2>3 DEF TablesType
  <1>7. CASE Announce
    <2> DEFINE to == thread[Root].to
    <2>1. thread' = [t \in Threads |->
                      IF t = Root THEN [pc |-> "loop", to |-> None]
                      ELSE IF t = to THEN [pc |-> "run", to |-> None]
                      ELSE thread[t]]
      BY <1>7 DEF Announce
    <2>2. ThreadType'
      BY <2>1, Names DEF ThreadType, RootPcs, ActorPcs, Threads
    <2> QED
      BY <1>7, <2>2 DEF Announce, tables, TablesType
  <1>8. ASSUME NEW a \in Actors, NEW t \in Targets, Aim(a, t) PROVE ThreadType' /\ TablesType'
    <2>1. Goto(a, IF t \in Islands /\ nodes[t] = None THEN "name" ELSE "link", t)
          /\ nodes' = nodes /\ edges' = edges
      BY <1>8 DEF Aim, tables
    <2> QED
      BY <2>1, Gone, Names DEF TablesType, ActorPcs
  <1>9. ASSUME NEW a \in Actors, NameIsland(a) PROVE ThreadType' /\ TablesType'
    <2>1. thread[a].to \in Islands
      BY <1>9, Names DEF AimInv, NameIsland, At
    <2>2. [key |-> thread[a].to, by |-> a] \in Node /\ thread[a].to \in Keys /\ thread[a].to \in Targets
      BY <2>1, Names DEF Node, Keys, Targets
    <2>3. Goto(a, "tell", thread[a].to) /\ edges' = edges
          /\ nodes' = [nodes EXCEPT ![thread[a].to] = [key |-> thread[a].to, by |-> a]]
      BY <1>9 DEF NameIsland
    <2>4. ThreadType'
      BY <2>2, <2>3, Gone, Names DEF ActorPcs
    <2> QED
      BY <2>2, <2>3, <2>4 DEF TablesType
  <1>10. ASSUME NEW a \in Actors, TellIsland(a) PROVE ThreadType' /\ TablesType'
    <2>1. thread[a].to \in Islands
      BY <1>10, Names DEF AimInv, TellIsland, At
    <2>2. Goto(a, "link", thread[a].to) /\ nodes' = nodes /\ edges' = edges
      BY <1>10 DEF TellIsland, tables
    <2> QED
      BY <2>1, <2>2, Gone, Names DEF TablesType, ActorPcs, Targets
  <1>11. ASSUME NEW a \in Actors, Link(a) PROVE ThreadType' /\ TablesType'
    <2>1. nodes' = nodes /\ edges' = edges /\ thread[a].to \in Targets
      BY <1>11, Names DEF Link, tables, AimInv, At, Running, Targets
    <2>2. Goto(a, "connect", thread[a].to) \/ Goto(a, "run", None)
      BY <1>11 DEF Link
    <2> QED
      BY <2>1, <2>2, Gone, Names DEF TablesType, ActorPcs
  <1>12. ASSUME NEW a \in Actors, Connect(a) PROVE ThreadType' /\ TablesType'
    <2>1. PICK t, e : t = thread[a].to /\ e = NewEdge(nodes[a], nodes[t])
      OBVIOUS
    <2>2. At(a, "connect") /\ Goto(a, "draw", t) /\ nodes' = nodes /\ edges' = edges \cup {e}
      BY <1>12, <2>1 DEF Connect
    <2>3. t \in Targets /\ e \in Edge
      BY <2>1, <2>2, Connected
    <2> QED
      BY <2>2, <2>3, Gone, Names DEF TablesType, ActorPcs
  <1>13. ASSUME NEW a \in Actors, Draw(a) PROVE ThreadType' /\ TablesType'
    <2>1. Goto(a, "run", None) /\ nodes' = nodes /\ edges' = edges
      BY <1>13 DEF Draw, tables
    <2> QED
      BY <2>1, Gone, Names DEF TablesType, ActorPcs
  <1> QED
    BY <1>2, <1>3, <1>4, <1>5, <1>6, <1>7, <1>8, <1>9, <1>10, <1>11, <1>12, <1>13,
       SessionSteps DEF Next, RootStep, Instrument

\* The session keeps its type.
LEMMA SessionTyped ==
    ASSUME SessionType, Next
    PROVE  SessionType'
  <1>1. ASSUME SessionKept PROVE SessionType'
    BY <1>1 DEF SessionKept, SessionType
  <1>2. CASE Ready
    BY <1>2 DEF Ready, SessionType, tables
  <1>3. ASSUME NEW p \in Pages, Load(p) PROVE SessionType'
    BY <1>3 DEF Load, SessionType, ConnPcs
  <1>4. ASSUME NEW p \in Pages, Look(p) PROVE SessionType'
    BY <1>4 DEF Look, SessionType, ConnPcs
  <1>5. ASSUME NEW p \in Pages, Claim(p) PROVE SessionType'
    BY <1>5 DEF Claim, SessionType, ConnPcs
  <1>6. ASSUME NEW p \in Pages, Greet(p) PROVE SessionType'
    BY <1>6 DEF Greet, SessionType, ConnPcs
  <1>7. ASSUME NEW p \in Pages, Deliver(p) PROVE SessionType'
    BY <1>7 DEF Deliver, SessionType
  <1>8. ASSUME NEW p \in Pages, DeliverFails(p) PROVE SessionType'
    BY <1>8 DEF DeliverFails, SessionType, ConnPcs
  <1>9. ASSUME NEW p \in Pages, Lose(p) PROVE SessionType'
    BY <1>9 DEF Lose, SessionType
  <1> QED
    BY <1>1, <1>2, <1>3, <1>4, <1>5, <1>6, <1>7, <1>8, <1>9, ThreadSteps
    DEF Next, RootStep, Serve

\* What is sent to the page is an item: nodes are sent once they are made.
LEMMA MessageTyped ==
    ASSUME Types, NodesInv, AimInv
    PROVE  /\ NewDiagram \in Item
           /\ At(Root, "announce") => NewNode(nodes[thread[Root].to]) \in Item
           /\ \A a \in Actors : At(a, "tell") => NewNode([key |-> thread[a].to, by |-> a]) \in Item
           /\ edges \subseteq Item
  <1>1. NewDiagram \in Item
    BY DEF Item, NewDiagram
  <1>2. ASSUME At(Root, "announce") PROVE NewNode(nodes[thread[Root].to]) \in Item
    <2>1. nodes[thread[Root].to] \in Node
      BY <1>2, Names DEF NodesInv, RootNode, Node, Keys, Threads
    <2> QED
      BY <2>1 DEF Item, NewNode
  <1>3. ASSUME NEW a \in Actors, At(a, "tell") PROVE NewNode([key |-> thread[a].to, by |-> a]) \in Item
    <2>1. [key |-> thread[a].to, by |-> a] \in Node
      BY <1>3, Names DEF AimInv, At, Node, Keys, Threads
    <2> QED
      BY <2>1 DEF Item, NewNode
  <1>4. edges \subseteq Item
    BY DEF Types, TablesType, Item
  <1> QED
    BY <1>1, <1>2, <1>3, <1>4

\* What onmessage makes of a graph is a graph.
LEMMA HandleTyped ==
    ASSUME NEW g \in Graph, NEW m \in Item
    PROVE  Handle(g, m) \in Graph
  <1>1. CASE m.item = "diagram"
    BY <1>1 DEF Handle, AddDiagram, Graph
  <1>2. CASE m.item = "diagramnode"
    <2>1. m.node \in Node
      BY <1>2 DEF Item, Edge
    <2> QED
      BY <1>2, <2>1 DEF Handle, AddNode, Graph
  <1>3. CASE m.item = "diagramedge"
    <2>1. m.from \in Node /\ m.to \in Node
      BY <1>3 DEF Item, Edge
    <2>2. Append(g.drawn, <<m.from, m.to>>) \in Seq(Node \X Node)
      BY <2>1 DEF Graph
    <2>3. AddEdge(g, m.from, m.to) \in Graph
      BY <2>1, <2>2 DEF AddEdge, Graph
    <2> QED
      BY <1>3, <2>3 DEF Handle
  <1> QED
    BY <1>1, <1>2, <1>3 DEF Item, Edge

\* The mailboxes and the pages keep their types.
LEMMA MailTyped ==
    ASSUME Types, NodesInv, AimInv, Next
    PROVE  MailType' /\ PageType'
  <1> USE DEF Types
  <1>1. ASSUME mail' = mail, page' = page PROVE MailType' /\ PageType'
    BY <1>1 DEF MailType, PageType
  <1>2. ASSUME NEW m \in Item, UiSend(m), page' = page PROVE MailType' /\ PageType'
    BY <1>2, SentTo DEF PageType
  <1>3. ASSUME NEW p \in Pages, Deliver(p) PROVE MailType' /\ PageType'
    <2>1. /\ mail[p] # <<>> /\ mail[p] \in Seq(Item)
          /\ mail' = [mail EXCEPT ![p] = Tail(@)]
          /\ page' = [page EXCEPT ![p] = Handle(@, Head(mail[p]))]
      BY <1>3 DEF Deliver, MailType
    <2>2. Head(mail[p]) \in Item /\ Tail(mail[p]) \in Seq(Item)
      BY <2>1
    <2>3. Handle(page[p], Head(mail[p])) \in Graph
      BY <2>2, HandleTyped DEF PageType
    <2> QED
      BY <2>1, <2>2, <2>3 DEF MailType, PageType
  <1>4. ASSUME NEW p \in Pages, DeliverFails(p) PROVE MailType' /\ PageType'
    <2>1. /\ mail[p] # <<>> /\ mail[p] \in Seq(Item) /\ page' = page
          /\ \/ mail' = [mail EXCEPT ![p] = Tail(@)]
             \/ mail' = [mail EXCEPT ![p] = <<>>]
      BY <1>4 DEF DeliverFails, MailType
    <2>2. Tail(mail[p]) \in Seq(Item) /\ <<>> \in Seq(Item)
      BY <2>1
    <2> QED
      BY <2>1, <2>2 DEF MailType, PageType
  <1>5. ASSUME NEW p \in Pages, Lose(p) PROVE MailType' /\ PageType'
    <2>1. EmptyPage \in Graph
      <3>1. <<>> \in Seq(Node \X Node)
        OBVIOUS
      <3> QED
        BY <3>1 DEF EmptyPage, Graph
    <2> QED
      BY <1>5, <2>1 DEF Lose, MailType, PageType
  <1>6. CASE OpenTab \/ Ready
    BY <1>1, <1>6 DEF OpenTab, Ready, sessions
  <1>7. CASE SendDiagram
    BY <1>2, <1>7, MessageTyped DEF SendDiagram, sessions
  <1>8. CASE Announce
    BY <1>2, <1>8, MessageTyped DEF Announce, sessions
  <1>9. ASSUME NEW k \in Actors \cup {Root}, RecordNode(k) PROVE MailType' /\ PageType'
    BY <1>1, <1>9 DEF RecordNode, sessions
  <1>10. ASSUME NEW a \in Actors, NEW t \in Targets, Aim(a, t) \/ NameIsland(a) \/ Link(a) \/ Connect(a)
         PROVE  MailType' /\ PageType'
    BY <1>1, <1>10 DEF Aim, NameIsland, Link, Connect, sessions
  <1>11. ASSUME NEW a \in Actors, TellIsland(a) PROVE MailType' /\ PageType'
    BY <1>2, <1>11, MessageTyped DEF TellIsland, sessions
  <1>12. ASSUME NEW a \in Actors, Draw(a) PROVE MailType' /\ PageType'
    BY <1>2, <1>12, MessageTyped DEF Draw, sessions
  <1>13. ASSUME NEW p \in Pages, Load(p) \/ Look(p) \/ Claim(p) \/ Greet(p)
         PROVE  MailType' /\ PageType'
    BY <1>1, <1>13 DEF Load, Look, Claim, Greet
  <1>14. Targets # {}
    BY DEF Targets
  <1> QED
    BY <1>3, <1>4, <1>5, <1>6, <1>7, <1>8, <1>9, <1>10, <1>11, <1>12, <1>13, <1>14
    DEF Next, RootStep, Instrument, Serve

-----------------------------------------------------------------------------
(* The control of the root and the actors.                                  *)

\* Nodes are made as NodesInv says.
LEMMA NodesKept ==
    ASSUME Types, NodesInv, AimInv, Next
    PROVE  NodesInv'
  <1> USE DEF Types
  <1>1. ASSUME TablesKept PROVE NodesInv'
    BY <1>1 DEF TablesKept, NodesInv, Early, At
  <1>2. ASSUME OpenTab \/ Ready \/ SendDiagram PROVE NodesInv'
    <2>1. PICK pc \in {"wait", "ready", "self"} : Goto(Root, pc, None)
      BY <1>2 DEF OpenTab, Ready, SendDiagram
    <2>2. thread[Root].pc \in {"open", "wait", "ready"} /\ nodes' = nodes /\ edges' = edges
      BY <1>2 DEF OpenTab, Ready, SendDiagram, tables, At
    <2>3. thread'[Root].pc = pc /\ \A a \in Actors : thread'[a] = thread[a]
      BY <2>1, Gone, Names DEF RootPcs
    <2> QED
      BY <2>2, <2>3 DEF NodesInv, Early, At, RootNode
  <1>3. ASSUME NEW k \in Actors \cup {Root}, RecordNode(k) PROVE NodesInv'
    <2>1. /\ Goto(Root, "announce", k) /\ nodes' = [nodes EXCEPT ![k] = RootNode(k)]
          /\ \/ At(Root, "self") /\ k = Root
             \/ At(Root, "loop") /\ k \in Actors /\ At(k, "unborn")
      BY <1>3 DEF RecordNode, RootNode
    <2>2. k \in Keys /\ k \in Targets
      BY Names DEF Keys, Targets
    <2>3. /\ thread'[Root].pc = "announce" /\ thread'[Root].to = k
          /\ \A a \in Actors : thread'[a] = thread[a]
      BY <2>1, <2>2, Gone, Names DEF RootPcs
    <2>4. nodes'[k] = RootNode(k) /\ \A i \in Keys \ {k} : nodes'[i] = nodes[i]
      BY <2>1, <2>2 DEF TablesType
    <2>5. Actors \cup Islands \cup {Root} = Keys
      BY DEF Keys
    <2> QED
      BY <2>1, <2>3, <2>4, <2>5, Names DEF NodesInv, Early, At
  <1>4. ASSUME Announce PROVE NodesInv'
    <2> DEFINE to == thread[Root].to
    <2>1. /\ thread' = [t \in Threads |->
                      IF t = Root THEN [pc |-> "loop", to |-> None]
                      ELSE IF t = to THEN [pc |-> "run", to |-> None]
                      ELSE thread[t]]
          /\ nodes' = nodes /\ At(Root, "announce")
      BY <1>4 DEF Announce, tables
    <2>2. /\ thread'[Root].pc = "loop"
          /\ \A a \in Actors : thread'[a] = IF a = to THEN [pc |-> "run", to |-> None] ELSE thread[a]
      BY <2>1, Names
    <2> QED
      BY <2>1, <2>2, Names DEF NodesInv, Early, At, RootNode
  <1>5. ASSUME NEW a \in Actors, NEW pc \in ActorPcs \ {"unborn"}, NEW k \in Targets \cup {None},
               Goto(a, pc, k), ~ At(a, "unborn"), nodes' = nodes
        PROVE  NodesInv'
    <2>1. /\ thread'[a].pc = pc /\ thread'[Root] = thread[Root]
          /\ \A b \in Actors \ {a} : thread'[b] = thread[b]
      BY <1>5, Gone, Names
    <2> QED
      BY <1>5, <2>1 DEF NodesInv, Early, At, RootNode
  <1>6. ASSUME NEW a \in Actors, NEW t \in Targets, Aim(a, t) PROVE NodesInv'
    BY <1>5, <1>6 DEF Aim, At, ActorPcs, tables
  <1>7. ASSUME NEW a \in Actors, NameIsland(a) PROVE NodesInv'
    <2> DEFINE t == thread[a].to
    <2>1. /\ At(a, "name") /\ Goto(a, "tell", t)
          /\ nodes' = [nodes EXCEPT ![t] = [key |-> t, by |-> a]]
      BY <1>7 DEF NameIsland
    <2>2. t \in Islands /\ t \in Targets /\ t \in Keys
      BY <2>1 DEF AimInv, At, Targets, Keys
    <2>3. /\ thread'[a].pc = "tell" /\ thread'[Root] = thread[Root]
          /\ \A b \in Actors \ {a} : thread'[b] = thread[b]
      BY <2>1, <2>2, Gone, Names DEF ActorPcs
    <2>4. nodes'[t] = [key |-> t, by |-> a] /\ \A i \in Keys \ {t} : nodes'[i] = nodes[i]
      BY <2>1, <2>2 DEF TablesType
    <2>5. Actors \cup Islands \cup {Root} = Keys
      BY DEF Keys
    <2>6. ~ Early /\ ~ Early'
      BY <2>1, <2>3 DEF NodesInv, Early, At
    <2>7. \A b \in Actors : At(b, "unborn")' <=> At(b, "unborn")
      BY <2>1, <2>3 DEF At
    <2>8. \A b \in Actors \cup {Root} : nodes'[b] = nodes[b]
      BY <2>2, <2>4, <2>5, Names
    <2>9. \A k \in Islands : nodes'[k] = None \/ nodes'[k] \in [key : {k}, by : Actors]
      BY <2>4, <2>5 DEF NodesInv
    <2> QED
      BY <2>3, <2>6, <2>7, <2>8, <2>9 DEF NodesInv, At, RootNode
  <1>8. ASSUME NEW a \in Actors, TellIsland(a) PROVE NodesInv'
    BY <1>5, <1>8 DEF TellIsland, At, ActorPcs, tables, AimInv, Targets
  <1>9. ASSUME NEW a \in Actors, Link(a) PROVE NodesInv'
    <2>1. At(a, "link") /\ nodes' = nodes /\ thread[a].to \in Targets
      BY <1>9 DEF Link, At, AimInv, Targets, Running, tables
    <2>2. \/ Goto(a, "connect", thread[a].to) \/ Goto(a, "run", None)
      BY <1>9 DEF Link
    <2> QED
      BY <1>5, <2>1, <2>2 DEF At, ActorPcs
  <1>10. ASSUME NEW a \in Actors, Connect(a) PROVE NodesInv'
    <2>1. At(a, "connect") /\ nodes' = nodes /\ Goto(a, "draw", thread[a].to)
      BY <1>10 DEF Connect
    <2>2. thread[a].to \in Targets
      BY <2>1, Connected
    <2> QED
      BY <1>5, <2>1, <2>2 DEF At, ActorPcs
  <1>11. ASSUME NEW a \in Actors, Draw(a) PROVE NodesInv'
    BY <1>5, <1>11 DEF Draw, At, ActorPcs, tables
  <1> QED
    BY <1>1, <1>2, <1>3, <1>4, <1>6, <1>7, <1>8, <1>9, <1>10, <1>11, SessionSteps
    DEF Next, RootStep, Instrument

\* An actor that has started does not stop, an island that has a node keeps
\* one, and edges stay.
LEMMA Grown ==
    ASSUME Types, NodesInv, AimInv, Next
    PROVE  /\ Running \subseteq Running'
           /\ edges \subseteq edges' /\ Recorded \subseteq Recorded'
           /\ \A k \in Islands : nodes[k] # None => nodes'[k] # None
  <1> USE DEF Types
  <1>1. ASSUME NEW a \in Actors, ~ At(a, "unborn") PROVE ~ At(a, "unborn")'
    <2>1. CASE TablesKept
      BY <1>1, <2>1 DEF TablesKept, At
    <2>2. CASE OpenTab \/ Ready \/ SendDiagram \/ \E k \in Actors \cup {Root} : RecordNode(k)
      BY <1>1, <2>2, Names DEF OpenTab, Ready, SendDiagram, RecordNode, Goto, At, ThreadType
    <2>3. CASE Announce
      BY <1>1, <2>3, Names DEF Announce, At, ThreadType
    <2>4. ASSUME NEW b \in Actors, Instrument(b) \/ \E t \in Targets : Aim(b, t)
          PROVE  ~ At(a, "unborn")'
      <3>1. \E pc \in ActorPcs \ {"unborn"} : \E k : Goto(b, pc, k)
        BY <2>4 DEF Instrument, NameIsland, TellIsland, Link, Connect, Draw, Aim, ActorPcs
      <3> QED
        BY <1>1, <3>1, Names DEF Goto, At, ThreadType
    <2> QED
      BY <2>1, <2>2, <2>3, <2>4, SessionSteps DEF Next, RootStep
  <1>2. edges \subseteq edges'
    <2>1. TablesKept => edges' = edges
      BY Zenon DEF TablesKept
    <2>2. RootStep => edges' = edges
      BY DEF RootStep, OpenTab, Ready, SendDiagram, RecordNode, Announce, tables
    <2>3. ASSUME NEW a \in Actors PROVE RecordNode(a) \/ Instrument(a) => edges \subseteq edges'
      BY DEF RecordNode, Instrument, NameIsland, TellIsland, Link, Connect, Draw, tables
    <2>4. ASSUME NEW a \in Actors, NEW t \in Targets PROVE Aim(a, t) => edges' = edges
      BY DEF Aim, tables
    <2> QED
      BY <2>1, <2>2, <2>3, <2>4, SessionSteps DEF Next
  <1>3. ASSUME NEW k \in Islands, nodes[k] # None PROVE nodes'[k] # None
    <2>1. nodes' = nodes \/ (\E i \in Actors \cup {Root} : RecordNode(i))
          \/ \E a \in Actors : NameIsland(a)
      BY SessionSteps DEF Next, RootStep, OpenTab, Ready, SendDiagram, Announce, tables,
         Instrument, TellIsland, Link, Connect, Draw, Aim, TablesKept
    <2>2. ASSUME NEW i \in Actors \cup {Root}, RecordNode(i) PROVE nodes'[k] = nodes[k]
      BY <2>2, Names DEF RecordNode, TablesType, Keys
    <2>3. ASSUME NEW a \in Actors, NameIsland(a) PROVE nodes'[k] # None
      <3>1. CASE thread[a].to = k
        <4>1. nodes'[k] = [key |-> k, by |-> a]
          BY <2>3, <3>1 DEF NameIsland, TablesType, Keys
        <4>2. [key |-> k, by |-> a] \in Node
          BY Names DEF Node, Keys
        <4> QED
          BY <4>1, <4>2, Names
      <3>2. CASE thread[a].to # k
        BY <1>3, <2>3, <3>2 DEF NameIsland, TablesType, Keys
      <3> QED
        BY <3>1, <3>2
    <2> QED
      BY <1>3, <2>1, <2>2, <2>3
  <1> QED
    BY <1>1, <1>2, <1>3 DEF Running, At, Recorded

\* What an actor's label says about its receiver stays true.
LEMMA AimKept ==
    ASSUME Types, NodesInv, AimInv, Next
    PROVE  AimInv'
  <1> USE DEF Types
  <1>1. /\ Running \subseteq Running' /\ Recorded \subseteq Recorded'
        /\ \A k \in Islands : nodes[k] # None => nodes'[k] # None
    BY Grown
  <1>2. ASSUME \A a \in Actors : thread'[a] = thread[a] \/ thread'[a].pc \in {"unborn", "run"},
               Recorded' = Recorded
        PROVE  AimInv'
    BY <1>1, <1>2 DEF AimInv, At
  <1>3. edges' = edges => Recorded' = Recorded
    BY DEF Recorded
  <1>4. CASE OpenTab \/ Ready \/ SendDiagram \/ \E k \in Actors \cup {Root} : RecordNode(k)
    BY <1>2, <1>3, <1>4, Names
    DEF OpenTab, Ready, SendDiagram, RecordNode, Goto, ThreadType, tables
  <1>5. CASE Announce
    BY <1>2, <1>3, <1>5, Names DEF Announce, ThreadType, tables
  <1>6. ASSUME NEW a \in Actors, NEW pc \in ActorPcs, NEW k \in Targets, Goto(a, pc, k),
               \A b \in Actors \ {a} : \A i : <<b, i>> \in Recorded' => <<b, i>> \in Recorded,
               \/ pc \in {"name", "tell"} /\ k \in Islands
               \/ pc = "link" /\ k \in Islands \cup Running \cup {Root, Promissary}
               \/ /\ pc \in {"connect", "draw"} /\ k \in Islands \cup Running \cup {Root}
                  /\ pc = "connect" => <<a, k>> \notin Recorded' /\ (k \in Islands => nodes[k] # None)
                  /\ pc = "draw" => <<a, k>> \in Recorded'
        PROVE  AimInv'
    <2>1. /\ thread'[a].pc = pc /\ thread'[a].to = k
          /\ \A b \in Actors \ {a} : thread'[b] = thread[b]
      BY <1>6, Gone, Names
    <2> QED
      BY <1>1, <1>6, <2>1 DEF AimInv, At
  <1>7. ASSUME NEW a \in Actors, NEW t \in Targets, Aim(a, t) PROVE AimInv'
    <2>1. t \in Running \cup Islands \cup {Root, Promissary} /\ edges' = edges
          /\ Goto(a, IF t \in Islands /\ nodes[t] = None THEN "name" ELSE "link", t)
      BY <1>7 DEF Aim, tables
    <2> QED
      BY <1>3, <1>6, <2>1 DEF ActorPcs
  <1>8. ASSUME NEW a \in Actors, NameIsland(a) PROVE AimInv'
    <2>1. thread[a].to \in Islands /\ thread[a].to \in Targets
      BY <1>8 DEF NameIsland, At, AimInv, Targets
    <2>2. Goto(a, "tell", thread[a].to) /\ Recorded' = Recorded
      BY <1>3, <1>8 DEF NameIsland
    <2> QED
      BY <1>6, <2>1, <2>2 DEF ActorPcs
  <1>9. ASSUME NEW a \in Actors, TellIsland(a) PROVE AimInv'
    <2>1. thread[a].to \in Islands /\ thread[a].to \in Targets
      BY <1>9 DEF TellIsland, At, AimInv, Targets
    <2>2. Goto(a, "link", thread[a].to) /\ Recorded' = Recorded
      BY <1>3, <1>9 DEF TellIsland, tables
    <2> QED
      BY <1>6, <2>1, <2>2 DEF ActorPcs
  <1>10. ASSUME NEW a \in Actors, Link(a) PROVE AimInv'
    <2>1. PICK t : t = thread[a].to
      OBVIOUS
    <2>2. t \in Islands \cup Running \cup {Root, Promissary} /\ Recorded' = Recorded
      BY <1>3, <1>10, <2>1 DEF Link, AimInv, tables
    <2>3. \/ <<a, t>> \notin Recorded /\ HasNode(t) /\ Goto(a, "connect", t)
          \/ Goto(a, "run", None)
      BY <1>10, <2>1 DEF Link
    <2>4. CASE Goto(a, "run", None)
      BY <1>2, <2>2, <2>4, Names DEF Goto, ThreadType
    <2>5. CASE <<a, t>> \notin Recorded /\ HasNode(t) /\ Goto(a, "connect", t)
      <3>1. t \in Keys /\ nodes[t] # None
        BY <2>5 DEF HasNode
      <3>2. t \in Islands \cup Running \cup {Root} /\ t \in Targets
        BY <2>2, <3>1, Names
      <3> QED
        BY <1>6, <2>2, <2>5, <3>1, <3>2 DEF ActorPcs
    <2> QED
      BY <2>3, <2>4, <2>5
  <1>11. ASSUME NEW a \in Actors, Connect(a) PROVE AimInv'
    <2>1. PICK t : t = thread[a].to
      OBVIOUS
    <2>2. At(a, "connect") /\ Goto(a, "draw", t)
      BY <1>11, <2>1 DEF Connect
    <2>3. t \in Islands \cup Running \cup {Root} /\ t \in Targets
      BY <2>1, <2>2, Connected DEF AimInv
    <2>4. Recorded' = Recorded \cup {<<a, t>>}
      BY <1>11, <2>1, ConnectRecords
    <2> QED
      BY <1>6, <2>2, <2>3, <2>4 DEF ActorPcs
  <1>12. ASSUME NEW a \in Actors, Draw(a) PROVE AimInv'
    BY <1>2, <1>3, <1>12, Names DEF Draw, Goto, ThreadType, tables
  <1>13. ASSUME TablesKept PROVE AimInv'
    BY <1>2, <1>3, <1>13 DEF TablesKept
  <1> QED
    BY <1>4, <1>5, <1>7, <1>8, <1>9, <1>10, <1>11, <1>12, <1>13, SessionSteps
    DEF Next, RootStep, Instrument

-----------------------------------------------------------------------------
(* The session.                                                             *)

\* The pages that have reported the session ready are finitely many.
LEMMA GreetedFinite ==
    ASSUME DiagramAssumption
    PROVE  /\ IsFiniteSet(Pages) /\ Cardinality(Pages) \in Nat
           /\ IsFiniteSet(Greeted) /\ Cardinality(Greeted) \in Nat
           /\ Cardinality(Greeted) <= Cardinality(Pages)
  <1>1. IsFiniteSet(Pages)
    BY FS_Interval DEF DiagramAssumption, Pages
  <1>2. Greeted \subseteq Pages
    BY DEF Greeted
  <1> QED
    BY <1>1, <1>2, FS_Subset, FS_CardinalityType

\* A post is one page's greeting.
LEMMA PostsKept ==
    ASSUME Types, PostsInv, Next
    PROVE  PostsInv'
  <1> USE DEF Types
  <1>1. ASSUME Greeted' = Greeted, posts' <= posts PROVE PostsInv'
    BY <1>1, GreetedFinite, DiagramAssumption, SessionTyped DEF PostsInv, SessionType
  <1>2. ASSUME SessionKept PROVE PostsInv'
    BY <1>1, <1>2 DEF SessionKept, Greeted, SessionType
  <1>3. CASE Ready
    BY <1>1, <1>3 DEF Ready, Greeted, SessionType
  <1>4. ASSUME NEW p \in Pages, Load(p) \/ Look(p) \/ Claim(p) \/ Deliver(p) \/ DeliverFails(p) \/ Lose(p)
        PROVE  PostsInv'
    <2>1. posts' = posts
      BY <1>4 DEF Load, Look, Claim, Deliver, DeliverFails, Lose
    <2>2. Greeted' = Greeted
      BY <1>4 DEF Load, Look, Claim, Deliver, DeliverFails, Lose, Greeted, SessionType
    <2> QED
      BY <1>1, <2>1, <2>2 DEF SessionType
  <1>5. ASSUME NEW p \in Pages, Greet(p) PROVE PostsInv'
    <2>1. p \notin Greeted /\ Greeted' = Greeted \cup {p}
      BY <1>5 DEF Greet, Greeted, SessionType
    <2>2. posts' <= posts + 1
      BY <1>5 DEF Greet, SessionType
    <2>3. Cardinality(Greeted \cup {p}) = Cardinality(Greeted) + 1
      BY <2>1, GreetedFinite, DiagramAssumption, FS_AddElement
    <2>4. Cardinality(Greeted') = Cardinality(Greeted) + 1
      BY <2>1, <2>3
    <2>5. posts' \in Nat
      BY SessionTyped DEF SessionType
    <2> QED
      BY <2>2, <2>4, <2>5, GreetedFinite, DiagramAssumption DEF PostsInv, SessionType
  <1> QED
    BY <1>2, <1>3, <1>4, <1>5, ThreadSteps DEF Next, RootStep, Serve

\* Who has claimed the session, and whose connections end.
LEMMA SessionsKept ==
    ASSUME Types, SessionInv, Next
    PROVE  SessionInv'
  <1> USE DEF Types
  <1>1. None \notin Pages
    BY Names
  <1>2. ASSUME conn' = conn, out' = out, lost \subseteq lost' PROVE SessionInv'
    BY <1>2 DEF SessionInv
  <1>3. ASSUME NEW p \in Pages, NEW pc, conn' = [conn EXCEPT ![p] = pc], lost' = lost,
               pc = "dead" => p \in lost,
               conn[p] \in {"greet", "serve", "dead"} => pc \in {"greet", "serve", "dead"},
               out' = out \/ (out' = p /\ pc \in {"greet", "serve", "dead"})
        PROVE  SessionInv'
    <2>1. conn'[p] = pc /\ \A q \in Pages \ {p} : conn'[q] = conn[q]
      BY <1>3 DEF SessionType
    <2> QED
      BY <1>3, <2>1 DEF SessionInv
  <1>4. CASE Ready
    BY <1>2, <1>4 DEF Ready
  <1>5. ASSUME SessionKept PROVE SessionInv'
    BY <1>2, <1>5 DEF SessionKept
  <1>6. ASSUME NEW p \in Pages, Deliver(p) \/ Lose(p) PROVE SessionInv'
    BY <1>2, <1>6 DEF Deliver, Lose
  <1>7. ASSUME NEW p \in Pages, Load(p) PROVE SessionInv'
    BY <1>3, <1>7 DEF Load
  <1>8. ASSUME NEW p \in Pages, Look(p) PROVE SessionInv'
    BY <1>3, <1>8 DEF Look
  <1>9. ASSUME NEW p \in Pages, Claim(p) PROVE SessionInv'
    BY <1>3, <1>9 DEF Claim
  <1>10. ASSUME NEW p \in Pages, Greet(p) PROVE SessionInv'
    BY <1>3, <1>10 DEF Greet
  <1>11. ASSUME NEW p \in Pages, DeliverFails(p) PROVE SessionInv'
    BY <1>2, <1>3, <1>11 DEF DeliverFails
  <1> QED
    BY <1>4, <1>5, <1>6, <1>7, <1>8, <1>9, <1>10, <1>11, ThreadSteps
    DEF Next, RootStep, Serve

\* What is sent goes to a page that has claimed the session, and the first that
\* is sent is the diagram.
LEMMA UnsentKept ==
    ASSUME Types, NodesInv, SessionInv, UnsentInv, Next
    PROVE  UnsentInv'
  <1> USE DEF Types
  <1> DEFINE Unclaimed == {"none", "look", "claim", "idle"}
             Quiet     == {"open", "wait", "ready"}
  <1>1. ASSUME mail' = mail, page' = page,
               \A p \in Pages : conn'[p] \in Unclaimed => conn[p] \in Unclaimed,
               thread'[Root].pc \in Quiet => thread[Root].pc \in Quiet
        PROVE  UnsentInv'
    BY <1>1 DEF UnsentInv
  <1>2. ASSUME NEW m \in Item, UiSend(m), page' = page, conn' = conn, thread'[Root].pc \notin Quiet
        PROVE  UnsentInv'
    <2>1. ASSUME NEW p \in Pages, conn[p] \in Unclaimed PROVE mail'[p] = mail[p]
      BY <1>2, <2>1, SentTo DEF SessionInv
    <2> QED
      BY <1>2, <2>1 DEF UnsentInv
  <1>3. CASE OpenTab \/ Ready \/ \E k \in Actors \cup {Root} : RecordNode(k)
    <2>1. mail' = mail /\ page' = page /\ conn' = conn
      BY <1>3 DEF OpenTab, Ready, RecordNode, sessions
    <2>2. thread'[Root].pc \in Quiet => thread[Root].pc \in Quiet
      BY <1>3, Names DEF OpenTab, Ready, RecordNode, Goto, At, ThreadType
    <2> QED
      BY <1>1, <2>1, <2>2
  <1>4. CASE SendDiagram
    <2>1. /\ UiSend(NewDiagram) /\ page' = page /\ conn' = conn
          /\ thread'[Root].pc = "self"
      BY <1>4, Names DEF SendDiagram, sessions, Goto, ThreadType
    <2>2. NewDiagram \in Item
      BY DEF NewDiagram, Item
    <2> QED
      BY <1>2, <2>1, <2>2
  <1>5. CASE Announce
    <2>1. PICK m : m = NewNode(nodes[thread[Root].to])
      OBVIOUS
    <2>2. UiSend(m) /\ page' = page /\ conn' = conn /\ thread'[Root].pc = "loop" /\ At(Root, "announce")
      BY <1>5, <2>1, Names DEF Announce, sessions
    <2>3. nodes[thread[Root].to] \in Node
      BY <2>2, Names DEF NodesInv, RootNode, Node, Keys, Threads
    <2>4. m \in Item
      BY <2>1, <2>3 DEF NewNode, Item
    <2> QED
      BY <1>2, <2>2, <2>4
  <1>6. ASSUME NEW a \in Actors, \/ \E t \in Targets : Aim(a, t)
                                \/ NameIsland(a) \/ Link(a) \/ Connect(a)
        PROVE  UnsentInv'
    <2>1. mail' = mail /\ page' = page /\ conn' = conn
      BY <1>6 DEF Aim, NameIsland, Link, Connect, sessions
    <2>2. thread'[Root] = thread[Root]
      BY <1>6, Names DEF Aim, NameIsland, Link, Connect, Goto, ThreadType
    <2> QED
      BY <1>1, <2>1, <2>2
  <1>7. ASSUME NEW a \in Actors, TellIsland(a) \/ Draw(a) PROVE UnsentInv'
    <2>1. thread[Root].pc \notin Quiet
      BY <1>7 DEF TellIsland, Draw, At, NodesInv, Early
    <2>2. thread'[Root] = thread[Root] /\ conn' = conn /\ page' = page
      BY <1>7, Names DEF TellIsland, Draw, Goto, ThreadType, sessions
    <2>3. \E m : UiSend(m)
      BY <1>7 DEF TellIsland, Draw
    <2>4. \A p \in Pages : conn[p] \in Unclaimed => mail'[p] = mail[p]
      BY <2>3 DEF UiSend, SessionInv, MailType
    <2> QED
      BY <2>1, <2>2, <2>4 DEF UnsentInv
  <1>8. ASSUME NEW p \in Pages, Load(p) \/ Look(p) \/ Claim(p) \/ Greet(p) PROVE UnsentInv'
    <2>1. mail' = mail /\ page' = page /\ thread' = thread
      BY <1>8 DEF Load, Look, Claim, Greet
    <2>2. \A q \in Pages : conn'[q] \in Unclaimed => conn[q] \in Unclaimed
      BY <1>8 DEF Load, Look, Claim, Greet, SessionType
    <2> QED
      BY <1>1, <2>1, <2>2
  <1>9. ASSUME NEW p \in Pages, Deliver(p) \/ DeliverFails(p) PROVE UnsentInv'
    <2>1. /\ conn[p] = "serve" /\ conn'[p] \in {"serve", "dead"} /\ mail[p] # <<>>
          /\ thread' = thread
          /\ \A q \in Pages \ {p} : conn'[q] = conn[q] /\ mail'[q] = mail[q] /\ page'[q] = page[q]
      BY <1>9 DEF Deliver, DeliverFails, SessionType, MailType, PageType
    <2> QED
      BY <2>1 DEF UnsentInv
  <1>10. ASSUME NEW p \in Pages, Lose(p) PROVE UnsentInv'
    <2>1. /\ mail' = mail /\ conn' = conn /\ thread' = thread
          /\ ~ page'[p].diagram /\ \A q \in Pages \ {p} : page'[q] = page[q]
      BY <1>10 DEF Lose, PageType, EmptyPage
    <2> QED
      BY <2>1 DEF UnsentInv
  <1> QED
    BY <1>3, <1>4, <1>5, <1>6, <1>7, <1>8, <1>9, <1>10 DEF Next, RootStep, Instrument, Serve

-----------------------------------------------------------------------------
(* Mailboxes and pages: where what they hold comes from.                    *)

\* The tail of a sequence.
LEMMA TailFacts ==
    ASSUME NEW S, NEW s \in Seq(S), s # <<>>
    PROVE  /\ 1 \in Positions(s) /\ Head(s) = s[1] /\ s[1] \in S
           /\ Len(Tail(s)) \in Nat /\ Len(s) = Len(Tail(s)) + 1
           /\ \A k \in Positions(Tail(s)) : k + 1 \in Positions(s) /\ Tail(s)[k] = s[k + 1]
           /\ \A k \in Positions(s) : k = 1 \/ k - 1 \in Positions(Tail(s))
  BY DEF Positions

\* A step that only takes things away: position k of mailbox p was k + d[p].
Shrunk(d) ==
    /\ \A p \in Pages : \A k \in Positions(mail'[p]) :
          k + d[p] \in Positions(mail[p]) /\ mail'[p][k] = mail[p][k + d[p]]
    /\ \A p \in Pages : \A k \in Positions(page'[p].drawn) :
          k \in Positions(page[p].drawn) /\ page'[p].drawn[k] = page[p].drawn[k]

\* An actor is about to draw the same edge as before, or a new one.
DrawsFresh ==
    \A a \in Actors : At(a, "draw")' =>
        \/ At(a, "draw") /\ thread'[a].to = thread[a].to
        \/ <<a, thread'[a].to>> \notin Recorded

\* Taking away messages and pages keeps what is once to once.
LEMMA OnceShrunk ==
    ASSUME OnceInv, Recorded \subseteq Recorded', DrawsFresh, NEW d \in [Pages -> Nat], Shrunk(d)
    PROVE  OnceInv'
  <1>1. Pages \subseteq Int /\ \A s : Positions(s) \subseteq Int
    BY DEF Pages, Positions
  <1>2. \A p \in Pages : \A k \in Positions(page'[p].drawn) : Drawn(p, k)' = Drawn(p, k)
    BY DEF Shrunk, Drawn
  <1>3. MailedOnce'
    <2> SUFFICES ASSUME NEW p \in Pages, NEW q \in Pages,
                        NEW j \in Positions(mail'[p]), NEW k \in Positions(mail'[q]),
                        IsEdge(mail'[p][j]), IsEdge(mail'[q][k]),
                        EndsOf(mail'[p][j]) = EndsOf(mail'[q][k])
                 PROVE  p = q /\ j = k
      BY DEF MailedOnce
    <2>1. p = q /\ j + d[p] = k + d[q]
      BY DEF OnceInv, MailedOnce, Shrunk
    <2> QED
      BY <1>1, <2>1
  <1>4. ShownOnce'
    BY <1>2 DEF OnceInv, ShownOnce, Shrunk
  <1>5. ShownOrMailed'
    BY <1>2 DEF OnceInv, ShownOrMailed, Shrunk
  <1>6. MailedRecorded'
    BY DEF OnceInv, MailedRecorded, Shrunk, DrawsFresh
  <1>7. ShownRecorded'
    BY <1>2 DEF OnceInv, ShownRecorded, Shrunk, DrawsFresh
  <1> QED
    BY <1>3, <1>4, <1>5, <1>6, <1>7 DEF OnceInv

\* Nor does sending what is no edge, or the edge an actor was about to draw.
LEMMA OnceSent ==
    ASSUME Types, OnceInv, edges' = edges, page' = page, NEW m \in Item, UiSend(m),
           \A a \in Actors : At(a, "draw")' => At(a, "draw") /\ thread'[a].to = thread[a].to,
           IsEdge(m) => \E a \in Actors : /\ At(a, "draw") /\ ~ At(a, "draw")'
                                          /\ EndsOf(m) = <<a, thread[a].to>> /\ EndsOf(m) \in Recorded
    PROVE  OnceInv'
  <1> DEFINE last(p) == Len(mail[p]) + 1
  <1>1. ASSUME NEW p \in Pages, NEW k \in Positions(mail'[p])
        PROVE  \/ k \in Positions(mail[p]) /\ mail'[p][k] = mail[p][k]
               \/ p = out /\ k = last(p) /\ mail'[p][k] = m
    <2>1. mail[p] \in Seq(Item)
      BY DEF Types, MailType
    <2>2. mail'[p] = mail[p] \/ (p = out /\ mail'[p] = Append(mail[p], m))
      BY SentTo DEF Types
    <2>3. CASE mail'[p] = mail[p]
      BY <1>1, <2>3
    <2>4. CASE p = out /\ mail'[p] = Append(mail[p], m)
      BY <1>1, <2>1, <2>4 DEF Positions
    <2> QED
      BY <2>2, <2>3, <2>4
  <1>2. ASSUME NEW p \in Pages, NEW k \in Positions(mail[p]), IsEdge(mail[p][k]), IsEdge(m)
        PROVE  EndsOf(mail[p][k]) # EndsOf(m)
    BY <1>2 DEF OnceInv, MailedRecorded
  <1>3. ASSUME NEW p \in Pages, NEW k \in Positions(page[p].drawn), IsEdge(m)
        PROVE  Drawn(p, k) # EndsOf(m)
    BY <1>3 DEF OnceInv, ShownRecorded
  <1>4. Recorded' = Recorded /\ \A p \in Pages : \A k : Drawn(p, k)' = Drawn(p, k)
    BY DEF Drawn, Recorded
  <1> HIDE DEF last
  <1>5. MailedOnce'
    BY <1>1, <1>2 DEF OnceInv, MailedOnce
  <1>6. ShownOnce'
    BY <1>4 DEF OnceInv, ShownOnce
  <1>7. ShownOrMailed'
    BY <1>1, <1>3, <1>4 DEF OnceInv, ShownOrMailed
  <1>8. MailedRecorded'
    BY <1>1, <1>4 DEF OnceInv, MailedRecorded
  <1>9. ShownRecorded'
    BY <1>4 DEF OnceInv, ShownRecorded
  <1> QED
    BY <1>5, <1>6, <1>7, <1>8, <1>9 DEF OnceInv

\* What a serving thread takes from its mailbox and what its page makes of it.
LEMMA Delivered ==
    ASSUME Types, NEW p \in Pages, Deliver(p)
    PROVE  /\ mail[p] # <<>> /\ mail[p] \in Seq(Item) /\ p \notin lost /\ mail[p][1] \in Item
           /\ mail'[p] = Tail(mail[p]) /\ \A q \in Pages \ {p} : mail'[q] = mail[q]
           /\ page'[p] = Handle(page[p], mail[p][1]) /\ \A q \in Pages \ {p} : page'[q] = page[q]
           /\ UNCHANGED <<thread, nodes, edges, out, posts, conn, lost>>
  <1>1. mail[p] # <<>> /\ mail[p] \in Seq(Item) /\ p \notin lost
    BY DEF Deliver, Types, MailType
  <1>2. Head(mail[p]) = mail[p][1] /\ mail[p][1] \in Item
    BY <1>1
  <1> QED
    BY <1>1, <1>2 DEF Deliver, Types, MailType, PageType, tables

\* A page draws the edge it is handed, if it has the diagram, and nothing else.
LEMMA HandleDraws ==
    ASSUME NEW g \in Graph, NEW m \in Item
    PROVE  \/ Handle(g, m).drawn = g.drawn
           \/ IsEdge(m) /\ Handle(g, m).drawn = Append(g.drawn, <<m.from, m.to>>)
  BY DEF Handle, AddDiagram, AddNode, AddEdge, Graph, IsEdge, Item, Edge

\* The serving thread's next message.
LEMMA OnceDelivered ==
    ASSUME Types, OnceInv, NEW p \in Pages, Deliver(p)
    PROVE  OnceInv'
  <1> DEFINE m == mail[p][1]
             g == page[p]
             d == [q \in Pages |-> IF q = p THEN 1 ELSE 0]
             new == Len(g.drawn) + 1
  <1>1. /\ mail[p] # <<>> /\ mail[p] \in Seq(Item) /\ m \in Item
        /\ mail'[p] = Tail(mail[p]) /\ \A q \in Pages \ {p} : mail'[q] = mail[q]
        /\ page'[p] = Handle(g, m) /\ \A q \in Pages \ {p} : page'[q] = page[q]
        /\ UNCHANGED <<thread, nodes, edges, out, posts, conn, lost>>
    BY Delivered
  <1>2. g \in Graph /\ g.drawn \in Seq(Node \X Node)
    BY DEF Types, PageType, Graph
  <1>3. d \in [Pages -> Nat]
    OBVIOUS
  <1>4. 1 \in Positions(mail[p])
        /\ \A k \in Positions(mail'[p]) : k + 1 \in Positions(mail[p]) /\ mail'[p][k] = mail[p][k + 1]
    <2>1. 1 \in Positions(mail[p]) /\ \A k \in Positions(Tail(mail[p])) :
             k + 1 \in Positions(mail[p]) /\ Tail(mail[p])[k] = mail[p][k + 1]
      BY <1>1, TailFacts, Zenon
    <2> QED
      BY <1>1, <2>1, Zenon
  <1>5. ASSUME NEW q \in Pages, NEW k \in Positions(mail'[q])
        PROVE  /\ k \in Int /\ k > 0
               /\ k + d[q] \in Positions(mail[q]) /\ mail'[q][k] = mail[q][k + d[q]]
               /\ q # p \/ k + d[q] # 1
    <2>1. k \in Int /\ k > 0
      BY <1>5 DEF Positions
    <2>2. CASE q = p
      <3>1. k + 1 \in Positions(mail[p]) /\ mail'[p][k] = mail[p][k + 1] /\ d[q] = 1
        BY <1>4, <1>5, <2>2
      <3> QED
        BY <2>1, <2>2, <3>1
    <2>3. CASE q # p
      <3>1. mail'[q] = mail[q] /\ d[q] = 0 /\ k + 0 = k
        BY <1>1, <2>1, <2>3
      <3> QED
        BY <1>5, <2>1, <2>3, <3>1
    <2> QED
      BY <2>2, <2>3
  <1>6. DrawsFresh /\ Recorded' = Recorded
    BY <1>1 DEF DrawsFresh, At, Recorded
  <1>7. CASE page'[p].drawn = g.drawn
    <2>1. Shrunk(d)
      BY <1>1, <1>5, <1>7 DEF Shrunk
    <2> QED
      BY <1>1, <1>3, <1>6, <2>1, OnceShrunk
  <1>8. CASE IsEdge(m) /\ page'[p].drawn = Append(g.drawn, <<m.from, m.to>>)
    <2>1. ASSUME NEW q \in Pages, NEW k \in Positions(page'[q].drawn)
          PROVE  \/ k \in Positions(page[q].drawn) /\ Drawn(q, k)' = Drawn(q, k)
                 \/ q = p /\ k = new /\ Drawn(q, k)' = EndsOf(m)
      <3>1. CASE q # p
        BY <1>1, <2>1, <3>1 DEF Drawn
      <3>2. CASE q = p
        <4>1. <<m.from, m.to>> \in Node \X Node
          <5>1. m \in Edge
            BY <1>1, <1>8 DEF Item, IsEdge
          <5> HIDE DEF m
          <5> QED
            BY <5>1 DEF Edge
        <4>2. \/ k \in Positions(g.drawn) /\ page'[p].drawn[k] = g.drawn[k]
              \/ k = new /\ page'[p].drawn[k] = <<m.from, m.to>>
          BY <1>2, <1>8, <2>1, <3>2, <4>1 DEF Positions
        <4> QED
          BY <3>2, <4>2 DEF Drawn, EndsOf
      <3> QED
        BY <3>1, <3>2
    <2>2. ASSUME NEW q \in Pages, NEW k \in Positions(mail'[q]), IsEdge(mail'[q][k])
          PROVE  EndsOf(mail'[q][k]) # EndsOf(m)
      BY <1>4, <1>5, <1>8, <2>2 DEF OnceInv, MailedOnce
    <2>3. ASSUME NEW q \in Pages, NEW k \in Positions(page[q].drawn)
          PROVE  Drawn(q, k) # EndsOf(m)
      BY <1>4, <1>8, <2>3 DEF OnceInv, ShownOrMailed
    <2>4. /\ EndsOf(m) \in Recorded
          /\ \A a \in Actors : At(a, "draw") => EndsOf(m) # <<a, thread[a].to>>
      BY <1>4, <1>8 DEF OnceInv, MailedRecorded
    <2> HIDE DEF m, g, d, new
    <2>5. MailedOnce'
      <3> SUFFICES ASSUME NEW q \in Pages, NEW r \in Pages,
                          NEW j \in Positions(mail'[q]), NEW k \in Positions(mail'[r]),
                          IsEdge(mail'[q][j]), IsEdge(mail'[r][k]),
                          EndsOf(mail'[q][j]) = EndsOf(mail'[r][k])
                   PROVE  q = r /\ j = k
        BY DEF MailedOnce
      <3>1. q = r /\ j + d[q] = k + d[r]
        BY <1>5 DEF OnceInv, MailedOnce
      <3> QED
        BY <1>3, <1>5, <3>1
    <2>6. ShownOnce'
      BY <2>1, <2>3 DEF OnceInv, ShownOnce
    <2>7. ShownOrMailed'
      BY <1>5, <2>1, <2>2 DEF OnceInv, ShownOrMailed
    <2>8. MailedRecorded'
      BY <1>1, <1>5, <1>6 DEF OnceInv, MailedRecorded, At
    <2>9. ShownRecorded'
      BY <1>1, <1>6, <2>1, <2>4 DEF OnceInv, ShownRecorded, At
    <2> QED
      BY <2>5, <2>6, <2>7, <2>8, <2>9 DEF OnceInv
  <1> QED
    BY <1>1, <1>2, <1>7, <1>8, HandleDraws

\* Every edge stays in one place.
LEMMA OnceKept ==
    ASSUME Types, NodesInv, AimInv, OnceInv, Next
    PROVE  OnceInv'
  <1> DEFINE zero == [q \in Pages |-> 0]
             one(p) == [q \in Pages |-> IF q = p THEN 1 ELSE 0]
  <1>1. zero \in [Pages -> Nat] /\ Recorded \subseteq Recorded'
    BY Grown
  <1>2. ASSUME mail' = mail, page' = page, DrawsFresh PROVE OnceInv'
    <2>1. \A s : \A k \in Positions(s) : k + 0 = k
      BY DEF Positions
    <2>2. Shrunk(zero)
      BY <1>2, <2>1 DEF Shrunk
    <2> QED
      BY <1>1, <1>2, <2>2, OnceShrunk
  <1>3. ASSUME \A a \in Actors : thread'[a].pc # "draw" \/ thread'[a] = thread[a] PROVE DrawsFresh
    BY <1>3 DEF DrawsFresh, At
  <1>4. TablesKept => DrawsFresh
    BY <1>3 DEF TablesKept
  <1>5. CASE OpenTab \/ Ready \/ \E k \in Actors \cup {Root} : RecordNode(k)
    <2>1. mail' = mail /\ page' = page
      BY <1>5 DEF OpenTab, Ready, RecordNode, sessions
    <2>2. DrawsFresh
      BY <1>3, <1>5, Names DEF OpenTab, Ready, RecordNode, Goto, Types, ThreadType
    <2> QED
      BY <1>2, <2>1, <2>2
  <1>6. CASE SendDiagram
    <2>1. UiSend(NewDiagram) /\ page' = page /\ edges' = edges /\ Goto(Root, "self", None)
      BY <1>6 DEF SendDiagram, sessions, tables
    <2>2. NewDiagram \in Item /\ ~ IsEdge(NewDiagram)
      BY MessageTyped DEF IsEdge, NewDiagram
    <2>3. \A a \in Actors : thread'[a] = thread[a]
      BY <2>1, Names DEF Goto, Types, ThreadType
    <2> QED
      BY <2>1, <2>2, <2>3, OnceSent DEF At
  <1>7. CASE Announce
    <2> DEFINE m == NewNode(nodes[thread[Root].to])
    <2>1. UiSend(m) /\ page' = page /\ edges' = edges /\ At(Root, "announce")
      BY <1>7 DEF Announce, sessions, tables
    <2>2. m \in Item /\ ~ IsEdge(m)
      BY <2>1, MessageTyped DEF IsEdge, NewNode
    <2>3. \A a \in Actors : thread'[a].pc # "draw" \/ thread'[a] = thread[a]
      BY <1>7, Names DEF Announce
    <2> HIDE DEF m
    <2> QED
      BY <2>1, <2>2, <2>3, OnceSent DEF At
  <1>8. ASSUME NEW a \in Actors, NEW t \in Targets, Aim(a, t) PROVE OnceInv'
    <2>1. mail' = mail /\ page' = page
      BY <1>8 DEF Aim, sessions
    <2>2. DrawsFresh
      BY <1>3, <1>8, Names DEF Aim, Goto, Types, ThreadType
    <2> QED
      BY <1>2, <2>1, <2>2
  <1>9. ASSUME NEW a \in Actors, NameIsland(a) PROVE OnceInv'
    <2>1. mail' = mail /\ page' = page
      BY <1>9 DEF NameIsland, sessions
    <2>2. DrawsFresh
      BY <1>3, <1>9, Names DEF NameIsland, Goto, Types, ThreadType
    <2> QED
      BY <1>2, <2>1, <2>2
  <1>10. ASSUME NEW a \in Actors, TellIsland(a) PROVE OnceInv'
    <2> DEFINE m == NewNode([key |-> thread[a].to, by |-> a])
    <2>1. UiSend(m) /\ page' = page /\ edges' = edges /\ At(a, "tell") /\ Goto(a, "link", thread[a].to)
      BY <1>10 DEF TellIsland, sessions, tables
    <2>2. m \in Item /\ ~ IsEdge(m)
      BY <2>1, MessageTyped DEF IsEdge, NewNode
    <2>3. \A b \in Actors : thread'[b].pc # "draw" \/ thread'[b] = thread[b]
      BY <2>1, Names DEF Goto, Types, ThreadType
    <2> HIDE DEF m
    <2> QED
      BY <2>1, <2>2, <2>3, OnceSent DEF At
  <1>11. ASSUME NEW a \in Actors, Link(a) \/ Connect(a) PROVE OnceInv'
    <2>1. mail' = mail /\ page' = page
      BY <1>11 DEF Link, Connect, sessions
    <2>2. \/ Goto(a, "connect", thread[a].to) \/ Goto(a, "run", None)
          \/ At(a, "connect") /\ Goto(a, "draw", thread[a].to)
      BY <1>11 DEF Link, Connect
    <2>3. At(a, "connect") => <<a, thread[a].to>> \notin Recorded
      BY DEF AimInv
    <2>4. DrawsFresh
      BY <2>2, <2>3, Names DEF DrawsFresh, Goto, At, Types, ThreadType
    <2> QED
      BY <1>2, <2>1, <2>4
  <1>12. ASSUME NEW a \in Actors, Draw(a) PROVE OnceInv'
    <2>1. PICK m \in edges : EndsOf(m) = <<a, thread[a].to>> /\ UiSend(m)
      BY <1>12 DEF Draw
    <2>2. page' = page /\ edges' = edges /\ At(a, "draw") /\ Goto(a, "run", None)
      BY <1>12 DEF Draw, sessions, tables
    <2>3. m \in Item /\ EndsOf(m) \in Recorded
      BY MessageTyped DEF Recorded
    <2>4. /\ ~ At(a, "draw")'
          /\ \A b \in Actors : thread'[b].pc # "draw" \/ thread'[b] = thread[b]
      BY <2>2, Names DEF Goto, At, Types, ThreadType
    <2> QED
      BY <2>1, <2>2, <2>3, <2>4, OnceSent DEF At
  <1>13. ASSUME NEW p \in Pages, Load(p) \/ Look(p) \/ Claim(p) \/ Greet(p) PROVE OnceInv'
    <2>1. mail' = mail /\ page' = page
      BY <1>13 DEF Load, Look, Claim, Greet
    <2>2. TablesKept
      BY <1>13, SessionSteps DEF Serve
    <2> QED
      BY <1>2, <1>4, <2>1, <2>2
  <1>14. ASSUME NEW p \in Pages, DeliverFails(p) PROVE OnceInv'
    <2>1. /\ mail[p] # <<>> /\ mail[p] \in Seq(Item) /\ page' = page
          /\ \A q \in Pages \ {p} : mail'[q] = mail[q]
          /\ mail'[p] = Tail(mail[p]) \/ mail'[p] = <<>>
      BY <1>14 DEF DeliverFails, Types, MailType
    <2>2. one(p) \in [Pages -> Nat]
      OBVIOUS
    <2>3. \A k \in Positions(mail'[p]) : k + 1 \in Positions(mail[p]) /\ mail'[p][k] = mail[p][k + 1]
      <3>1. CASE mail'[p] = Tail(mail[p])
        <4>1. \A k \in Positions(Tail(mail[p])) :
                 k + 1 \in Positions(mail[p]) /\ Tail(mail[p])[k] = mail[p][k + 1]
          BY <2>1, TailFacts, Zenon
        <4> QED
          BY <3>1, <4>1, Zenon
      <3>2. CASE mail'[p] = <<>>
        BY <3>2 DEF Positions
      <3> QED
        BY <2>1, <3>1, <3>2
    <2>4. \A q \in Pages \ {p} : \A k \in Positions(mail'[q]) :
             k + 0 \in Positions(mail[q]) /\ mail'[q][k] = mail[q][k + 0]
      BY <2>1 DEF Positions
    <2>5. Shrunk(one(p))
      BY <2>1, <2>3, <2>4 DEF Shrunk
    <2>6. DrawsFresh
      BY <1>4, <1>14, SessionSteps DEF Serve
    <2> HIDE DEF one
    <2> QED
      BY <1>1, <2>2, <2>5, <2>6, OnceShrunk
  <1>15. ASSUME NEW p \in Pages, Lose(p) PROVE OnceInv'
    <2>1. /\ mail' = mail /\ page'[p].drawn = <<>> /\ \A q \in Pages \ {p} : page'[q] = page[q]
      BY <1>15 DEF Lose, Types, PageType, EmptyPage
    <2>2. Positions(page'[p].drawn) = {}
      BY <2>1 DEF Positions
    <2>3. \A s : \A k \in Positions(s) : k + 0 = k
      BY DEF Positions
    <2>4. Shrunk(zero)
      BY <2>1, <2>2, <2>3 DEF Shrunk
    <2>5. DrawsFresh
      BY <1>4, <1>15, SessionSteps
    <2> HIDE DEF zero
    <2> QED
      BY <1>1, <2>4, <2>5, OnceShrunk
  <1> QED
    BY <1>5, <1>6, <1>7, <1>8, <1>9, <1>10, <1>11, <1>12, <1>13, <1>14, <1>15, OnceDelivered
    DEF Next, RootStep, Instrument, Serve

-----------------------------------------------------------------------------
(* The order in which a page gets nodes and edges.                          *)

\* A step that leaves mailboxes and pages alone keeps their order.
LEMMA OrderQuiet ==
    ASSUME MailOrder, BlankInv, mail' = mail, page' = page,
           lost \subseteq lost', Recorded \subseteq Recorded'
    PROVE  MailOrder' /\ BlankInv'
  <1>1. \A n : Raced(n) => Raced(n)'
    BY DEF Raced
  <1>2. \A p, j, n : /\ GotDiagram(p, j)' <=> GotDiagram(p, j)
                     /\ GotNode(p, j, n)' <=> GotNode(p, j, n)
                     /\ GetsDiagram(p)' <=> GetsDiagram(p)
    BY DEF GotDiagram, GotNode, GetsDiagram
  <1>3. MailOrder'
    BY <1>1, <1>2 DEF MailOrder
  <1>4. BlankInv'
    BY <1>1 DEF BlankInv
  <1> QED
    BY <1>3, <1>4

\* The nodes the page is to have are the same or fewer.
ToldBefore == \A k \in Keys : Told(k)' => Told(k) /\ nodes'[k] = nodes[k]

\* Every edge there is then was there, or has the ends the page is to have.
LEMMA ServedQuiet ==
    ASSUME ServedInv, lost \subseteq lost', ToldBefore,
           \A p \in Pages \ lost' : mail'[p] = mail[p] /\ page'[p] = page[p],
           Recorded \subseteq Recorded', Awake' => Awake,
           \A p \in Pages \ lost' : out' = p /\ GetsDiagram(p) => out = p,
           \A e \in edges' \ edges : \A n \in {e.from, e.to} :
               Raced(n)' \/ \E k \in Keys : Told(k) /\ n = nodes[k]
    PROVE  ServedInv'
  <1>1. \A p \in Pages \ lost' : /\ GetsDiagram(p)' <=> GetsDiagram(p)
                                 /\ \A n : GetsNode(p, n)' <=> GetsNode(p, n)
    BY DEF GetsDiagram, GetsNode
  <1>2. \A n : Raced(n) => Raced(n)'
    BY DEF Raced
  <1> SUFFICES ASSUME NEW p \in Pages \ lost', out' = p, Awake', GetsDiagram(p)'
               PROVE  /\ \A k \in Keys : Told(k)' => GetsNode(p, nodes[k])'
                      /\ \A e \in edges' : \A n \in {e.from, e.to} :
                            GetsNode(p, n)' \/ Raced(n)'
    BY DEF ServedInv
  <1>3. /\ \A k \in Keys : Told(k) => GetsNode(p, nodes[k])
        /\ \A e \in edges : \A n \in {e.from, e.to} : GetsNode(p, n) \/ Raced(n)
    BY <1>1 DEF ServedInv
  <1>4. \A k \in Keys : Told(k)' => GetsNode(p, nodes[k])'
    <2> SUFFICES ASSUME NEW k \in Keys, Told(k)' PROVE GetsNode(p, nodes[k])'
      OBVIOUS
    <2>1. Told(k) /\ nodes'[k] = nodes[k]
      BY DEF ToldBefore
    <2>2. PICK n : n = nodes[k]
      OBVIOUS
    <2>3. GetsNode(p, n)'
      BY <1>1, <1>3, <2>1, <2>2
    <2> QED
      BY <2>1, <2>2, <2>3
  <1>5. ASSUME NEW e \in edges', NEW n \in {e.from, e.to}
        PROVE  GetsNode(p, n)' \/ Raced(n)'
    BY <1>1, <1>2, <1>3
  <1> QED
    BY <1>4, <1>5

\* What is sent comes after what the page has or gets.
LEMMA SentLast ==
    ASSUME Types, SessionInv, NEW m \in Item, UiSend(m), page' = page, NEW p \in Pages \ lost,
           NEW l, l = Len(mail[p]) + 1
    PROVE  /\ \A k \in Positions(mail'[p]) :
                 \/ k \in Positions(mail[p]) /\ mail'[p][k] = mail[p][k]
                 \/ out = p /\ k = l /\ mail'[p][k] = m
           /\ l \in Nat
           /\ \A k \in Positions(mail[p]) : k < l
           /\ \A k \in Positions(mail[p]) : k \in Positions(mail'[p]) /\ mail'[p][k] = mail[p][k]
           /\ \A j, n : /\ GotDiagram(p, j) => GotDiagram(p, j)'
                        /\ GotNode(p, j, n) => GotNode(p, j, n)'
           /\ \A n : GetsNode(p, n) => GetsNode(p, n)' /\ GotNode(p, l, n)'
           /\ GetsDiagram(p) => GetsDiagram(p)' /\ GotDiagram(p, l)'
           /\ GetsDiagram(p)' => GetsDiagram(p) \/ m = NewDiagram
           /\ \A n : out = p /\ m = NewNode(n) => GetsNode(p, n)'
  <1>1. mail[p] \in Seq(Item) /\ (conn[p] # "dead")
    BY DEF Types, MailType, SessionInv
  <1>2. (p # out => mail'[p] = mail[p]) /\ (p = out => mail'[p] = Append(mail[p], m))
    BY <1>1, SentTo DEF Types
  <1>3. /\ \A k \in Positions(mail'[p]) :
              \/ k \in Positions(mail[p]) /\ mail'[p][k] = mail[p][k]
              \/ out = p /\ k = l /\ mail'[p][k] = m
        /\ \A k \in Positions(mail[p]) : k \in Positions(mail'[p]) /\ mail'[p][k] = mail[p][k]
        /\ out = p => l \in Positions(mail'[p]) /\ mail'[p][l] = m
    <2>1. CASE p # out
      BY <1>2, <2>1
    <2>2. CASE p = out
      <3>1. mail'[p] = Append(mail[p], m)
        BY <1>2, <2>2
      <3>2. /\ Positions(Append(mail[p], m)) = Positions(mail[p]) \cup {Len(mail[p]) + 1}
            /\ \A k \in Positions(mail[p]) : Append(mail[p], m)[k] = mail[p][k]
            /\ Append(mail[p], m)[Len(mail[p]) + 1] = m
        <4>1. PICK s \in Seq(Item) : s = mail[p]
          BY <1>1
        <4>2. /\ Positions(Append(s, m)) = Positions(s) \cup {Len(s) + 1}
              /\ \A k \in Positions(s) : Append(s, m)[k] = s[k]
              /\ Append(s, m)[Len(s) + 1] = m
          BY DEF Positions
        <4> QED
          BY <4>1, <4>2
      <3> QED
        BY <2>2, <3>1, <3>2, Zenon
    <2> QED
      BY <2>1, <2>2
  <1>4. l \in Nat /\ \A k \in Positions(mail[p]) : k < l
    BY <1>1 DEF Positions
  <1>5. \A j, n : /\ GotDiagram(p, j) => GotDiagram(p, j)'
                  /\ GotNode(p, j, n) => GotNode(p, j, n)'
    BY <1>3 DEF GotDiagram, GotNode
  <1>6. \A n : GetsNode(p, n) => GetsNode(p, n)' /\ GotNode(p, l, n)'
    BY <1>3, <1>4 DEF GetsNode, GotNode
  <1>7. GetsDiagram(p) => GetsDiagram(p)' /\ GotDiagram(p, l)'
    BY <1>3, <1>4 DEF GetsDiagram, GotDiagram
  <1>8. /\ GetsDiagram(p)' => GetsDiagram(p) \/ m = NewDiagram
        /\ \A n : out = p /\ m = NewNode(n) => GetsNode(p, n)'
    BY <1>3 DEF GetsDiagram, GetsNode
  <1> QED
    BY <1>3, <1>4, <1>5, <1>6, <1>7, <1>8

\* What is sent may be sent: the diagram first, and edges whose ends the page
\* has or gets, unless there was a race.
LEMMA OrderSent ==
    ASSUME Types, SessionInv, MailOrder, BlankInv, NEW m \in Item, UiSend(m),
           page' = page, lost' = lost, edges' = edges,
           m = NewDiagram => \A p \in Pages : mail[p] = <<>>,
           \A p \in Pages \ lost : out = p /\ GetsDiagram(p) /\ IsEdge(m) =>
               \A n \in {m.from, m.to} : GetsNode(p, n) \/ Raced(n)
    PROVE  MailOrder' /\ BlankInv'
  <1>1. \A n : Raced(n)' <=> Raced(n)
    BY DEF Raced, Recorded
  <1>2. BlankInv'
    BY <1>1 DEF BlankInv
  <1>3. m.item # "diagram" \/ (m = NewDiagram /\ ~ IsEdge(m))
    BY DEF Item, Edge, NewDiagram, IsEdge
  <1>4. ASSUME NEW p \in Pages \ lost, GetsDiagram(p)', NEW j \in Positions(mail'[p])
        PROVE  /\ mail'[p][j].item # "diagram" => GotDiagram(p, j)'
               /\ IsEdge(mail'[p][j]) => \A n \in {mail'[p][j].from, mail'[p][j].to} :
                                            GotNode(p, j, n)' \/ Raced(n)'
    <2>1. PICK l : l = Len(mail[p]) + 1
      OBVIOUS
    <2>2. CASE m = NewDiagram
      <3>1. Positions(mail[p]) = {}
        BY <2>2 DEF Positions
      <3>2. mail'[p][j] = m
        BY <1>4, <2>1, <3>1, SentLast
      <3> QED
        BY <2>2, <3>2 DEF NewDiagram, IsEdge
    <2>3. CASE m # NewDiagram
      <3>1. GetsDiagram(p)
        BY <1>4, <2>1, <2>3, SentLast
      <3>2. CASE j \in Positions(mail[p]) /\ mail'[p][j] = mail[p][j]
        <4>1. \A n : GotNode(p, j, n) => GotNode(p, j, n)'
          BY <2>1, SentLast
        <4>2. GotDiagram(p, j) => GotDiagram(p, j)'
          BY <2>1, SentLast
        <4> QED
          BY <1>1, <3>1, <3>2, <4>1, <4>2 DEF MailOrder
      <3>3. CASE out = p /\ j = l /\ mail'[p][j] = m
        <4>1. \A n : GetsNode(p, n) => GotNode(p, l, n)'
          BY <2>1, SentLast
        <4>2. GotDiagram(p, l)'
          BY <2>1, <3>1, SentLast
        <4>3. IsEdge(m) => \A n \in {m.from, m.to} : GotNode(p, l, n)' \/ Raced(n)'
          BY <1>1, <3>1, <3>3, <4>1
        <4> QED
          BY <3>3, <4>2, <4>3
      <3> QED
        BY <1>4, <2>1, <3>2, <3>3, SentLast
    <2> QED
      BY <2>2, <2>3
  <1>5. MailOrder'
    BY <1>4 DEF MailOrder
  <1> QED
    BY <1>2, <1>5

\* The page that is served is sent what it is to have.
LEMMA ServedSent ==
    ASSUME Types, SessionInv, ServedInv, NEW m \in Item, UiSend(m), page' = page,
           lost' = lost, out' = out, edges' = edges, Awake, m # NewDiagram,
           \A k \in Keys : Told(k)' => \/ Told(k) /\ nodes'[k] = nodes[k]
                                       \/ m = NewNode(nodes'[k])
    PROVE  ServedInv'
  <1>1. \A n : Raced(n)' <=> Raced(n)
    BY DEF Raced, Recorded
  <1> SUFFICES ASSUME NEW p \in Pages \ lost, out = p, GetsDiagram(p)'
               PROVE  /\ \A k \in Keys : Told(k)' => GetsNode(p, nodes[k])'
                      /\ \A e \in edges : \A n \in {e.from, e.to} :
                            GetsNode(p, n)' \/ Raced(n)'
    BY DEF ServedInv
  <1>2. PICK l : l = Len(mail[p]) + 1
    OBVIOUS
  <1>3. /\ \A n : GetsNode(p, n) => GetsNode(p, n)'
        /\ GetsDiagram(p)
        /\ \A n : m = NewNode(n) => GetsNode(p, n)'
    BY <1>2, SentLast
  <1>4. ASSUME NEW k \in Keys, Told(k)' PROVE GetsNode(p, nodes[k])'
    <2>1. PICK n : n = nodes'[k]
      OBVIOUS
    <2>2. GetsNode(p, n)'
      BY <1>3, <1>4, <2>1 DEF ServedInv
    <2> QED
      BY <2>1, <2>2
  <1>5. \A e \in edges : \A n \in {e.from, e.to} : GetsNode(p, n)' \/ Raced(n)'
    BY <1>1, <1>3 DEF ServedInv
  <1> QED
    BY <1>4, <1>5

\* What a message does to what a graph shows.
LEMMA HandleShows ==
    ASSUME NEW g \in Graph, NEW m \in Item
    PROVE  /\ g.diagram => Handle(g, m).diagram
           /\ m = NewDiagram => Handle(g, m).diagram
           /\ Handle(g, m).diagram => g.diagram \/ m = NewDiagram
           /\ g.labelled \cup g.blank \subseteq Handle(g, m).labelled \cup Handle(g, m).blank
           /\ \A n : g.diagram /\ m = NewNode(n) =>
                 n \in Handle(g, m).labelled \cup Handle(g, m).blank
           /\ \A n \in Handle(g, m).blank :
                 \/ n \in g.blank
                 \/ g.diagram /\ IsEdge(m) /\ n \in {m.from, m.to} /\ n \notin g.labelled
  <1>1. CASE m.item = "diagram"
    <2>1. m = NewDiagram
      BY <1>1 DEF Item, Edge, NewDiagram
    <2>2. /\ Handle(g, m).diagram /\ Handle(g, m).labelled = g.labelled
          /\ Handle(g, m).blank = g.blank
      BY <1>1 DEF Handle, AddDiagram, Graph
    <2>3. \A n : m # NewNode(n)
      BY <1>1 DEF NewNode
    <2> QED
      BY <2>1, <2>2, <2>3
  <1>2. CASE m.item = "diagramnode"
    BY <1>2 DEF Handle, AddNode, Graph, NewNode, NewDiagram, IsEdge
  <1>3. CASE m.item = "diagramedge"
    BY <1>3 DEF Handle, AddEdge, Graph, NewNode, NewDiagram, IsEdge
  <1> QED
    BY <1>1, <1>2, <1>3 DEF Item, Edge

\* A delivery keeps the order: what the page gets first, it has then.
LEMMA OrderDelivered ==
    ASSUME Types, MailOrder, ServedInv, BlankInv, NEW p \in Pages, Deliver(p)
    PROVE  MailOrder' /\ ServedInv' /\ BlankInv'
  <1> DEFINE m == mail[p][1]
             g == page[p]
  <1>1. /\ mail[p] # <<>> /\ mail[p] \in Seq(Item) /\ m \in Item /\ p \notin lost
        /\ mail'[p] = Tail(mail[p]) /\ \A q \in Pages \ {p} : mail'[q] = mail[q]
        /\ page'[p] = Handle(g, m) /\ \A q \in Pages \ {p} : page'[q] = page[q]
        /\ UNCHANGED <<thread, nodes, edges, out, posts, conn, lost>>
    BY Delivered
  <1>2. g \in Graph
    BY DEF Types, PageType
  <1>3. /\ 1 \in Positions(mail[p])
        /\ \A k \in Positions(mail'[p]) : k + 1 \in Positions(mail[p]) /\ mail'[p][k] = mail[p][k + 1]
        /\ \A k \in Positions(mail[p]) : k = 1 \/ k - 1 \in Positions(mail'[p])
    <2>1. /\ 1 \in Positions(mail[p])
          /\ \A k \in Positions(Tail(mail[p])) :
                k + 1 \in Positions(mail[p]) /\ Tail(mail[p])[k] = mail[p][k + 1]
          /\ \A k \in Positions(mail[p]) : k = 1 \/ k - 1 \in Positions(Tail(mail[p]))
      BY <1>1, TailFacts, Zenon
    <2> QED
      BY <1>1, <2>1, Zenon
  <1>4. /\ g.diagram => page'[p].diagram
        /\ m = NewDiagram => page'[p].diagram
        /\ page'[p].diagram => g.diagram \/ m = NewDiagram
        /\ g.labelled \cup g.blank \subseteq page'[p].labelled \cup page'[p].blank
        /\ \A n : g.diagram /\ m = NewNode(n) => n \in page'[p].labelled \cup page'[p].blank
        /\ \A n \in page'[p].blank :
              \/ n \in g.blank
              \/ g.diagram /\ IsEdge(m) /\ n \in {m.from, m.to} /\ n \notin g.labelled
    <2>1. page'[p] = Handle(g, m) /\ g \in Graph /\ m \in Item
      BY <1>1, <1>2
    <2> HIDE DEF g, m
    <2> QED
      BY <2>1, HandleShows
  <1>5. \A i \in Positions(mail[p]) : i \in Int /\ ~ (i < 1)
    BY DEF Positions
  <1>6. GetsDiagram(p) /\ m.item # "diagram" => g.diagram
    BY <1>1, <1>3, <1>5 DEF MailOrder, GotDiagram
  <1>7. GetsDiagram(p) =>
           \A n : m = NewNode(n) => n \in page'[p].labelled \cup page'[p].blank
    BY <1>4, <1>6 DEF NewNode
  <1>8. \A n : Raced(n)' <=> Raced(n)
    BY <1>1 DEF Raced, Recorded
  <1> HIDE DEF m, g
  <1>9. ASSUME NEW i \in Positions(mail[p]), i # 1
        PROVE  /\ i - 1 \in Positions(mail'[p]) /\ mail'[p][i - 1] = mail[p][i]
    <2>1. i - 1 \in Positions(mail'[p]) /\ (i - 1) + 1 = i
      BY <1>3, <1>5, <1>9
    <2> QED
      BY <1>3, <2>1
  <1>10. ASSUME GetsDiagram(p), NEW j \in Positions(mail'[p])
         PROVE  /\ GotDiagram(p, j + 1) => GotDiagram(p, j)'
                /\ \A n : GotNode(p, j + 1, n) => GotNode(p, j, n)'
    <2>1. j \in Int
      BY DEF Positions
    <2>2. \A i \in Positions(mail[p]) : i < j + 1 /\ i # 1 => i - 1 < j
      BY <1>5, <2>1
    <2>3. GotDiagram(p, j + 1) => GotDiagram(p, j)'
      BY <1>4, <1>9, <2>2 DEF GotDiagram, m, g
    <2>4. \A n : GotNode(p, j + 1, n) => GotNode(p, j, n)'
      BY <1>4, <1>7, <1>9, <1>10, <2>2 DEF GotNode, m, g
    <2> QED
      BY <2>3, <2>4
  <1>11. /\ GetsDiagram(p)' => GetsDiagram(p)
         /\ GetsDiagram(p) => \A n : GetsNode(p, n) => GetsNode(p, n)'
    <2>1. GetsDiagram(p)' => GetsDiagram(p)
      BY <1>3, <1>4 DEF GetsDiagram, m, g
    <2>2. GetsDiagram(p) => \A n : GetsNode(p, n) => GetsNode(p, n)'
      BY <1>4, <1>7, <1>9 DEF GetsNode, m, g
    <2> QED
      BY <2>1, <2>2
  <1>12. ASSUME NEW q \in Pages \ {p}
         PROVE  /\ \A j, n : (GotDiagram(q, j)' <=> GotDiagram(q, j)) /\ (GotNode(q, j, n)' <=> GotNode(q, j, n))
                /\ \A n : (GetsDiagram(q)' <=> GetsDiagram(q)) /\ (GetsNode(q, n)' <=> GetsNode(q, n))
    BY <1>1 DEF GotDiagram, GotNode, GetsDiagram, GetsNode
  <1>13. MailOrder'
    <2> SUFFICES ASSUME NEW q \in Pages \ lost, GetsDiagram(q)', NEW j \in Positions(mail'[q])
                 PROVE  /\ mail'[q][j].item # "diagram" => GotDiagram(q, j)'
                        /\ IsEdge(mail'[q][j]) => \A n \in {mail'[q][j].from, mail'[q][j].to} :
                                                     GotNode(q, j, n)' \/ Raced(n)'
      BY <1>1 DEF MailOrder
    <2>1. CASE q = p
      <3>1. j + 1 \in Positions(mail[p]) /\ mail'[p][j] = mail[p][j + 1]
        BY <1>3, <2>1
      <3>2. /\ GotDiagram(p, j + 1) => GotDiagram(p, j)'
            /\ \A n : GotNode(p, j + 1, n) => GotNode(p, j, n)'
        BY <1>10, <1>11, <2>1
      <3> QED
        BY <1>8, <1>11, <2>1, <3>1, <3>2 DEF MailOrder
    <2>2. CASE q # p
      <3>1. /\ q \in Pages \ {p} /\ mail'[q] = mail[q]
            /\ GotDiagram(q, j)' <=> GotDiagram(q, j)
            /\ \A n : GotNode(q, j, n)' <=> GotNode(q, j, n)
            /\ GetsDiagram(q)
        BY <1>1, <1>12, <2>2
      <3> QED
        BY <1>8, <3>1 DEF MailOrder
    <2> QED
      BY <2>1, <2>2
  <1>14. ServedInv'
    <2>1. \A k \in Keys : Told(k)' <=> Told(k)
      BY <1>1 DEF Told, At
    <2>2. Awake' <=> Awake
      BY <1>1 DEF Awake
    <2> SUFFICES ASSUME NEW q \in Pages \ lost, out = q, Awake, GetsDiagram(q)'
                 PROVE  /\ \A k \in Keys : Told(k) => GetsNode(q, nodes[k])'
                        /\ \A e \in edges : \A n \in {e.from, e.to} :
                              GetsNode(q, n)' \/ Raced(n)
      BY <1>1, <1>8, <2>1, <2>2 DEF ServedInv
    <2>3. GetsDiagram(q) /\ \A n : GetsNode(q, n) => GetsNode(q, n)'
      BY <1>11, <1>12
    <2>4. /\ \A k \in Keys : Told(k) => GetsNode(q, nodes[k])
          /\ \A e \in edges : \A n \in {e.from, e.to} : GetsNode(q, n) \/ Raced(n)
      BY <2>3 DEF ServedInv
    <2>5. ASSUME NEW k \in Keys, Told(k) PROVE GetsNode(q, nodes[k])'
      <3>1. PICK n : n = nodes[k]
        OBVIOUS
      <3>2. nodes'[k] = n
        BY <1>1, <3>1
      <3> QED
        BY <2>3, <2>4, <2>5, <3>1, <3>2
    <2> QED
      BY <2>3, <2>4, <2>5
  <1>15. BlankInv'
    <2> SUFFICES ASSUME NEW q \in Pages, NEW n \in page'[q].blank
                 PROVE  Raced(n)
      BY <1>8 DEF BlankInv
    <2>1. CASE q # p
      BY <1>1, <2>1 DEF BlankInv
    <2>2. CASE q = p /\ n \in g.blank
      BY <2>2 DEF BlankInv, g
    <2>3. CASE /\ g.diagram /\ IsEdge(m) /\ n \in {m.from, m.to}
               /\ n \notin g.labelled /\ n \notin g.blank
      <3>1. GotNode(p, 1, n) \/ Raced(n)
        BY <1>1, <1>3, <2>3 DEF MailOrder, GetsDiagram, m, g
      <3>2. ~ GotNode(p, 1, n)
        BY <1>5, <2>3 DEF GotNode, g
      <3> QED
        BY <3>1, <3>2
    <2> QED
      BY <1>4, <2>1, <2>2, <2>3
  <1> QED
    BY <1>13, <1>14, <1>15

\* The order of nodes and edges is kept.
LEMMA OrderKept ==
    ASSUME Types, NodesInv, AimInv, SessionInv, UnsentInv,
           MailOrder, ServedInv, BlankInv, Next
    PROVE  MailOrder' /\ ServedInv' /\ BlankInv'
  <1> DEFINE Goal == MailOrder' /\ ServedInv' /\ BlankInv'
  <1>1. /\ Recorded \subseteq Recorded'
        /\ thread \in [Threads -> [pc : RootPcs \cup ActorPcs, to : Targets \cup {None}]]
        /\ thread[Root].pc \in RootPcs
    BY Grown DEF Types, ThreadType
  <1>2. ASSUME mail' = mail, page' = page, lost \subseteq lost', ToldBefore, edges' = edges,
               Awake' => Awake, \A p \in Pages \ lost' : out' = p /\ GetsDiagram(p) => out = p
        PROVE  Goal
    BY <1>1, <1>2, OrderQuiet, ServedQuiet
  <1>3. TablesKept => ToldBefore /\ edges' = edges /\ (Awake' <=> Awake)
    BY DEF TablesKept, ToldBefore, Told, Awake, At
  \* The root.
  <1>4. CASE OpenTab \/ Ready
    <2>1. /\ mail' = mail /\ page' = page /\ lost' = lost /\ out' = out
          /\ nodes' = nodes /\ edges' = edges
      BY <1>4 DEF OpenTab, Ready, sessions, tables
    <2>2. /\ thread[Root].pc \in {"open", "wait"} /\ thread'[Root].pc \in {"wait", "ready"}
          /\ \A a \in Actors : thread'[a] = thread[a]
      BY <1>1, <1>4, Names DEF OpenTab, Ready, At, Goto
    <2>3. ToldBefore
      BY <2>1, <2>2, Names DEF ToldBefore, Told, At, NodesInv, Early
    <2> QED
      BY <1>2, <2>1, <2>2, <2>3 DEF Awake
  <1>5. CASE SendDiagram
    <2>1. /\ UiSend(NewDiagram) /\ page' = page /\ lost' = lost /\ out' = out
          /\ nodes' = nodes /\ edges' = edges /\ At(Root, "ready") /\ Goto(Root, "self", None)
      BY <1>5 DEF SendDiagram, sessions, tables
    <2>2. NewDiagram \in Item /\ NewDiagram.item = "diagram" /\ ~ IsEdge(NewDiagram)
      BY MessageTyped DEF NewDiagram, IsEdge
    <2>3. thread'[Root].pc = "self" /\ \A a \in Actors : thread'[a] = thread[a]
      BY <1>1, <2>1, Names DEF Goto
    <2>4. (\A k \in Keys : ~ Told(k)') /\ edges' = {}
      BY <2>1, <2>3, Names DEF Told, At, NodesInv, Early
    <2>5. \A p \in Pages : mail[p] = <<>>
      BY <2>1 DEF UnsentInv, At
    <2>6. MailOrder' /\ BlankInv'
      BY <2>1, <2>2, <2>5, OrderSent
    <2>7. ServedInv'
      BY <2>4 DEF ServedInv
    <2> QED
      BY <2>6, <2>7
  <1>6. ASSUME NEW k \in Actors \cup {Root}, RecordNode(k) PROVE Goal
    <2>1. /\ mail' = mail /\ page' = page /\ lost' = lost /\ out' = out /\ edges' = edges
          /\ thread[Root].pc \in {"self", "loop"} /\ Goto(Root, "announce", k)
          /\ nodes' = [nodes EXCEPT ![k] = [key |-> k, by |-> Root]]
          /\ \/ At(Root, "self") /\ k = Root
             \/ At(Root, "loop") /\ k \in Actors /\ At(k, "unborn")
      BY <1>6 DEF RecordNode, sessions, At
    <2>2. /\ thread'[Root].pc = "announce" /\ thread'[Root].to = k
          /\ \A a \in Actors : thread'[a] = thread[a]
      BY <1>1, <2>1, Names DEF Goto
    <2>3. \A i \in Keys \ {k} : nodes'[i] = nodes[i]
      BY <2>1 DEF Types, TablesType
    <2>4. ~ Told(k)'
      BY <2>1, <2>2, Names DEF Told, At, NodesInv, Early
    <2>5. ASSUME NEW i \in Keys \ {k}, Told(i)' PROVE Told(i)
      <3>1. CASE i = Root
        BY <2>1, <2>2, <2>5, <3>1, Names DEF Told, At
      <3>2. CASE i \in Actors
        BY <2>2, <2>5, <3>2, Names DEF Told, At
      <3>3. CASE i \in Islands
        <4>1. nodes[i] # None /\ nodes'[i] = nodes[i]
          BY <2>3, <2>5, <3>3, Names DEF Told
        <4>2. nodes[i].by \in Actors
          BY <3>3, <4>1 DEF NodesInv
        <4> QED
          BY <2>2, <2>5, <3>3, <4>1, <4>2, Names DEF Told, At
      <3> QED
        BY <3>1, <3>2, <3>3 DEF Keys
    <2>6. ToldBefore
      BY <2>3, <2>4, <2>5 DEF ToldBefore
    <2> QED
      BY <1>2, <2>1, <2>6 DEF Awake
  <1>7. CASE Announce
    <2> DEFINE to == thread[Root].to
               m == NewNode(nodes[to])
    <2>1. /\ UiSend(m) /\ page' = page /\ lost' = lost /\ out' = out
          /\ nodes' = nodes /\ edges' = edges /\ At(Root, "announce")
          /\ thread' = [t \in Threads |->
                          IF t = Root THEN [pc |-> "loop", to |-> None]
                          ELSE IF t = to THEN [pc |-> "run", to |-> None]
                          ELSE thread[t]]
      BY <1>7 DEF Announce, sessions, tables
    <2>2. m \in Item /\ m # NewDiagram /\ ~ IsEdge(m)
      BY <2>1, MessageTyped DEF NewNode, NewDiagram, IsEdge
    <2>3. /\ thread'[Root].pc = "loop"
          /\ \A a \in Actors : thread'[a] = IF a = to THEN [pc |-> "run", to |-> None] ELSE thread[a]
      BY <2>1, Names
    <2>4. ASSUME NEW k \in Keys, Told(k)', k # to PROVE Told(k)
      <3>1. CASE k = Root
        BY <2>1, <2>4, <3>1 DEF Told, At
      <3>2. CASE k \in Actors
        BY <2>3, <2>4, <3>2, Names DEF Told, At
      <3>3. CASE k \in Islands
        <4>1. nodes[k] # None /\ nodes'[k] = nodes[k]
          BY <2>1, <2>4, <3>3, Names DEF Told
        <4>2. nodes[k].by \in Actors
          BY <3>3, <4>1 DEF NodesInv
        <4>3. nodes[k].by = to => At(nodes[k].by, "unborn")
          BY <2>1, <4>2 DEF NodesInv
        <4> QED
          BY <2>3, <2>4, <3>3, <4>1, <4>2, <4>3, Names DEF Told, At
      <3> QED
        BY <3>1, <3>2, <3>3 DEF Keys
    <2>5. Awake
      BY <2>1 DEF Awake, At
    <2>6. \A k \in Keys : Told(k)' => \/ Told(k) /\ nodes'[k] = nodes[k]
                                      \/ m = NewNode(nodes'[k])
      BY <2>1, <2>4
    <2> HIDE DEF m
    <2>7. MailOrder' /\ BlankInv'
      BY <2>1, <2>2, OrderSent
    <2>8. ServedInv'
      BY <2>1, <2>2, <2>5, <2>6, ServedSent
    <2> QED
      BY <2>7, <2>8
  \* The actors.
  <1>8. ASSUME NEW a \in Actors, NEW pc \in ActorPcs, NEW k, Goto(a, pc, k),
               pc # "tell", pc # "unborn", thread[a].pc \notin {"tell", "unborn"}, nodes' = nodes
        PROVE  ToldBefore /\ (Awake' <=> Awake)
    <2>1. /\ thread'[a].pc = pc /\ thread'[Root] = thread[Root]
          /\ \A b \in Actors \ {a} : thread'[b] = thread[b]
      BY <1>1, <1>8, Names DEF Goto
    <2>2. \A i \in Islands : nodes[i] # None => nodes[i].by \in Actors
      BY DEF NodesInv
    <2>3. \A b \in Actors : /\ At(b, "unborn")' <=> At(b, "unborn")
                            /\ At(b, "tell")' <=> At(b, "tell")
                            /\ At(b, "tell") => thread'[b] = thread[b]
      BY <1>8, <2>1 DEF At
    <2> QED
      BY <1>8, <2>1, <2>2, <2>3, Names DEF ToldBefore, Told, Awake, At
  <1>9. ASSUME NEW a \in Actors, NEW t \in Targets, Aim(a, t) PROVE Goal
    <2>1. /\ mail' = mail /\ page' = page /\ lost' = lost /\ out' = out
          /\ nodes' = nodes /\ edges' = edges /\ thread[a].pc = "run"
          /\ \/ Goto(a, "name", t) \/ Goto(a, "link", t)
      BY <1>9 DEF Aim, sessions, tables, At
    <2> QED
      BY <1>2, <1>8, <2>1 DEF ActorPcs
  <1>10. ASSUME NEW a \in Actors, NameIsland(a) PROVE Goal
    <2>1. PICK t : t = thread[a].to
      OBVIOUS
    <2>2. /\ mail' = mail /\ page' = page /\ lost' = lost /\ out' = out /\ edges' = edges
          /\ At(a, "name") /\ Goto(a, "tell", t)
          /\ nodes' = [nodes EXCEPT ![t] = [key |-> t, by |-> a]]
      BY <1>10, <2>1 DEF NameIsland, sessions
    <2>3. t \in Islands /\ t \in Keys
      BY <2>1, <2>2 DEF AimInv, At, Keys
    <2>4. /\ thread'[a].pc = "tell" /\ thread'[a].to = t /\ thread'[Root] = thread[Root]
          /\ \A b \in Actors \ {a} : thread'[b] = thread[b]
      BY <1>1, <2>2, Names DEF Goto
    <2>5. nodes'[t] = [key |-> t, by |-> a] /\ \A i \in Keys \ {t} : nodes'[i] = nodes[i]
      BY <2>2, <2>3 DEF Types, TablesType
    <2>6. ~ Told(t)'
      BY <2>3, <2>4, <2>5, Names DEF Told, At
    <2>7. ASSUME NEW k \in Keys \ {t}, Told(k)' PROVE Told(k)
      <3>1. CASE k \in Actors \cup {Root}
        BY <2>2, <2>4, <2>7, <3>1, Names DEF Told, At
      <3>2. CASE k \in Islands
        <4>1. nodes[k] # None /\ nodes'[k] = nodes[k]
          BY <2>5, <2>7, <3>2, Names DEF Told
        <4>2. nodes[k].by \in Actors
          BY <3>2, <4>1 DEF NodesInv
        <4> QED
          BY <2>2, <2>4, <2>7, <3>2, <4>1, <4>2, Names DEF Told, At
      <3> QED
        BY <3>1, <3>2 DEF Keys
    <2>8. ToldBefore /\ (Awake' <=> Awake)
      BY <2>4, <2>5, <2>6, <2>7 DEF ToldBefore, Awake
    <2> QED
      BY <1>2, <2>2, <2>8
  <1>11. ASSUME NEW a \in Actors, ~ At(a, "unborn") PROVE Awake
    BY <1>1, <1>11 DEF NodesInv, Early, Awake, RootPcs
  <1>12. ASSUME NEW a \in Actors, TellIsland(a) PROVE Goal
    <2> DEFINE t == thread[a].to
               m == NewNode([key |-> t, by |-> a])
    <2>1. /\ UiSend(m) /\ page' = page /\ lost' = lost /\ out' = out
          /\ nodes' = nodes /\ edges' = edges /\ At(a, "tell") /\ Goto(a, "link", t)
      BY <1>12 DEF TellIsland, sessions, tables
    <2>2. m \in Item /\ m # NewDiagram /\ ~ IsEdge(m)
      BY <2>1, MessageTyped DEF NewNode, NewDiagram, IsEdge
    <2>3. Awake
      BY <1>11, <2>1 DEF At
    <2>4. /\ thread'[a].pc = "link" /\ thread'[Root] = thread[Root]
          /\ \A b \in Actors \ {a} : thread'[b] = thread[b]
      BY <1>1, <2>1, Names DEF Goto
    <2>5. ASSUME NEW k \in Keys, Told(k)', ~ Told(k) PROVE m = NewNode(nodes'[k])
      <3>1. k \in Islands /\ nodes[k] # None /\ nodes'[k] = nodes[k]
        BY <2>1, <2>4, <2>5, Names DEF Told, At, Keys
      <3>2. nodes[k] \in [key : {k}, by : Actors]
        BY <3>1 DEF NodesInv
      <3>3. nodes[k].by = a /\ t = k
        BY <2>4, <2>5, <3>1, <3>2, Names DEF Told, At
      <3>4. nodes[k] = [key |-> k, by |-> a]
        BY <3>2, <3>3
      <3> QED
        BY <3>1, <3>3, <3>4
    <2>6. \A k \in Keys : Told(k)' => \/ Told(k) /\ nodes'[k] = nodes[k]
                                      \/ m = NewNode(nodes'[k])
      BY <2>1, <2>5
    <2> HIDE DEF m
    <2>7. MailOrder' /\ BlankInv'
      BY <2>1, <2>2, OrderSent
    <2>8. ServedInv'
      BY <2>1, <2>2, <2>3, <2>6, ServedSent
    <2> QED
      BY <2>7, <2>8
  <1>13. ASSUME NEW a \in Actors, Link(a) PROVE Goal
    <2>1. /\ mail' = mail /\ page' = page /\ lost' = lost /\ out' = out
          /\ nodes' = nodes /\ edges' = edges /\ thread[a].pc = "link"
          /\ \/ Goto(a, "connect", thread[a].to) \/ Goto(a, "run", None)
      BY <1>13 DEF Link, sessions, tables, At
    <2> QED
      BY <1>2, <1>8, <2>1 DEF ActorPcs
  <1>14. ASSUME NEW a \in Actors, Connect(a) PROVE Goal
    <2>1. PICK t, e : t = thread[a].to /\ e = NewEdge(nodes[a], nodes[t])
      OBVIOUS
    <2>2. /\ mail' = mail /\ page' = page /\ lost' = lost /\ out' = out /\ nodes' = nodes
          /\ edges' = edges \cup {e} /\ At(a, "connect") /\ Goto(a, "draw", t)
      BY <1>14, <2>1 DEF Connect, sessions
    <2>3. /\ e.from = nodes[a] /\ e.to = nodes[t] /\ nodes[t].key = t
          /\ t \in Keys /\ a \in Keys
      BY <2>1, <2>2, Connected DEF Keys
    <2>4. <<a, t>> \in Recorded'
      BY <1>14, <2>1, ConnectRecords
    <2>5. Told(a)
      BY <2>2 DEF Told, At
    <2>6. Told(t) \/ Raced(nodes[t])'
      <3>1. /\ t \in Islands \cup Running \cup {Root}
            /\ t \in Islands => nodes[t] # None
        BY <2>1, <2>2 DEF AimInv
      <3>2. CASE t = Root
        BY <1>11, <2>2, <3>2 DEF Told, At, NodesInv, Awake, Early
      <3>3. CASE t \in Running
        BY <3>3 DEF Told, At, Running
      <3>4. CASE t \in Islands /\ nodes[t].by = a
        BY <2>2, <3>1, <3>4 DEF Told, At
      <3>5. CASE t \in Islands /\ nodes[t].by # a
        BY <2>2, <2>3, <2>4, <3>5 DEF Raced
      <3> QED
        BY <3>1, <3>2, <3>3, <3>4, <3>5
    <2>7. ToldBefore /\ (Awake' <=> Awake)
      BY <1>8, <2>2 DEF At, ActorPcs
    <2>8. \A x \in edges' \ edges : \A n \in {x.from, x.to} :
             Raced(n)' \/ \E k \in Keys : Told(k) /\ n = nodes[k]
      <3>1. \A x \in edges' \ edges : x.from = nodes[a] /\ x.to = nodes[t]
        BY <2>2, <2>3
      <3>2. Raced(nodes[t])' => \A n : n = nodes[t] => Raced(n)'
        BY <2>2 DEF Raced
      <3> QED
        BY <2>3, <2>5, <2>6, <3>1, <3>2
    <2>9. MailOrder' /\ BlankInv'
      BY <1>1, <2>2, OrderQuiet
    <2>10. ServedInv'
      BY <1>1, <2>2, <2>7, <2>8, ServedQuiet
    <2> QED
      BY <2>9, <2>10
  <1>15. ASSUME NEW a \in Actors, Draw(a) PROVE Goal
    <2>1. PICK m \in edges : UiSend(m)
      BY <1>15 DEF Draw
    <2>2. /\ page' = page /\ lost' = lost /\ out' = out
          /\ nodes' = nodes /\ edges' = edges /\ At(a, "draw") /\ Goto(a, "run", None)
      BY <1>15 DEF Draw, sessions, tables
    <2>3. m \in Item /\ m # NewDiagram /\ \A n : m # NewNode(n)
      BY MessageTyped DEF Types, TablesType, Edge, NewDiagram, NewNode
    <2>4. Awake
      BY <1>11, <2>2 DEF At
    <2>5. \A p \in Pages \ lost : out = p /\ GetsDiagram(p) =>
             \A n \in {m.from, m.to} : GetsNode(p, n) \/ Raced(n)
      BY <2>1, <2>4 DEF ServedInv
    <2>6. ToldBefore
      BY <1>8, <2>2 DEF At, ActorPcs
    <2>7. MailOrder' /\ BlankInv'
      BY <2>1, <2>2, <2>3, <2>5, OrderSent
    <2>8. ServedInv'
      BY <2>1, <2>2, <2>3, <2>4, <2>6, ServedSent DEF ToldBefore
    <2> QED
      BY <2>7, <2>8
  \* The session.
  <1>16. ASSUME NEW p \in Pages, Load(p) \/ Look(p) \/ Greet(p) PROVE Goal
    <2>1. mail' = mail /\ page' = page /\ lost' = lost /\ out' = out
      BY <1>16 DEF Load, Look, Greet
    <2>2. TablesKept
      BY <1>16, SessionSteps DEF Serve
    <2> QED
      BY <1>2, <1>3, <2>1, <2>2
  <1>17. ASSUME NEW p \in Pages, Claim(p) PROVE Goal
    <2>1. mail' = mail /\ page' = page /\ lost' = lost /\ out' = p /\ conn[p] = "claim"
      BY <1>17 DEF Claim
    <2>2. TablesKept
      BY <1>17, SessionSteps DEF Serve
    <2>3. ~ GetsDiagram(p)
      BY <2>1 DEF UnsentInv, GetsDiagram, Positions
    <2> QED
      BY <1>2, <1>3, <2>1, <2>2, <2>3
  <1>18. ASSUME NEW p \in lost, TablesKept, out' = out, lost' = lost, page' = page,
                \A q \in Pages \ {p} : mail'[q] = mail[q]
         PROVE  Goal
    <2>1. \A q \in Pages \ lost : /\ q \in Pages \ lost' /\ mail'[q] = mail[q]
                                  /\ \A j, n : /\ GotDiagram(q, j)' <=> GotDiagram(q, j)
                                               /\ GotNode(q, j, n)' <=> GotNode(q, j, n)
                                  /\ \A n : /\ GetsDiagram(q)' <=> GetsDiagram(q)
                                            /\ GetsNode(q, n)' <=> GetsNode(q, n)
      BY <1>18 DEF GotDiagram, GotNode, GetsDiagram, GetsNode
    <2>2. \A n : Raced(n)' <=> Raced(n)
      BY <1>18 DEF Raced, Recorded, TablesKept
    <2>3. MailOrder'
      BY <1>18, <2>1, <2>2 DEF MailOrder
    <2>4. ServedInv'
      BY <1>1, <1>3, <1>18, ServedQuiet
    <2>5. BlankInv'
      BY <1>18, <2>2 DEF BlankInv
    <2> QED
      BY <2>3, <2>4, <2>5
  <1>19. ASSUME NEW p \in Pages, DeliverFails(p) PROVE Goal
    <2>1. p \in lost /\ lost' = lost /\ out' = out /\ page' = page
          /\ \A q \in Pages \ {p} : mail'[q] = mail[q]
      BY <1>19 DEF DeliverFails, Types, MailType
    <2>2. TablesKept
      BY <1>19, SessionSteps DEF Serve
    <2> QED
      BY <1>18, <2>1, <2>2
  <1>20. ASSUME NEW p \in Pages, Lose(p) PROVE Goal
    <2>1. /\ mail' = mail /\ lost' = lost \cup {p} /\ out' = out
          /\ page'[p].blank = {} /\ \A q \in Pages \ {p} : page'[q] = page[q]
      BY <1>20 DEF Lose, Types, PageType, EmptyPage
    <2>2. TablesKept
      BY <1>20, SessionSteps
    <2>3. \A q \in Pages \ lost' : /\ q \in Pages \ lost /\ q # p
                                   /\ \A j, n : /\ GotDiagram(q, j)' <=> GotDiagram(q, j)
                                                /\ GotNode(q, j, n)' <=> GotNode(q, j, n)
                                   /\ \A n : /\ GetsDiagram(q)' <=> GetsDiagram(q)
                                             /\ GetsNode(q, n)' <=> GetsNode(q, n)
      BY <2>1 DEF GotDiagram, GotNode, GetsDiagram, GetsNode
    <2>4. \A n : Raced(n)' <=> Raced(n)
      BY <2>2 DEF Raced, Recorded, TablesKept
    <2>5. MailOrder'
      BY <2>1, <2>3, <2>4 DEF MailOrder
    <2>6. ServedInv'
      BY <1>1, <1>3, <2>1, <2>2, ServedQuiet
    <2>7. BlankInv'
      BY <2>1, <2>4 DEF BlankInv
    <2> QED
      BY <2>5, <2>6, <2>7
  <1> HIDE DEF Goal
  <1>21. Goal
    BY <1>4, <1>5, <1>6, <1>7, <1>9, <1>10, <1>12, <1>13, <1>14, <1>15, <1>16, <1>17, <1>19,
       <1>20, OrderDelivered DEF Next, RootStep, Instrument, Serve, Goal
  <1> QED
    BY <1>21 DEF Goal

-----------------------------------------------------------------------------
(* The theorems.                                                            *)

\* Nothing has been made, sent or shown when the island starts.
LEMMA InvInit == Init => Inv
  <1> SUFFICES ASSUME Init PROVE Inv
    OBVIOUS
  <1>1. /\ thread = [t \in Threads |->
                       [pc |-> IF t = Root THEN "open" ELSE "unborn", to |-> None]]
        /\ nodes = [k \in Keys |-> None] /\ edges = {} /\ out = None /\ posts = 0
        /\ conn = [p \in Pages |-> "none"] /\ mail = [p \in Pages |-> <<>>]
        /\ lost = {} /\ page = [p \in Pages |-> EmptyPage]
    BY DEF Init
  <1>2. <<>> \in Seq(Item) /\ <<>> \in Seq(Node \X Node) /\ Positions(<<>>) = {}
    BY DEF Positions
  <1>3. EmptyPage \in Graph /\ EmptyPage.drawn = <<>> /\ EmptyPage.blank = {}
    BY <1>2 DEF EmptyPage, Graph
  <1>4. ThreadType /\ TablesType
    BY <1>1, Names DEF ThreadType, TablesType, RootPcs, ActorPcs, Threads
  <1>5. SessionType /\ MailType /\ PageType
    BY <1>1, <1>2, <1>3, DiagramAssumption DEF SessionType, MailType, PageType, ConnPcs
  <1>6. PostsInv
    BY <1>1, GreetedFinite, DiagramAssumption DEF PostsInv
  <1>7. \A a \in Actors : At(a, "unborn")
    BY <1>1, Names DEF At
  <1>8. At(Root, "open")
    BY <1>1, Names DEF At
  <1>9. \A p \in Pages : mail[p] = <<>> /\ page[p] = EmptyPage
    BY <1>1
  <1>10. NodesInv
    BY <1>1, <1>7, <1>8 DEF NodesInv, At, Early, Keys
  <1>11. AimInv
    BY <1>7 DEF AimInv, At
  <1>12. SessionInv
    BY <1>1, Names DEF SessionInv
  <1>13. OnceInv
    BY <1>2, <1>3, <1>9 DEF OnceInv, MailedOnce, ShownOnce, ShownOrMailed, MailedRecorded, ShownRecorded
  <1>14. MailOrder /\ ServedInv /\ BlankInv
    BY <1>2, <1>3, <1>8, <1>9 DEF MailOrder, ServedInv, Awake, BlankInv, At
  <1>15. UnsentInv
    BY <1>9 DEF UnsentInv, EmptyPage
  <1> QED
    BY <1>4, <1>5, <1>6, <1>10, <1>11, <1>12, <1>13, <1>14, <1>15 DEF Inv, Types

\* Every step keeps the invariant.
LEMMA InvStep == Inv /\ [Next]_vars => Inv'
  <1> SUFFICES ASSUME Inv, [Next]_vars PROVE Inv'
    OBVIOUS
  <1>1. CASE Next
    <2>1. /\ Types /\ PostsInv /\ NodesInv /\ AimInv /\ SessionInv /\ UnsentInv
          /\ OnceInv /\ MailOrder /\ ServedInv /\ BlankInv
      BY DEF Inv
    <2>2. Types'
      BY <1>1, <2>1, ThreadsTyped, SessionTyped, MailTyped DEF Types
    <2>3. NodesInv' /\ AimInv'
      BY <1>1, <2>1, NodesKept, AimKept
    <2>4. PostsInv' /\ SessionInv' /\ UnsentInv'
      BY <1>1, <2>1, PostsKept, SessionsKept, UnsentKept
    <2>5. OnceInv'
      BY <1>1, <2>1, OnceKept
    <2>6. MailOrder' /\ ServedInv' /\ BlankInv'
      BY <1>1, <2>1, OrderKept
    <2> QED
      BY <2>2, <2>3, <2>4, <2>5, <2>6 DEF Inv
  <1>2. CASE UNCHANGED vars
    <2>1. UNCHANGED <<thread, nodes, edges, out, posts, conn, mail, lost, page>>
      BY <1>2 DEF vars
    <2>2. Types' /\ PostsInv'
      BY <2>1 DEF Inv, Types, ThreadType, TablesType, SessionType, MailType, PageType,
         PostsInv, Greeted
    <2>3. NodesInv' /\ AimInv' /\ SessionInv' /\ UnsentInv' /\ Recorded' = Recorded
      BY <2>1 DEF Inv, NodesInv, Early, AimInv, Running, SessionInv, UnsentInv, Recorded, At
    <2>4. OnceInv'
      BY <2>1, <2>3 DEF Inv, OnceInv, MailedOnce, ShownOnce, ShownOrMailed, MailedRecorded,
         ShownRecorded, Drawn, At
    <2>5. ToldBefore /\ (Awake' <=> Awake)
      BY <2>1 DEF ToldBefore, Told, Awake, At
    <2>6. MailOrder' /\ ServedInv' /\ BlankInv'
      BY <2>1, <2>3, <2>5, OrderQuiet, ServedQuiet DEF Inv
    <2> QED
      BY <2>2, <2>3, <2>4, <2>6 DEF Inv
  <1> QED
    BY <1>1, <1>2

\* Inv is an invariant of every behaviour of the diagram.
LEMMA Invariance == Spec => []Inv
  BY InvInit, InvStep, PTL DEF Spec

\* Type correctness of the root, the actors, the session and the pages, however
\* many pages are loaded and lost: what is sent to a page is made of nodes that
\* exist, and the semaphore is posted once per page at most.
THEOREM DiagramTypeCorrect == Spec => []TypeOK
  <1>1. Inv => TypeOK
    <2> SUFFICES ASSUME Inv PROVE TypeOK
      OBVIOUS
    <2>1. Types
      BY DEF Inv
    <2>2. \A t \in Threads :
             /\ thread[t].pc \in
                  IF t = Root THEN {"open", "wait", "ready", "self", "announce", "loop"}
                  ELSE {"unborn", "run", "name", "tell", "link", "connect", "draw"}
             /\ thread[t].to \in Targets \cup {None}
      BY <2>1 DEF Types, ThreadType, RootPcs, ActorPcs, Threads
    <2>3. posts \in 0 .. Cardinality(Pages)
      BY <2>1, GreetedFinite, DiagramAssumption DEF Inv, PostsInv, Types, SessionType
    <2>4. \A p \in Pages :
             /\ page[p].diagram \in BOOLEAN
             /\ page[p].labelled \subseteq Node /\ page[p].blank \subseteq Node
             /\ page[p].drawn \in Seq(Node \X Node)
      BY <2>1 DEF Types, PageType, Graph
    <2> QED
      BY <2>1, <2>2, <2>3, <2>4 DEF TypeOK, Types, TablesType, SessionType, MailType, ConnPcs
  <1> QED
    BY <1>1, Invariance, PTL

\* The sends of one actor to one receiver draw one edge at most, over all the
\* pages: startup.rkt tests and writes its table of edges in two steps, and an
\* island may get several nodes.
THEOREM DrawnOnceHolds == Spec => []DrawnOnce
  <1>1. Inv => DrawnOnce
    <2> SUFFICES ASSUME Inv, NEW c \in Drawings, NEW d \in Drawings, Ends(c) = Ends(d)
                 PROVE  c = d
      BY DEF DrawnOnce
    <2>1. PICK p \in Pages : \E j \in DOMAIN page[p].drawn : c = <<p, j>>
      BY DEF Drawings
    <2>2. PICK j \in DOMAIN page[p].drawn : c = <<p, j>>
      BY <2>1
    <2>3. PICK q \in Pages : \E k \in DOMAIN page[q].drawn : d = <<q, k>>
      BY DEF Drawings
    <2>4. PICK k \in DOMAIN page[q].drawn : d = <<q, k>>
      BY <2>3
    <2>5. /\ DOMAIN page[p].drawn = Positions(page[p].drawn)
          /\ DOMAIN page[q].drawn = Positions(page[q].drawn)
      BY DEF Inv, Types, PageType, Graph, Positions
    <2>6. Drawn(p, j) = Drawn(q, k)
      BY <2>2, <2>4 DEF Ends, Drawn
    <2>7. p = q /\ j = k
      BY <2>5, <2>6 DEF Inv, OnceInv, ShownOnce
    <2> QED
      BY <2>2, <2>4, <2>7
  <1> QED
    BY <1>1, Invariance, PTL

\* A page shows an edge before the label of its end for another island only,
\* and only when another actor than the one that made its node has sent there:
\* the root and the actors always have their label, whichever pages are lost.
THEOREM BlankByRaceHolds == Spec => []BlankByRace
  <1>1. Inv => BlankByRace
    BY DEF Inv, BlankInv, Raced, BlankByRace
  <1> QED
    BY <1>1, Invariance, PTL
=============================================================================
