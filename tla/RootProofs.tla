----------------------------- MODULE RootProofs -----------------------------
(****************************************************************************)
(* Theorems about Root for any spawn requests and messages.                 *)
(*                                                                          *)
(* PlaceInv says that a request or message is in one place of one queue, in *)
(* a form that speaks of positions and not of cardinalities, and that what  *)
(* is in a queue was sent.  OrderInv compares the deliveries in the mailbox *)
(* of an actor with those still in the root's mailbox and those with one    *)
(* another: all are in the order in which they arrived.  The deliveries on  *)
(* the public CURL, which go round, are not among them.                     *)
(****************************************************************************)
EXTENDS Root, FiniteSetTheorems, TLAPS

InboxInv ==
    /\ \A i, j \in 1 .. Len(inbox) :
          inbox[i] = inbox[j] /\ inbox[i] # Thunk => i = j
    /\ \A i \in 1 .. Len(inbox) :
          /\ inbox[i] # Thunk => inbox[i] \in sent
          /\ inbox[i] \in Spawns => actor[inbox[i]] = "none"

MailInv ==
    \A s \in Spawns :
        /\ actor[s] # "none" => s \in sent
        /\ \A i, j \in 1 .. Len(mail[s]) : mail[s][i] = mail[s][j] => i = j
        /\ \A i \in 1 .. Len(mail[s]) : mail[s][i] \in sent /\ To[mail[s][i]] = s

Apart ==
    \A s \in Spawns : \A i \in 1 .. Len(mail[s]), j \in 1 .. Len(inbox) :
        mail[s][i] # inbox[j]

PlaceInv == InboxInv /\ MailInv /\ Apart

\* The deliveries for actors.
Ordered == {m \in Messages \cap Remote : To[m] # Public}

Arrived(m) == \E k \in 1 .. Len(arrived) : arrived[k] = m

OrderInv ==
    /\ InOrder
    /\ \A i \in 1 .. Len(inbox) : inbox[i] \in Ordered => Arrived(inbox[i])
    /\ \A s \in Spawns : \A i \in 1 .. Len(mail[s]) :
          mail[s][i] \in Remote => Arrived(mail[s][i])
    /\ \A i, j \in 1 .. Len(inbox) :
          i < j /\ {inbox[i], inbox[j]} \subseteq Ordered => Before(inbox[i], inbox[j])
    /\ \A s \in Spawns : \A i \in 1 .. Len(mail[s]), j \in 1 .. Len(inbox) :
          mail[s][i] \in Remote /\ inbox[j] \in Ordered /\ To[inbox[j]] = s
              => Before(mail[s][i], inbox[j])

Inv == TypeOK /\ PlaceInv /\ OrderInv

LEMMA InitInv == Init => Inv
  BY RootAssumption DEF Init, Inv, TypeOK, PlaceInv, InboxInv, MailInv, Apart, OrderInv,
     InOrder

-----------------------------------------------------------------------------
(* Queues.                                                                  *)

LEMMA AppendFacts ==
    ASSUME NEW S, NEW q \in Seq(S), NEW e \in S
    PROVE  /\ Append(q, e) \in Seq(S) /\ Len(q) \in Nat
           /\ Len(Append(q, e)) = Len(q) + 1
           /\ \A i \in 1 .. Len(q) : Append(q, e)[i] = q[i]
           /\ Append(q, e)[Len(q) + 1] = e
  OBVIOUS

LEMMA TailFacts ==
    ASSUME NEW S, NEW q \in Seq(S), q # <<>>
    PROVE  /\ Tail(q) \in Seq(S) /\ Head(q) \in S /\ Len(q) \in Nat \ {0}
           /\ Len(Tail(q)) = Len(q) - 1
           /\ \A i \in 1 .. Len(Tail(q)) : Tail(q)[i] = q[i + 1]
           /\ Head(q) = q[1]
  OBVIOUS

Queued == Spawns \cup Messages \cup {Thunk}

\* What a message or request posted to the root does to its mailbox.
LEMMA PostFacts ==
    ASSUME TypeOK, NEW m \in Queued, Post(m)
    PROVE  /\ inbox' \in Seq(Queued)
           /\ \/ root = "dead" /\ inbox' = inbox
              \/ root # "dead" /\ inbox' = Append(inbox, m)
  BY DEF Post, TypeOK, Queued

\* What a message sent to an actor does to its mailbox.
LEMMA SendToFacts ==
    ASSUME TypeOK, NEW m \in Messages, NEW s \in Spawns, SendTo(s, m)
    PROVE  /\ mail' \in [Spawns -> Seq(Messages)]
           /\ \A u \in Spawns \ {s} : mail'[u] = mail[u]
           /\ mail'[s] = mail[s] \/ mail'[s] = Append(mail[s], m)
  BY DEF SendTo, TypeOK

LEMMA StepType == TypeOK /\ [Next]_vars => TypeOK'
  <1> USE RootAssumption
  <1> SUFFICES ASSUME TypeOK, [Next]_vars PROVE TypeOK'
      OBVIOUS
  <1>1. CASE MakeRoot \/ Listen \/ Ready
      BY <1>1 DEF MakeRoot, Listen, Ready, TypeOK, actors
  <1>2. CASE Jumpstart
    <2>1. inbox' \in Seq(Queued)
        BY <1>2, PostFacts DEF Jumpstart, Queued
    <2> QED BY <1>2, <2>1 DEF Jumpstart, TypeOK, actors, Queued
  <1>0. /\ inbox # <<>> => Tail(inbox) \in Seq(Queued)
        /\ <<>> \in Seq(Queued)
      BY DEF TypeOK, Queued
  <1>3. CASE Begin
    <2>1. CASE Head(inbox) = Thunk
        BY <1>0, <1>3, <2>1 DEF Begin, TypeOK, actors, Queued
    <2>2. CASE Head(inbox) # Thunk
        BY <1>0, <1>3, <2>2 DEF Begin, TypeOK, actors, Queued
    <2> QED BY <2>1, <2>2
  <1>4. ASSUME NEW s \in Spawns, RequestSpawn(s) PROVE TypeOK'
    <2>1. inbox' \in Seq(Queued)
        BY <1>4, PostFacts DEF RequestSpawn, Queued
    <2> QED BY <1>4, <2>1 DEF RequestSpawn, TypeOK, actors, Queued
  <1>5. ASSUME NEW s \in Spawns, End(s) \/ Spoil(s) PROVE TypeOK'
      BY <1>5 DEF End, Spoil, TypeOK
  <1>6. ASSUME NEW m \in Spawns \cup Messages, Arrive(m) PROVE TypeOK'
    <2>1. inbox' \in Seq(Queued)
        BY <1>6, PostFacts DEF Arrive, Queued
    <2>2. arrived' \in Seq(Remote)
        BY <1>6 DEF Arrive, TypeOK
    <2> QED BY <1>6, <2>1, <2>2 DEF Arrive, TypeOK, actors, Queued
  <1>7. ASSUME NEW m \in Spawns \cup Messages, Spawn(m) \/ SpawnFails(m) PROVE TypeOK'
    <2>1. inbox' \in Seq(Queued) /\ root' \in {root, "dead"}
      <3>1. CASE Spawn(m)
          BY <1>0, <3>1 DEF Spawn, Takes
      <3>2. CASE SpawnFails(m)
          BY <1>0, <3>2 DEF SpawnFails
      <3> QED BY <1>7, <3>1, <3>2
    <2>2. actor' \in [Spawns -> {"none", "waiting", "running", "ended"}]
        BY <1>7 DEF Spawn, SpawnFails, TypeOK
    <2>3. UNCHANGED <<main, usable, mail, sent, arrived>>
        BY <1>7 DEF Spawn, SpawnFails
    <2> QED BY <2>1, <2>2, <2>3 DEF TypeOK, Queued
  <1>8. ASSUME NEW m \in Spawns \cup Messages, Forward(m) PROVE TypeOK'
    <2>1. mail' \in [Spawns -> Seq(Messages)]
        BY <1>8, SendToFacts DEF Forward
    <2> QED BY <1>8, <2>1 DEF Forward, Takes, TypeOK
  <1>9. ASSUME NEW m \in Spawns \cup Messages, ForwardPublic(m) PROVE TypeOK'
      BY <1>9 DEF ForwardPublic, Takes, TypeOK, actors
  <1>10. ASSUME NEW m \in Spawns \cup Messages, NEW a \in Spawns, Send(a, m) PROVE TypeOK'
    <2>1. CASE m \in Spawns \/ To[m] = Public
      <3>1. inbox' \in Seq(Queued)
          BY <1>10, <2>1, PostFacts DEF Send, Queued
      <3> QED BY <1>10, <2>1, <3>1 DEF Send, TypeOK, Queued
    <2>2. CASE m \notin Spawns /\ To[m] # Public
      <3>1. mail' \in [Spawns -> Seq(Messages)]
          BY <1>10, <2>2, SendToFacts DEF Send
      <3> QED BY <1>10, <2>2, <3>1 DEF Send, TypeOK
    <2> QED BY <2>1, <2>2
  <1>11. CASE UNCHANGED vars
      BY <1>11 DEF vars, TypeOK
  <1> QED BY <1>1, <1>2, <1>3, <1>4, <1>5, <1>6, <1>7, <1>8, <1>9, <1>10, <1>11
          DEF Next, Handle

-----------------------------------------------------------------------------
(* How the root's mailbox changes.                                          *)

LEMMA ShrinkFacts ==
    ASSUME TypeOK, inbox # <<>>, inbox' \in {<<>>, Tail(inbox)}
    PROVE  \A i \in 1 .. Len(inbox') : /\ i \in Int /\ i + 1 \in 1 .. Len(inbox)
                                       /\ inbox'[i] = inbox[i + 1]
  <1>1. CASE inbox' = <<>>
      BY <1>1
  <1>2. CASE inbox' = Tail(inbox)
      BY <1>2, TailFacts DEF TypeOK
  <1> QED BY <1>1, <1>2

LEMMA RotateFacts ==
    ASSUME TypeOK, inbox # <<>>, inbox' = Append(Tail(inbox), Head(inbox))
    PROVE  /\ Len(inbox) \in Nat \ {0} /\ Len(inbox') = Len(inbox)
           /\ Head(inbox) = inbox[1]
           /\ \A i \in 1 .. Len(inbox') : \E k \in 1 .. Len(inbox) :
                /\ inbox'[i] = inbox[k]
                /\ (i < Len(inbox) /\ k = i + 1) \/ (i = Len(inbox) /\ k = 1)
  <1> DEFINE t == Tail(inbox)
             e == Head(inbox)
  <1>1. /\ t \in Seq(Queued) /\ e \in Queued
        /\ Len(inbox) \in Nat \ {0} /\ Len(t) = Len(inbox) - 1
        /\ \A i \in 1 .. Len(inbox) - 1 : t[i] = inbox[i + 1]
        /\ e = inbox[1]
      BY TailFacts DEF TypeOK, Queued
  <1>2. inbox' = Append(t, e)
      OBVIOUS
  <1> HIDE DEF t, e
  <1>3. /\ Len(Append(t, e)) = Len(t) + 1
        /\ \A i \in 1 .. Len(t) : Append(t, e)[i] = t[i]
        /\ Append(t, e)[Len(t) + 1] = e
      BY <1>1, AppendFacts
  <1>4. ASSUME NEW i \in 1 .. Len(inbox')
        PROVE  \E k \in 1 .. Len(inbox) :
                  /\ inbox'[i] = inbox[k]
                  /\ (i < Len(inbox) /\ k = i + 1) \/ (i = Len(inbox) /\ k = 1)
    <2>1. CASE i < Len(inbox)
      <3>1. i + 1 \in 1 .. Len(inbox) /\ inbox'[i] = inbox[i + 1]
          BY <1>1, <1>2, <1>3, <2>1
      <3> QED BY <2>1, <3>1
    <2>2. CASE i = Len(inbox)
      <3>1. 1 \in 1 .. Len(inbox) /\ inbox'[i] = inbox[1]
          BY <1>1, <1>2, <1>3, <2>2
      <3> QED BY <2>2, <3>1
    <2>3. i \in Int /\ Len(inbox) \in Int /\ i <= Len(inbox)
        BY <1>1, <1>2, <1>3
    <2> QED BY <2>1, <2>2, <2>3
  <1>5. Len(inbox) \in Nat \ {0} /\ Len(inbox') = Len(inbox)
      BY <1>1, <1>2, <1>3
  <1>6. Head(inbox) = inbox[1]
      BY <1>1 DEF e
  <1> QED BY <1>4, <1>5, <1>6, Zenon

\* A message is posted to the root that was not sent before.
LEMMA PostPlaces ==
    ASSUME TypeOK, PlaceInv, NEW m \in (Spawns \cup Messages) \ sent, Post(m),
           sent' = sent \cup {m}, UNCHANGED <<actor, mail>>
    PROVE  PlaceInv'
  <1>1. CASE inbox' = inbox
      BY <1>1 DEF PlaceInv, InboxInv, MailInv, Apart
  <1>2. CASE inbox' = Append(inbox, m)
    <2>1. /\ Len(inbox) \in Nat /\ Len(inbox') = Len(inbox) + 1
          /\ \A i \in 1 .. Len(inbox) : inbox'[i] = inbox[i]
          /\ inbox'[Len(inbox) + 1] = m
        BY <1>2, AppendFacts DEF TypeOK
    <2>2. m # Thunk /\ \A i \in 1 .. Len(inbox) : inbox[i] # m
        BY RootAssumption DEF PlaceInv, InboxInv
    <2>3. m \in Spawns => actor[m] = "none"
        BY DEF PlaceInv, MailInv
    <2>4. \A s \in Spawns : \A i \in 1 .. Len(mail[s]) : mail[s][i] # m
        BY DEF PlaceInv, MailInv
    <2>5. InboxInv'
        BY <2>1, <2>2, <2>3 DEF PlaceInv, InboxInv
    <2>6. MailInv'
        BY DEF PlaceInv, MailInv
    <2>7. Apart'
        BY <2>1, <2>4 DEF PlaceInv, Apart
    <2> QED BY <2>5, <2>6, <2>7 DEF PlaceInv
  <1> QED BY <1>1, <1>2 DEF Post

\* A message reaches the mailbox of its actor, or is lost there; it is not in
\* the mailbox of the root any more, or was not sent before.
LEMMA MailPlaces ==
    ASSUME TypeOK, PlaceInv, NEW m \in Messages, To[m] \in Spawns, SendTo(To[m], m),
           sent' = sent \cup {m}, UNCHANGED actor,
           InboxInv',
           \A s \in Spawns : \A i \in 1 .. Len(mail[s]) :
              /\ mail[s][i] # m
              /\ \A j \in 1 .. Len(inbox') : mail[s][i] # inbox'[j],
           \A j \in 1 .. Len(inbox') : inbox'[j] # m
    PROVE  PlaceInv'
  <1>1. \A u \in Spawns \ {To[m]} : mail'[u] = mail[u]
      BY SendToFacts
  <1>2. CASE mail'[To[m]] = mail[To[m]]
    <2>1. \A u \in Spawns : mail'[u] = mail[u]
        BY <1>1, <1>2
    <2> QED BY <2>1 DEF PlaceInv, MailInv, Apart
  <1>3. CASE mail'[To[m]] = Append(mail[To[m]], m)
    <2> DEFINE q == mail[To[m]]
               r == mail'[To[m]]
    <2>1. /\ Len(q) \in Nat /\ Len(r) = Len(q) + 1
          /\ \A i \in 1 .. Len(q) : r[i] = q[i]
          /\ r[Len(q) + 1] = m
        BY <1>3, AppendFacts DEF TypeOK
    <2>2. /\ \A i, j \in 1 .. Len(q) : q[i] = q[j] => i = j
          /\ \A i \in 1 .. Len(q) : q[i] \in sent /\ To[q[i]] = To[m] /\ q[i] # m
          /\ \A i \in 1 .. Len(q), j \in 1 .. Len(inbox') : q[i] # inbox'[j]
        BY DEF PlaceInv, MailInv
    <2> HIDE DEF q, r
    <2>3. \A i \in 1 .. Len(r) :
              \/ i \in 1 .. Len(q) /\ r[i] = q[i]
              \/ i = Len(q) + 1 /\ r[i] = m
        BY <2>1
    <2>4. /\ \A i, j \in 1 .. Len(r) : r[i] = r[j] => i = j
          /\ \A i \in 1 .. Len(r) : r[i] \in sent' /\ To[r[i]] = To[m]
          /\ \A i \in 1 .. Len(r), j \in 1 .. Len(inbox') : r[i] # inbox'[j]
        BY <2>2, <2>3
    <2>5. ASSUME NEW s \in Spawns
          PROVE  /\ actor'[s] # "none" => s \in sent'
                 /\ \A i, j \in 1 .. Len(mail'[s]) : mail'[s][i] = mail'[s][j] => i = j
                 /\ \A i \in 1 .. Len(mail'[s]) : /\ mail'[s][i] \in sent'
                                                  /\ To[mail'[s][i]] = s
                 /\ \A i \in 1 .. Len(mail'[s]), j \in 1 .. Len(inbox') :
                        mail'[s][i] # inbox'[j]
      <3>1. CASE s = To[m]
          BY <2>4, <3>1 DEF r, PlaceInv, MailInv
      <3>2. CASE s # To[m]
          BY <1>1, <3>2 DEF PlaceInv, MailInv
      <3> QED BY <3>1, <3>2
    <2> QED BY <2>5 DEF PlaceInv, MailInv, Apart
  <1> QED BY <1>2, <1>3, SendToFacts

\* The root takes something out of its mailbox: what stays is in one place.
LEMMA TakePlaces ==
    ASSUME TypeOK, PlaceInv, inbox # <<>>, inbox' \in {<<>>, Tail(inbox)}
    PROVE  /\ \A i, j \in 1 .. Len(inbox') :
                 inbox'[i] = inbox'[j] /\ inbox'[i] # Thunk => i = j
           /\ \A i \in 1 .. Len(inbox') :
                 /\ inbox'[i] # Thunk => inbox'[i] \in sent
                 /\ inbox'[i] \in Spawns => actor[inbox'[i]] = "none"
           /\ Head(inbox) # Thunk =>
                 /\ Head(inbox) \in sent
                 /\ \A i \in 1 .. Len(inbox') : inbox'[i] # Head(inbox)
                 /\ \A s \in Spawns : \A i \in 1 .. Len(mail[s]) : mail[s][i] # Head(inbox)
           /\ \A s \in Spawns : \A i \in 1 .. Len(mail[s]), j \in 1 .. Len(inbox') :
                 mail[s][i] # inbox'[j]
  <1>1. \A i \in 1 .. Len(inbox') : /\ i \in Nat \ {0} /\ i + 1 \in 1 .. Len(inbox)
                                    /\ inbox'[i] = inbox[i + 1]
      BY ShrinkFacts
  <1>2. 1 \in 1 .. Len(inbox) /\ Head(inbox) = inbox[1]
      BY TailFacts DEF TypeOK
  <1>3. ASSUME NEW i \in 1 .. Len(inbox'), NEW j \in 1 .. Len(inbox'),
               inbox'[i] = inbox'[j], inbox'[i] # Thunk
        PROVE  i = j
    <2>1. i + 1 = j + 1
        BY <1>1, <1>3 DEF PlaceInv, InboxInv
    <2> QED BY <1>1, <2>1
  <1>4. ASSUME NEW i \in 1 .. Len(inbox')
        PROVE  /\ inbox'[i] # Thunk => inbox'[i] \in sent
               /\ inbox'[i] \in Spawns => actor[inbox'[i]] = "none"
      BY <1>1 DEF PlaceInv, InboxInv
  <1>5. ASSUME Head(inbox) # Thunk, NEW i \in 1 .. Len(inbox') PROVE inbox'[i] # Head(inbox)
    <2>1. i + 1 # 1
        BY <1>1
    <2> QED BY <1>1, <1>2, <1>5, <2>1 DEF PlaceInv, InboxInv
  <1>6. Head(inbox) # Thunk =>
          /\ Head(inbox) \in sent
          /\ \A s \in Spawns : \A i \in 1 .. Len(mail[s]) : mail[s][i] # Head(inbox)
      BY <1>2 DEF PlaceInv, InboxInv, Apart
  <1>7. ASSUME NEW s \in Spawns, NEW i \in 1 .. Len(mail[s]), NEW j \in 1 .. Len(inbox')
        PROVE  mail[s][i] # inbox'[j]
      BY <1>1 DEF PlaceInv, Apart
  <1> QED BY <1>3, <1>4, <1>5, <1>6, <1>7

\* A delivery on the public CURL goes to the end of the root's mailbox.
LEMMA RotatePlaces ==
    ASSUME TypeOK, PlaceInv, inbox # <<>>, inbox' = Append(Tail(inbox), Head(inbox)),
           UNCHANGED <<sent, mail, actor>>
    PROVE  PlaceInv'
  <1>0. Len(inbox) \in Nat \ {0} /\ Len(inbox') = Len(inbox)
      BY RotateFacts, Zenon
  <1>1. \A i \in 1 .. Len(inbox') : \E k \in 1 .. Len(inbox) :
            /\ inbox'[i] = inbox[k]
            /\ (i < Len(inbox) /\ k = i + 1) \/ (i = Len(inbox) /\ k = 1)
      BY RotateFacts, Zenon
  <1>2. \A i \in 1 .. Len(inbox') : \E k \in 1 .. Len(inbox) : inbox'[i] = inbox[k]
      BY <1>1
  <1>3. ASSUME NEW i \in 1 .. Len(inbox'), NEW j \in 1 .. Len(inbox'),
               inbox'[i] = inbox'[j], inbox'[i] # Thunk
        PROVE  i = j
    <2>1. PICK k \in 1 .. Len(inbox) :
            /\ inbox'[i] = inbox[k]
            /\ (i < Len(inbox) /\ k = i + 1) \/ (i = Len(inbox) /\ k = 1)
        BY <1>1
    <2>2. PICK l \in 1 .. Len(inbox) :
            /\ inbox'[j] = inbox[l]
            /\ (j < Len(inbox) /\ l = j + 1) \/ (j = Len(inbox) /\ l = 1)
        BY <1>1
    <2>3. k = l
        BY <1>3, <2>1, <2>2 DEF PlaceInv, InboxInv
    <2>4. i \in Nat \ {0} /\ j \in Nat \ {0} /\ Len(inbox) \in Nat
        BY <1>0
    <2> QED BY <2>1, <2>2, <2>3, <2>4
  <1>4. ASSUME NEW i \in 1 .. Len(inbox')
        PROVE  /\ inbox'[i] # Thunk => inbox'[i] \in sent'
               /\ inbox'[i] \in Spawns => actor'[inbox'[i]] = "none"
    <2>1. PICK k \in 1 .. Len(inbox) : inbox'[i] = inbox[k]
        BY <1>2
    <2> QED BY <2>1 DEF PlaceInv, InboxInv
  <1>5. MailInv'
      BY DEF PlaceInv, MailInv
  <1>6. ASSUME NEW s \in Spawns, NEW i \in 1 .. Len(mail[s]), NEW j \in 1 .. Len(inbox')
        PROVE  mail[s][i] # inbox'[j]
    <2>1. PICK k \in 1 .. Len(inbox) : inbox'[j] = inbox[k]
        BY <1>2
    <2> QED BY <2>1 DEF PlaceInv, Apart
  <1>7. Apart'
      BY <1>6 DEF Apart
  <1>8. InboxInv'
      BY <1>3, <1>4 DEF InboxInv
  <1> QED BY <1>5, <1>7, <1>8 DEF PlaceInv

LEMMA StepPlace == Inv /\ [Next]_vars => PlaceInv'
  <1> SUFFICES ASSUME Inv, [Next]_vars PROVE PlaceInv'
      OBVIOUS
  <1>0. TypeOK /\ PlaceInv
      BY DEF Inv
  <1>1. CASE MakeRoot \/ Listen \/ Ready
      BY <1>0, <1>1 DEF MakeRoot, Listen, Ready, PlaceInv, InboxInv, MailInv, Apart, actors
  <1>2. CASE Jumpstart
    <2>1. CASE inbox' = inbox
        BY <1>0, <1>2, <2>1 DEF Jumpstart, PlaceInv, InboxInv, MailInv, Apart, actors
    <2>2. CASE inbox' = Append(inbox, Thunk)
      <3>1. /\ Len(inbox) \in Nat /\ Len(inbox') = Len(inbox) + 1
            /\ \A i \in 1 .. Len(inbox) : inbox'[i] = inbox[i]
            /\ inbox'[Len(inbox) + 1] = Thunk
          BY <1>0, <2>2, AppendFacts DEF TypeOK
      <3>2. \A s \in Spawns : \A i \in 1 .. Len(mail[s]) : mail[s][i] # Thunk
          BY <1>0, RootAssumption DEF PlaceInv, MailInv, TypeOK
      <3>3. InboxInv'
          BY <1>0, <1>2, <3>1, RootAssumption DEF Jumpstart, PlaceInv, InboxInv, actors
      <3>4. MailInv'
          BY <1>0, <1>2 DEF Jumpstart, PlaceInv, MailInv, actors
      <3>5. Apart'
          BY <1>0, <1>2, <3>1, <3>2 DEF Jumpstart, PlaceInv, Apart, actors
      <3> QED BY <3>3, <3>4, <3>5 DEF PlaceInv
    <2> QED BY <1>2, <2>1, <2>2 DEF Jumpstart, Post
  <1>4. CASE Begin
    <2>1. UNCHANGED <<sent, mail, actor>> /\ inbox' \in {<<>>, Tail(inbox)} /\ inbox # <<>>
        BY <1>4 DEF Begin, actors
    <2>2. InboxInv' /\ Apart'
        BY <1>0, <2>1, TakePlaces DEF InboxInv, Apart
    <2>3. MailInv'
        BY <1>0, <2>1 DEF PlaceInv, MailInv
    <2> QED BY <2>2, <2>3 DEF PlaceInv
  <1>5. ASSUME NEW s \in Spawns, RequestSpawn(s) PROVE PlaceInv'
      BY <1>0, <1>5, PostPlaces DEF RequestSpawn, actors
  <1>6. ASSUME NEW s \in Spawns, End(s) \/ Spoil(s) PROVE PlaceInv'
    <2>1. UNCHANGED <<sent, mail, inbox>>
          /\ \A u \in Spawns : actor'[u] = "none" <=> actor[u] = "none"
        BY <1>0, <1>6 DEF End, Spoil, TypeOK
    <2> QED BY <1>0, <2>1 DEF PlaceInv, InboxInv, MailInv, Apart
  <1>7. ASSUME NEW m \in Spawns \cup Messages, Arrive(m) PROVE PlaceInv'
      BY <1>0, <1>7, PostPlaces DEF Arrive, actors
  <1>8. ASSUME NEW m \in Spawns \cup Messages, Spawn(m) \/ SpawnFails(m) PROVE PlaceInv'
    <2>1. /\ UNCHANGED <<sent, mail>> /\ inbox' \in {<<>>, Tail(inbox)} /\ inbox # <<>>
          /\ m \in Spawns /\ m = Head(inbox)
        BY <1>8, RootAssumption DEF Spawn, SpawnFails, Takes
    <2>2. \A u \in Spawns \ {m} : actor'[u] = actor[u]
        BY <1>0, <1>8 DEF Spawn, SpawnFails, TypeOK
    <2>3. m # Thunk /\ m \in sent /\ \A i \in 1 .. Len(inbox') : inbox'[i] # m
        BY <1>0, <2>1, TakePlaces, RootAssumption
    <2>4. InboxInv' /\ Apart'
        BY <1>0, <2>1, <2>2, <2>3, TakePlaces DEF InboxInv, Apart
    <2>5. MailInv'
        BY <1>0, <2>1, <2>2, <2>3 DEF PlaceInv, MailInv
    <2> QED BY <2>4, <2>5 DEF PlaceInv
  <1>9. ASSUME NEW m \in Spawns \cup Messages, Forward(m) PROVE PlaceInv'
    <2>1. /\ UNCHANGED <<sent, actor>> /\ inbox' = Tail(inbox) /\ inbox # <<>>
          /\ m \in Messages /\ To[m] \in Spawns /\ m = Head(inbox) /\ SendTo(To[m], m)
        BY <1>9, RootAssumption DEF Forward, Takes
    <2>2. m # Thunk
        BY <2>1, RootAssumption
    <2>3. /\ sent' = sent \cup {m}
          /\ \A i \in 1 .. Len(inbox') : inbox'[i] # m
          /\ \A s \in Spawns : \A i \in 1 .. Len(mail[s]) :
                /\ mail[s][i] # m
                /\ \A j \in 1 .. Len(inbox') : mail[s][i] # inbox'[j]
        BY <1>0, <2>1, <2>2, TakePlaces
    <2>4. InboxInv'
        BY <1>0, <2>1, TakePlaces DEF InboxInv
    <2> QED BY <1>0, <2>1, <2>3, <2>4, MailPlaces
  <1>10. ASSUME NEW m \in Spawns \cup Messages, ForwardPublic(m) PROVE PlaceInv'
      BY <1>0, <1>10, RotatePlaces DEF ForwardPublic, Takes, actors
  <1>11. ASSUME NEW m \in Spawns \cup Messages, NEW a \in Spawns, Send(a, m) PROVE PlaceInv'
    <2>0. m \notin sent /\ sent' = sent \cup {m} /\ UNCHANGED actor
        BY <1>11 DEF Send
    <2>1. CASE m \in Spawns \/ To[m] = Public
        BY <1>0, <1>11, <2>0, <2>1, PostPlaces DEF Send
    <2>2. CASE m \notin Spawns /\ To[m] # Public
      <3>1. m \in Messages /\ To[m] \in Spawns /\ SendTo(To[m], m) /\ inbox' = inbox
          BY <1>11, <2>2, RootAssumption DEF Send
      <3>2. InboxInv' /\ \A j \in 1 .. Len(inbox') : inbox'[j] # m
          BY <1>0, <2>0, <3>1, RootAssumption DEF PlaceInv, InboxInv
      <3>3. \A s \in Spawns : \A i \in 1 .. Len(mail[s]) :
                /\ mail[s][i] # m
                /\ \A j \in 1 .. Len(inbox') : mail[s][i] # inbox'[j]
          BY <1>0, <2>0, <3>1 DEF PlaceInv, MailInv, Apart
      <3> QED BY <1>0, <2>0, <3>1, <3>2, <3>3, MailPlaces
    <2> QED BY <2>1, <2>2
  <1>12. CASE UNCHANGED vars
      BY <1>0, <1>12 DEF vars, PlaceInv, InboxInv, MailInv, Apart
  <1> QED BY <1>1, <1>2, <1>4, <1>5, <1>6, <1>7, <1>8, <1>9, <1>10, <1>11, <1>12
          DEF Next, Handle

-----------------------------------------------------------------------------
(* The order of deliveries.                                                 *)

\* What arrives does not change the order of what has arrived.
LEMMA LaterArrivals ==
    ASSUME TypeOK, NEW x \in Remote, arrived' = Append(arrived, x)
    PROVE  /\ \A m, n : Before(m, n) => Before(m, n)'
           /\ \A m : Arrived(m) => Arrived(m)' /\ Before(m, x)'
           /\ Arrived(x)'
  <1>1. /\ Len(arrived) \in Nat /\ Len(arrived') = Len(arrived) + 1
        /\ \A i \in 1 .. Len(arrived) : arrived'[i] = arrived[i]
        /\ arrived'[Len(arrived) + 1] = x
      BY AppendFacts DEF TypeOK
  <1>2. ASSUME NEW m, NEW n, Before(m, n) PROVE Before(m, n)'
      BY <1>1, <1>2 DEF Before
  <1>3. ASSUME NEW m, Arrived(m) PROVE Arrived(m)' /\ Before(m, x)'
    <2>1. PICK k \in 1 .. Len(arrived) : arrived[k] = m
        BY <1>3 DEF Arrived
    <2>2. /\ k \in 1 .. Len(arrived') /\ Len(arrived) + 1 \in 1 .. Len(arrived')
          /\ k < Len(arrived) + 1 /\ arrived'[k] = m
        BY <1>1, <2>1
    <2> QED BY <1>1, <2>2 DEF Arrived, Before
  <1>4. Arrived(x)'
      BY <1>1 DEF Arrived
  <1> QED BY <1>2, <1>3, <1>4

\* The deliveries move up in the root's mailbox, all by d places.
LEMMA ShiftOrder ==
    ASSUME OrderInv, UNCHANGED <<mail, arrived>>, NEW d \in {0, 1},
           \A i \in 1 .. Len(inbox') : inbox'[i] \in Ordered =>
              /\ i \in Int /\ i + d \in 1 .. Len(inbox) /\ inbox'[i] = inbox[i + d]
    PROVE  OrderInv'
  <1>3. InOrder'
      BY DEF OrderInv, InOrder, Before
  <1>4. \A i \in 1 .. Len(inbox') : inbox'[i] \in Ordered => Arrived(inbox[i])'
      BY DEF OrderInv, Arrived
  <1>5. \A i, j \in 1 .. Len(inbox') : i < j /\ {inbox'[i], inbox'[j]} \subseteq Ordered =>
            Before(inbox[i], inbox[j])'
    <2> SUFFICES ASSUME NEW i \in 1 .. Len(inbox'), NEW j \in 1 .. Len(inbox'), i < j,
                        {inbox'[i], inbox'[j]} \subseteq Ordered
                 PROVE  Before(inbox[i], inbox[j])'
        OBVIOUS
    <2>1. i + d < j + d
        OBVIOUS
    <2>2. Before(inbox[i + d], inbox[j + d])
        BY <2>1 DEF OrderInv
    <2> QED BY <2>2 DEF Before
  <1>6. \A s \in Spawns : \A i \in 1 .. Len(mail'[s]) :
            mail'[s][i] \in Remote => Arrived(mail[s][i])'
      BY DEF OrderInv, Arrived
  <1>7. \A s \in Spawns : \A i \in 1 .. Len(mail'[s]), j \in 1 .. Len(inbox') :
            mail'[s][i] \in Remote /\ inbox'[j] \in Ordered /\ To[inbox'[j]] = s
                => Before(mail[s][i], inbox[j])'
    <2> SUFFICES ASSUME NEW s \in Spawns, NEW i \in 1 .. Len(mail'[s]),
                        NEW j \in 1 .. Len(inbox'), mail'[s][i] \in Remote,
                        inbox'[j] \in Ordered, To[inbox'[j]] = s
                 PROVE  Before(mail[s][i], inbox[j])'
        OBVIOUS
    <2>1. Before(mail[s][i], inbox[j + d])
        BY DEF OrderInv
    <2> QED BY <2>1 DEF Before
  <1> QED BY <1>3, <1>4, <1>5, <1>6, <1>7 DEF OrderInv

\* Something that is no delivery of another island is posted to the root.
LEMMA PostOrder ==
    ASSUME TypeOK, OrderInv, NEW m \in Queued \ Ordered, Post(m), UNCHANGED <<mail, arrived>>
    PROVE  OrderInv'
  <1>1. \A i \in 1 .. Len(inbox') :
            inbox'[i] # m => i \in 1 .. Len(inbox) /\ inbox'[i] = inbox[i]
    <2>1. CASE inbox' = inbox
        BY <2>1
    <2>2. CASE inbox' = Append(inbox, m)
        BY <2>2, AppendFacts DEF TypeOK, Queued
    <2> QED BY <2>1, <2>2, PostFacts
  <1>2. \A i \in 1 .. Len(inbox') : inbox'[i] \in Ordered =>
            /\ i \in Int /\ i + 0 \in 1 .. Len(inbox) /\ inbox'[i] = inbox[i + 0]
      BY <1>1
  <1> QED BY <1>2, ShiftOrder

\* The root takes something out of its mailbox that no actor receives.
LEMMA TakeOrder ==
    ASSUME TypeOK, OrderInv, inbox # <<>>, inbox' \in {<<>>, Tail(inbox)},
           UNCHANGED <<mail, arrived>>
    PROVE  OrderInv'
  BY ShrinkFacts, ShiftOrder

\* The places in the mailbox of the actor that receives m.
LEMMA MailGrows ==
    ASSUME TypeOK, NEW m \in Messages, To[m] \in Spawns,
           mail' = [mail EXCEPT ![To[m]] = Append(@, m)]
    PROVE  \A s \in Spawns : \A i \in 1 .. Len(mail'[s]) :
              \/ i \in 1 .. Len(mail[s]) /\ mail'[s][i] = mail[s][i]
              \/ s = To[m] /\ i = Len(mail[s]) + 1 /\ Len(mail[s]) \in Nat /\ mail'[s][i] = m
  <1> SUFFICES ASSUME NEW s \in Spawns, NEW i \in 1 .. Len(mail'[s])
               PROVE  \/ i \in 1 .. Len(mail[s]) /\ mail'[s][i] = mail[s][i]
                      \/ /\ s = To[m] /\ i = Len(mail[s]) + 1
                         /\ Len(mail[s]) \in Nat /\ mail'[s][i] = m
      OBVIOUS
  <1>1. CASE s = To[m]
    <2>1. mail[s] \in Seq(Messages) /\ mail'[s] = Append(mail[s], m)
        BY <1>1 DEF TypeOK
    <2>2. /\ Len(mail[s]) \in Nat /\ Len(mail'[s]) = Len(mail[s]) + 1
          /\ \A k \in 1 .. Len(mail[s]) : mail'[s][k] = mail[s][k]
          /\ mail'[s][Len(mail[s]) + 1] = m
        BY <2>1, AppendFacts
    <2> QED BY <1>1, <2>2
  <1>2. CASE s # To[m]
      BY <1>2 DEF TypeOK
  <1> QED BY <1>1, <1>2

\* A message of this island reaches an actor.
LEMMA LocalOrder ==
    ASSUME TypeOK, OrderInv, NEW m \in Messages \ Remote, To[m] \in Spawns,
           mail' = [mail EXCEPT ![To[m]] = Append(@, m)], UNCHANGED <<inbox, arrived>>
    PROVE  OrderInv'
  <1>1. \A s \in Spawns : \A i \in 1 .. Len(mail'[s]) : mail'[s][i] \in Remote =>
            i \in 1 .. Len(mail[s]) /\ mail'[s][i] = mail[s][i]
      BY MailGrows
  <1>2. InOrder'
    <2> SUFFICES ASSUME NEW s \in Spawns, NEW i \in 1 .. Len(mail'[s]),
                        NEW j \in 1 .. Len(mail'[s]), i < j,
                        {mail'[s][i], mail'[s][j]} \subseteq Remote
                 PROVE  Before(mail[s][i], mail[s][j])'
        BY DEF InOrder
    <2>1. Before(mail[s][i], mail[s][j])
        BY <1>1 DEF OrderInv, InOrder
    <2> QED BY <1>1, <2>1 DEF Before
  <1>3. ASSUME NEW s \in Spawns, NEW i \in 1 .. Len(mail'[s]), mail'[s][i] \in Remote
        PROVE  /\ Arrived(mail[s][i])'
               /\ \A j \in 1 .. Len(inbox') : inbox'[j] \in Ordered /\ To[inbox'[j]] = s
                      => Before(mail[s][i], inbox[j])'
    <2>1. /\ Arrived(mail[s][i])
          /\ \A j \in 1 .. Len(inbox) : inbox[j] \in Ordered /\ To[inbox[j]] = s
                 => Before(mail[s][i], inbox[j])
        BY <1>1, <1>3 DEF OrderInv
    <2> QED BY <1>1, <1>3, <2>1 DEF Before, Arrived
  <1>4. /\ \A i \in 1 .. Len(inbox') : inbox'[i] \in Ordered => Arrived(inbox[i])'
        /\ \A i, j \in 1 .. Len(inbox') :
              i < j /\ {inbox'[i], inbox'[j]} \subseteq Ordered => Before(inbox[i], inbox[j])'
      BY DEF OrderInv, Before, Arrived
  <1> QED BY <1>2, <1>3, <1>4 DEF OrderInv

\* The root forwards the delivery at the head of its mailbox.
LEMMA ForwardOrder ==
    ASSUME TypeOK, OrderInv, NEW m \in Messages, To[m] \in Spawns, To[m] # Public,
           inbox # <<>>, m = Head(inbox), inbox' = Tail(inbox),
           mail' = [mail EXCEPT ![To[m]] = Append(@, m)], UNCHANGED arrived
    PROVE  OrderInv'
  <1>1. \A i \in 1 .. Len(inbox') : /\ i \in Nat \ {0} /\ i + 1 \in 1 .. Len(inbox)
                                    /\ inbox'[i] = inbox[i + 1]
      BY ShrinkFacts
  <1>2. 1 \in 1 .. Len(inbox) /\ m = inbox[1] /\ (m \in Remote => m \in Ordered)
      BY TailFacts DEF TypeOK, Ordered
  <1>3. \A s \in Spawns : \A i \in 1 .. Len(mail'[s]) :
            \/ i \in 1 .. Len(mail[s]) /\ mail'[s][i] = mail[s][i]
            \/ s = To[m] /\ i = Len(mail[s]) + 1 /\ Len(mail[s]) \in Nat /\ mail'[s][i] = m
      BY MailGrows
  <1>4. InOrder'
    <2> SUFFICES ASSUME NEW s \in Spawns, NEW i \in 1 .. Len(mail'[s]),
                        NEW j \in 1 .. Len(mail'[s]), i < j,
                        {mail'[s][i], mail'[s][j]} \subseteq Remote
                 PROVE  Before(mail[s][i], mail[s][j])'
        BY DEF InOrder
    <2>1. CASE j \in 1 .. Len(mail[s]) /\ mail'[s][j] = mail[s][j]
      <3>1. i \in 1 .. Len(mail[s]) /\ mail'[s][i] = mail[s][i]
          BY <1>3, <2>1
      <3>2. Before(mail[s][i], mail[s][j])
          BY <2>1, <3>1 DEF OrderInv, InOrder
      <3> QED BY <2>1, <3>1, <3>2 DEF Before
    <2>2. CASE s = To[m] /\ j = Len(mail[s]) + 1 /\ mail'[s][j] = m
      <3>1. i \in 1 .. Len(mail[s]) /\ mail'[s][i] = mail[s][i]
          BY <1>3, <2>2
      <3>2. Before(mail[s][i], inbox[1])
          BY <1>2, <2>2, <3>1 DEF OrderInv
      <3> QED BY <1>2, <2>2, <3>1, <3>2 DEF Before
    <2> QED BY <1>3, <2>1, <2>2
  <1>5. ASSUME NEW i \in 1 .. Len(inbox'), inbox'[i] \in Ordered PROVE Arrived(inbox[i])'
    <2>1. Arrived(inbox[i + 1])
        BY <1>1, <1>5 DEF OrderInv
    <2> QED BY <1>1, <2>1 DEF Arrived
  <1>6. ASSUME NEW i \in 1 .. Len(inbox'), NEW j \in 1 .. Len(inbox'), i < j,
               {inbox'[i], inbox'[j]} \subseteq Ordered
        PROVE  Before(inbox[i], inbox[j])'
    <2>1. Before(inbox[i + 1], inbox[j + 1])
        BY <1>1, <1>6 DEF OrderInv
    <2> QED BY <1>1, <2>1 DEF Before
  <1>7. ASSUME NEW s \in Spawns, NEW i \in 1 .. Len(mail'[s]), mail'[s][i] \in Remote
        PROVE  Arrived(mail[s][i])'
    <2>1. CASE i \in 1 .. Len(mail[s]) /\ mail'[s][i] = mail[s][i]
      <3>1. Arrived(mail[s][i])
          BY <1>7, <2>1 DEF OrderInv
      <3> QED BY <2>1, <3>1 DEF Arrived
    <2>2. CASE mail'[s][i] = m
      <3>1. Arrived(inbox[1])
          BY <1>2, <1>7, <2>2 DEF OrderInv
      <3> QED BY <1>2, <2>2, <3>1 DEF Arrived
    <2> QED BY <1>3, <2>1, <2>2
  <1>8. ASSUME NEW s \in Spawns, NEW i \in 1 .. Len(mail'[s]), NEW j \in 1 .. Len(inbox'),
               mail'[s][i] \in Remote, inbox'[j] \in Ordered, To[inbox'[j]] = s
        PROVE  Before(mail[s][i], inbox[j])'
    <2>1. CASE i \in 1 .. Len(mail[s]) /\ mail'[s][i] = mail[s][i]
      <3>1. Before(mail[s][i], inbox[j + 1])
          BY <1>1, <1>8, <2>1 DEF OrderInv
      <3> QED BY <1>1, <2>1, <3>1 DEF Before
    <2>2. CASE mail'[s][i] = m
      <3>1. 1 < j + 1
          BY <1>1
      <3>2. Before(inbox[1], inbox[j + 1])
          BY <1>1, <1>2, <1>8, <2>2, <3>1 DEF OrderInv
      <3> QED BY <1>1, <1>2, <2>2, <3>2 DEF Before
    <2> QED BY <1>3, <2>1, <2>2
  <1> QED BY <1>4, <1>5, <1>6, <1>7, <1>8 DEF OrderInv

LEMMA StepOrder == Inv /\ [Next]_vars => OrderInv'
  <1> SUFFICES ASSUME Inv, [Next]_vars PROVE OrderInv'
      OBVIOUS
  <1>0. TypeOK /\ OrderInv
      BY DEF Inv
  <1>1. CASE UNCHANGED <<inbox, mail, arrived>>
      BY <1>0, <1>1 DEF OrderInv, InOrder, Before, Arrived
  <1>2. CASE Jumpstart
      BY <1>0, <1>2, PostOrder, RootAssumption DEF Jumpstart, Queued, Ordered, actors
  <1>3. CASE Begin
      BY <1>0, <1>3, TakeOrder DEF Begin, actors
  <1>4. ASSUME NEW s \in Spawns, RequestSpawn(s) PROVE OrderInv'
      BY <1>0, <1>4, PostOrder, RootAssumption DEF RequestSpawn, Queued, Ordered, actors
  <1>5. ASSUME NEW m \in Spawns \cup Messages, Arrive(m) PROVE OrderInv'
    <2>1. m \in Remote /\ UNCHANGED mail
        BY <1>5 DEF Arrive, actors
    <2>2. CASE root = "dead"
        BY <1>0, <1>1, <1>5, <2>1, <2>2 DEF Arrive, Post
    <2>3. CASE root # "dead"
      <3>1. inbox' = Append(inbox, m) /\ arrived' = Append(arrived, m)
          BY <1>5, <2>3 DEF Arrive, Post
      <3>2. \A i \in 1 .. Len(inbox') :
                \/ i \in 1 .. Len(inbox) /\ inbox'[i] = inbox[i]
                \/ i = Len(inbox) + 1 /\ inbox'[i] = m
          BY <1>0, <3>1, AppendFacts DEF TypeOK
      <3>3. Len(inbox) \in Nat
          BY <1>0 DEF TypeOK
      <3>4. /\ \A x, y : Before(x, y) => Before(x, y)'
            /\ \A x : Arrived(x) => Arrived(x)' /\ Before(x, m)'
            /\ Arrived(m)'
          BY <1>0, <2>1, <3>1, LaterArrivals
      <3>5. InOrder'
        <4> SUFFICES ASSUME NEW s \in Spawns, NEW i \in 1 .. Len(mail'[s]),
                            NEW j \in 1 .. Len(mail'[s]), i < j,
                            {mail'[s][i], mail'[s][j]} \subseteq Remote
                     PROVE  Before(mail[s][i], mail[s][j])'
            BY DEF InOrder
        <4>1. Before(mail[s][i], mail[s][j])
            BY <1>0, <2>1 DEF OrderInv, InOrder
        <4> QED BY <2>1, <3>4, <4>1
      <3>6. ASSUME NEW i \in 1 .. Len(inbox'), inbox'[i] \in Ordered
            PROVE  Arrived(inbox[i])'
        <4>1. CASE inbox'[i] = m
            BY <3>4, <4>1 DEF Arrived
        <4>2. CASE i \in 1 .. Len(inbox) /\ inbox'[i] = inbox[i]
          <5>1. Arrived(inbox[i])
              BY <1>0, <3>6, <4>2 DEF OrderInv
          <5> QED BY <3>4, <4>2, <5>1
        <4> QED BY <3>2, <4>1, <4>2
      <3>7. ASSUME NEW i \in 1 .. Len(inbox'), NEW j \in 1 .. Len(inbox'), i < j,
                   {inbox'[i], inbox'[j]} \subseteq Ordered
            PROVE  Before(inbox[i], inbox[j])'
        <4>1. i \in 1 .. Len(inbox) /\ inbox'[i] = inbox[i]
            BY <3>2, <3>3, <3>7
        <4>2. CASE inbox'[j] = m
          <5>1. Arrived(inbox[i])
              BY <1>0, <3>7, <4>1 DEF OrderInv
          <5>2. Before(inbox[i], m)'
              BY <3>4, <4>1, <5>1
          <5> QED BY <4>2, <5>2 DEF Before
        <4>3. CASE j \in 1 .. Len(inbox) /\ inbox'[j] = inbox[j]
          <5>1. Before(inbox[i], inbox[j])
              BY <1>0, <3>7, <4>1, <4>3 DEF OrderInv
          <5> QED BY <3>4, <4>1, <4>3, <5>1
        <4> QED BY <3>2, <4>2, <4>3
      <3>8. ASSUME NEW s \in Spawns, NEW i \in 1 .. Len(mail'[s]), mail'[s][i] \in Remote
            PROVE  Arrived(mail[s][i])'
        <4>1. Arrived(mail[s][i])
            BY <1>0, <2>1, <3>8 DEF OrderInv
        <4> QED BY <2>1, <3>4, <4>1
      <3>9. ASSUME NEW s \in Spawns, NEW i \in 1 .. Len(mail'[s]), NEW j \in 1 .. Len(inbox'),
                   mail'[s][i] \in Remote, inbox'[j] \in Ordered, To[inbox'[j]] = s
            PROVE  Before(mail[s][i], inbox[j])'
        <4>1. CASE inbox'[j] = m
          <5>1. Arrived(mail[s][i])
              BY <1>0, <2>1, <3>9 DEF OrderInv
          <5>2. Before(mail[s][i], m)'
              BY <2>1, <3>4, <5>1
          <5> QED BY <4>1, <5>2 DEF Before
        <4>2. CASE j \in 1 .. Len(inbox) /\ inbox'[j] = inbox[j]
          <5>1. Before(mail[s][i], inbox[j])
              BY <1>0, <2>1, <3>9, <4>2 DEF OrderInv
          <5> QED BY <2>1, <3>4, <4>2, <5>1
        <4> QED BY <3>2, <4>1, <4>2
      <3> QED BY <3>5, <3>6, <3>7, <3>8, <3>9 DEF OrderInv
    <2> QED BY <2>2, <2>3
  <1>6. ASSUME NEW m \in Spawns \cup Messages, Spawn(m) \/ SpawnFails(m) PROVE OrderInv'
      BY <1>0, <1>6, TakeOrder DEF Spawn, SpawnFails, Takes
  <1>7. ASSUME NEW m \in Spawns \cup Messages, Forward(m) PROVE OrderInv'
    <2>1. /\ UNCHANGED arrived /\ inbox # <<>> /\ inbox' = Tail(inbox) /\ m = Head(inbox)
          /\ m \in Messages /\ To[m] \in Spawns /\ To[m] # Public /\ SendTo(To[m], m)
        BY <1>7, RootAssumption DEF Forward, Takes
    <2>2. CASE mail' = mail
        BY <1>0, <2>1, <2>2, TakeOrder, Zenon
    <2>3. CASE mail' = [mail EXCEPT ![To[m]] = Append(@, m)]
        BY <1>0, <2>1, <2>3, ForwardOrder
    <2> QED BY <2>1, <2>2, <2>3 DEF SendTo
  <1>8. ASSUME NEW m \in Spawns \cup Messages, ForwardPublic(m) PROVE OrderInv'
    <2>1. UNCHANGED <<mail, arrived>> /\ inbox # <<>> /\ m = Head(inbox)
          /\ inbox' = Append(Tail(inbox), Head(inbox)) /\ m \notin Ordered
        BY <1>8 DEF ForwardPublic, Takes, Ordered, actors
    <2>2. /\ Len(inbox) \in Nat \ {0} /\ Len(inbox') = Len(inbox) /\ m = inbox[1]
          /\ \A i \in 1 .. Len(inbox') : \E k \in 1 .. Len(inbox) :
                /\ inbox'[i] = inbox[k]
                /\ (i < Len(inbox) /\ k = i + 1) \/ (i = Len(inbox) /\ k = 1)
        BY <1>0, <2>1, RotateFacts, Zenon
    <2>3. ASSUME NEW i \in 1 .. Len(inbox'), inbox'[i] \in Ordered
          PROVE  i \in Int /\ i + 1 \in 1 .. Len(inbox) /\ inbox'[i] = inbox[i + 1]
      <3>1. PICK k \in 1 .. Len(inbox) :
              /\ inbox'[i] = inbox[k]
              /\ (i < Len(inbox) /\ k = i + 1) \/ (i = Len(inbox) /\ k = 1)
          BY <2>2
      <3>2. k # 1
        <4>1. inbox[k] # inbox[1]
            BY <2>1, <2>2, <2>3, <3>1, Zenon
        <4> QED BY <4>1
      <3> QED BY <3>1, <3>2
    <2> QED BY <1>0, <2>1, <2>3, ShiftOrder
  <1>9. ASSUME NEW m \in Spawns \cup Messages, NEW a \in Spawns, Send(a, m) PROVE OrderInv'
    <2>1. CASE m \in Spawns \/ To[m] = Public
        BY <1>0, <1>9, <2>1, PostOrder, RootAssumption DEF Send, Queued, Ordered
    <2>2. CASE m \notin Spawns /\ To[m] # Public
      <3>1. /\ UNCHANGED <<inbox, arrived>> /\ m \in Messages \ Remote
            /\ To[m] \in Spawns /\ SendTo(To[m], m)
          BY <1>9, <2>2, RootAssumption DEF Send
      <3>2. CASE mail' = mail
          BY <1>1, <3>1, <3>2
      <3>3. CASE mail' = [mail EXCEPT ![To[m]] = Append(@, m)]
          BY <1>0, <3>1, <3>3, LocalOrder
      <3> QED BY <3>1, <3>2, <3>3 DEF SendTo
    <2> QED BY <2>1, <2>2
  <1> QED BY <1>1, <1>2, <1>3, <1>4, <1>5, <1>6, <1>7, <1>8, <1>9
          DEF Next, Handle, MakeRoot, Listen, Ready, End, Spoil, actors, vars

-----------------------------------------------------------------------------
LEMMA InvHolds == Spec => []Inv
  <1>1. Inv /\ [Next]_vars => Inv'
      BY StepType, StepPlace, StepOrder DEF Inv
  <1> QED BY <1>1, InitInv, PTL DEF Spec

\* A set of places of which any two are the same has one at most.
LEMMA OneAtMost ==
    ASSUME NEW S, \A x, y \in S : x = y
    PROVE  Cardinality(S) \in {0, 1} /\ (S = {} => Cardinality(S) = 0)
  <1>1. CASE S = {}
      BY <1>1, FS_EmptySet
  <1>2. CASE S # {}
    <2>1. PICK x \in S : TRUE
        BY <1>2
    <2>2. S = {x}
        BY <2>1
    <2> QED BY <1>2, <2>2, FS_Singleton
  <1> QED BY <1>1, <1>2

LEMMA PlacesOne == TypeOK /\ PlaceInv => HandledOnce
  <1> SUFFICES ASSUME TypeOK, PlaceInv, NEW m \in Spawns \cup Messages
               PROVE  Places(m) <= 1
      BY DEF HandledOnce
  <1> DEFINE I == Occurs(m, inbox)
             M == Occurs(m, mail[To[m]])
  <1>1. /\ Cardinality(I) \in {0, 1} /\ (I = {} => Cardinality(I) = 0)
    <2>1. \A i, j \in I : i = j
        BY RootAssumption DEF Occurs, PlaceInv, InboxInv
    <2> QED BY <2>1, OneAtMost
  <1>2. CASE m \in Spawns
    <2>1. actor[m] # "none" => I = {}
        BY <1>2 DEF Occurs, PlaceInv, InboxInv
    <2> QED BY <1>1, <1>2, <2>1 DEF Places
  <1>3. CASE m \notin Spawns /\ To[m] # Public
    <2>1. To[m] \in Spawns
        BY <1>3, RootAssumption
    <2>2. \A i, j \in M : i = j
        BY <2>1 DEF Occurs, PlaceInv, MailInv
    <2>3. Cardinality(M) \in {0, 1} /\ (M = {} => Cardinality(M) = 0)
        BY <2>2, OneAtMost
    <2>4. I = {} \/ M = {}
        BY <2>1 DEF Occurs, PlaceInv, Apart
    <2> QED BY <1>1, <1>3, <2>3, <2>4 DEF Places
  <1>4. CASE m \notin Spawns /\ To[m] = Public
      BY <1>1, <1>4 DEF Places
  <1> QED BY <1>2, <1>3, <1>4

\* The island's state has its type in every behaviour.
THEOREM RootTypeCorrect == Spec => []TypeOK
  BY InvHolds, PTL DEF Inv

\* A request starts one actor and a message is received once at most, however
\* many requests, deliveries and deliveries that go round there are.
THEOREM HandledOnceHolds == Spec => []HandledOnce
  BY InvHolds, PlacesOne, PTL DEF Inv

\* Every actor receives the deliveries of other islands in the order in which
\* the input threads gave them to the root.
THEOREM InOrderHolds == Spec => []InOrder
  BY InvHolds, PTL DEF Inv, OrderInv
=============================================================================
