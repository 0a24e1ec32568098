-------------------------- MODULE ConnectionsProofs --------------------------
(****************************************************************************)
(* Theorems about Connections for any messages and any bounds.              *)
(*                                                                          *)
(* A message passes through queues: the mailbox of sendmaster, sendmaster   *)
(* itself, the mailbox of a thread, the wire of a connection, and what has  *)
(* been received.  Placed says that it is at one position of one of them,   *)
(* on its way from one island to the other.  A step moves the head of one   *)
(* queue to the end of another (PlacedMove), drops messages (PlacedDrop),   *)
(* or adds a message that is nowhere (PlacedAdd).                           *)
(****************************************************************************)
EXTENDS Connections, FiniteSetTheorems, SequenceTheorems, TLAPS

LEMMA Others ==
    \A i \in Islands : /\ Other(i) \in Islands /\ Other(i) # i
                       /\ \A j \in Islands : j = i \/ j = Other(i)
                       /\ Other(Other(i)) = i
  <1>1. PICK a, b : Islands = {a, b} /\ a # b
    <2>1. PICK a : a \in Islands
        BY FS_EmptySet, ConnectionsAssumption
    <2>2. IsFiniteSet(Islands \ {a}) /\ Cardinality(Islands \ {a}) = 1
        BY <2>1, FS_RemoveElement, ConnectionsAssumption
    <2>3. PICK b : Islands \ {a} = {b}
        BY <2>2, FS_Singleton
    <2> QED BY <2>1, <2>3
  <1>2. \A i \in Islands : \E j \in Islands : j # i
      BY <1>1
  <1>3. \A i \in Islands : Other(i) \in Islands /\ Other(i) # i
      BY <1>2 DEF Other
  <1> QED BY <1>1, <1>3

Positions(s) == 1 .. Len(s)

LEMMA TailFacts ==
    ASSUME NEW S, NEW q \in Seq(S), q # <<>>
    PROVE  /\ Tail(q) \in Seq(S) /\ Head(q) \in S /\ 1 \in Positions(q)
           /\ \A i \in Positions(Tail(q)) :
                 i \in Nat \ {0} /\ i + 1 \in Positions(q) /\ Tail(q)[i] = q[i + 1]
           /\ Head(q) = q[1]
  BY DEF Positions

LEMMA NoPosition == Positions(<<>>) = {}
  BY DEF Positions

-----------------------------------------------------------------------------
(* Queues of messages.                                                      *)

Slots == [kind : {"request", "master", "received"}, num : {0}, isle : Islands]
         \cup [kind : {"mail", "wire"}, num : Nat, isle : Islands]

\* The island that the messages of a queue come from.
Source(q) == IF q.kind \in {"request", "master", "mail"} THEN q.isle ELSE Other(q.isle)

\* Every message in the queues Q was sent, and is at one position only.
Placed(Q, S) ==
    /\ \A q, r \in Slots : \A a \in Positions(Q[q]), b \in Positions(Q[r]) :
          Q[q][a] = Q[r][b] => q = r /\ a = b
    /\ \A q \in Slots : \A a \in Positions(Q[q]) :
          Q[q][a] \in S /\ From[Q[q][a]] = Source(q)

Full == [Slots -> Seq(Messages)]

\* Each position of R has a position of Q of its own, with the same message.
Carries(Q, R, at, pos) ==
    /\ \A q \in Slots : \A a \in Positions(R[q]) :
          /\ at[q][a] \in Slots /\ pos[q][a] \in Positions(Q[at[q][a]])
          /\ R[q][a] = Q[at[q][a]][pos[q][a]]
          /\ Source(at[q][a]) = Source(q)
    /\ \A q, r \in Slots : \A a \in Positions(R[q]), b \in Positions(R[r]) :
          at[q][a] = at[r][b] /\ pos[q][a] = pos[r][b] => q = r /\ a = b

LEMMA PlacedCarried ==
    ASSUME NEW Q, NEW R, NEW S, NEW at, NEW pos, Placed(Q, S), Carries(Q, R, at, pos)
    PROVE  Placed(R, S)
  <1> USE DEF Carries
  <1>1. ASSUME NEW q \in Slots, NEW a \in Positions(R[q])
        PROVE  R[q][a] \in S /\ From[R[q][a]] = Source(q)
    <2>1. PICK p \in Slots : \E x \in Positions(Q[p]) :
             R[q][a] = Q[p][x] /\ Source(p) = Source(q)
        OBVIOUS
    <2> QED BY <2>1 DEF Placed
  <1>2. ASSUME NEW q \in Slots, NEW r \in Slots, NEW a \in Positions(R[q]),
               NEW b \in Positions(R[r]), R[q][a] = R[r][b]
        PROVE  q = r /\ a = b
    <2> DEFINE p == at[q][a]
               x == pos[q][a]
               o == at[r][b]
               y == pos[r][b]
    <2>1. /\ p \in Slots /\ o \in Slots /\ x \in Positions(Q[p]) /\ y \in Positions(Q[o])
          /\ Q[p][x] = Q[o][y]
        BY <1>2
    <2>2. p = o /\ x = y => q = r /\ a = b
        OBVIOUS
    <2> HIDE DEF p, x, o, y
    <2>3. p = o /\ x = y
        BY <2>1 DEF Placed
    <2> QED BY <2>2, <2>3
  <1> QED BY <1>1, <1>2 DEF Placed

\* Messages are lost.
LEMMA PlacedDrop ==
    ASSUME NEW Q \in Full, NEW R, NEW S, Placed(Q, S),
           \A q \in Slots : \/ R[q] \in {Q[q], <<>>}
                            \/ Q[q] # <<>> /\ R[q] = Tail(Q[q])
    PROVE  Placed(R, S)
  <1> DEFINE at  == [q \in Slots |-> [a \in Positions(R[q]) |-> q]]
             pos == [q \in Slots |-> [a \in Positions(R[q]) |->
                                        IF R[q] = Q[q] THEN a ELSE a + 1]]
  <1>1. ASSUME NEW q \in Slots, NEW a \in Positions(R[q])
        PROVE  /\ at[q][a] = q
               /\ pos[q][a] = IF R[q] = Q[q] THEN a ELSE a + 1
               /\ pos[q][a] \in Positions(Q[q])
               /\ R[q][a] = Q[q][pos[q][a]]
    <2>1. Q[q] \in Seq(Messages)
        BY DEF Full
    <2>2. at[q][a] = q /\ pos[q][a] = IF R[q] = Q[q] THEN a ELSE a + 1
        OBVIOUS
    <2> HIDE DEF at, pos
    <2>3. CASE R[q] = Q[q]
        BY <2>2, <2>3
    <2>4. CASE R[q] = <<>>
        BY <2>4, NoPosition
    <2>5. CASE R[q] # Q[q] /\ Q[q] # <<>> /\ R[q] = Tail(Q[q])
      <3>1. /\ a \in Nat \ {0} /\ a + 1 \in Positions(Q[q])
            /\ Tail(Q[q])[a] = Q[q][a + 1]
          BY <2>1, <2>5, TailFacts, Zenon
      <3> QED BY <2>2, <2>5, <3>1
    <2> QED BY <2>2, <2>3, <2>4, <2>5
  <1> HIDE DEF at, pos
  <1>2. ASSUME NEW q \in Slots, NEW r \in Slots, NEW a \in Positions(R[q]),
               NEW b \in Positions(R[r]), at[q][a] = at[r][b], pos[q][a] = pos[r][b]
        PROVE  q = r /\ a = b
    <2>1. q = r
        BY <1>1, <1>2
    <2>2. pos[q][a] = pos[q][b] /\ b \in Positions(R[q])
        BY <1>2, <2>1
    <2>3. a \in Int /\ b \in Int
        BY DEF Positions
    <2> QED BY <1>1, <2>1, <2>2, <2>3
  <1>3. ASSUME NEW q \in Slots, NEW a \in Positions(R[q])
        PROVE  /\ at[q][a] \in Slots /\ pos[q][a] \in Positions(Q[at[q][a]])
               /\ R[q][a] = Q[at[q][a]][pos[q][a]]
               /\ Source(at[q][a]) = Source(q)
      BY <1>1
  <1>4. Carries(Q, R, at, pos)
      BY <1>2, <1>3 DEF Carries
  <1> QED BY <1>4, PlacedCarried

\* A message that was not sent before is added at the end of queue t.
LEMMA PlacedAdd ==
    ASSUME NEW Q \in Full, NEW R, NEW S, Placed(Q, S),
           NEW m \in Messages, m \notin S, NEW t \in Slots, From[m] = Source(t),
           R[t] = Append(Q[t], m), \A q \in Slots \ {t} : R[q] = Q[q]
    PROVE  Placed(R, S \cup {m})
  <1>1. ASSUME NEW q \in Slots, NEW a \in Positions(R[q])
        PROVE  \/ q = t /\ a = Len(Q[t]) + 1 /\ R[q][a] = m
               \/ a \in Positions(Q[q]) /\ R[q][a] = Q[q][a] /\ R[q][a] # m
    <2>1. Q[q] \in Seq(Messages) /\ Q[t] \in Seq(Messages)
        BY DEF Full
    <2>2. \A b \in Positions(Q[q]) : Q[q][b] # m
        BY DEF Placed
    <2>3. CASE q = t
      <3>1. \/ a = Len(Q[t]) + 1 /\ Append(Q[t], m)[a] = m
            \/ a \in Positions(Q[t]) /\ Append(Q[t], m)[a] = Q[t][a]
        <4>1. \A i \in Positions(Append(Q[t], m)) :
                 \/ i = Len(Q[t]) + 1 /\ Append(Q[t], m)[i] = m
                 \/ /\ i \in Positions(Q[t]) /\ i # Len(Q[t]) + 1
                    /\ Append(Q[t], m)[i] = Q[t][i]
            BY <2>1 DEF Positions
        <4>2. a \in Positions(Append(Q[t], m))
            BY <2>3
        <4> QED BY <4>1, <4>2, Zenon
      <3> QED BY <2>2, <2>3, <3>1
    <2>4. CASE q # t
        BY <2>2, <2>4
    <2> QED BY <2>3, <2>4
  <1>2. ASSUME NEW q \in Slots, NEW a \in Positions(R[q])
        PROVE  R[q][a] \in S \cup {m} /\ From[R[q][a]] = Source(q)
      BY <1>1 DEF Placed
  <1>3. ASSUME NEW q \in Slots, NEW r \in Slots, NEW a \in Positions(R[q]),
               NEW b \in Positions(R[r]), R[q][a] = R[r][b]
        PROVE  q = r /\ a = b
      BY <1>1, <1>3 DEF Placed
  <1> QED BY <1>2, <1>3 DEF Placed

\* The head of queue s goes to the end of queue t.
LEMMA PlacedMove ==
    ASSUME NEW Q \in Full, NEW R, NEW S, Placed(Q, S),
           NEW s \in Slots, NEW t \in Slots, s # t, Source(s) = Source(t),
           Q[s] # <<>>, R[s] = Tail(Q[s]), R[t] = Append(Q[t], Head(Q[s])),
           \A q \in Slots \ {s, t} : R[q] = Q[q]
    PROVE  Placed(R, S)
  <1> DEFINE at  == [q \in Slots |-> [a \in Positions(R[q]) |->
                        IF q = t /\ a = Len(Q[t]) + 1 THEN s ELSE q]]
             pos == [q \in Slots |-> [a \in Positions(R[q]) |->
                        IF q = t /\ a = Len(Q[t]) + 1 THEN 1
                        ELSE IF q = s THEN a + 1 ELSE a]]
  <1>0. /\ Q[s] \in Seq(Messages) /\ Q[t] \in Seq(Messages)
        /\ Head(Q[s]) \in Messages /\ Head(Q[s]) = Q[s][1] /\ 1 \in Positions(Q[s])
      BY TailFacts DEF Full
  <1>1. ASSUME NEW q \in Slots, NEW a \in Positions(R[q])
        PROVE  \/ /\ q = t /\ a = Len(Q[t]) + 1
                  /\ at[q][a] = s /\ pos[q][a] = 1 /\ R[q][a] = Q[s][1]
               \/ /\ q = s /\ at[q][a] = s /\ pos[q][a] = a + 1
                  /\ a \in Nat \ {0} /\ a + 1 \in Positions(Q[s]) /\ R[q][a] = Q[s][a + 1]
               \/ /\ q # s /\ ~(q = t /\ a = Len(Q[t]) + 1)
                  /\ at[q][a] = q /\ pos[q][a] = a
                  /\ a \in Positions(Q[q]) /\ R[q][a] = Q[q][a]
    <2>1. /\ at[q][a] = IF q = t /\ a = Len(Q[t]) + 1 THEN s ELSE q
          /\ pos[q][a] = IF q = t /\ a = Len(Q[t]) + 1 THEN 1
                         ELSE IF q = s THEN a + 1 ELSE a
        OBVIOUS
    <2> HIDE DEF at, pos
    <2>2. CASE q = s
      <3>1. /\ a \in Nat \ {0} /\ a + 1 \in Positions(Q[s])
            /\ Tail(Q[s])[a] = Q[s][a + 1]
          BY <1>0, <2>2, TailFacts
      <3> QED BY <2>1, <2>2, <3>1
    <2>3. CASE q = t
      <3>1. \/ a = Len(Q[t]) + 1 /\ Append(Q[t], Head(Q[s]))[a] = Head(Q[s])
            \/ /\ a \in Positions(Q[t]) /\ a # Len(Q[t]) + 1
               /\ Append(Q[t], Head(Q[s]))[a] = Q[t][a]
        <4> DEFINE r == Append(Q[t], Head(Q[s]))
        <4>1. \A i \in Positions(r) :
                 \/ i = Len(Q[t]) + 1 /\ r[i] = Head(Q[s])
                 \/ i \in Positions(Q[t]) /\ i # Len(Q[t]) + 1 /\ r[i] = Q[t][i]
            BY <1>0, <2>3 DEF Positions
        <4>2. a \in Positions(r)
            BY <2>3
        <4> QED BY <4>1, <4>2, Zenon
      <3> QED BY <1>0, <2>1, <2>3, <3>1
    <2>4. CASE q \notin {s, t}
        BY <2>1, <2>4
    <2> QED BY <2>2, <2>3, <2>4
  <1> HIDE DEF at, pos
  <1>2. ASSUME NEW q \in Slots, NEW a \in Positions(R[q])
        PROVE  /\ at[q][a] \in Slots /\ pos[q][a] \in Positions(Q[at[q][a]])
               /\ R[q][a] = Q[at[q][a]][pos[q][a]]
               /\ Source(at[q][a]) = Source(q)
      BY <1>0, <1>1
  <1>3. ASSUME NEW q \in Slots, NEW r \in Slots, NEW a \in Positions(R[q]),
               NEW b \in Positions(R[r]), at[q][a] = at[r][b], pos[q][a] = pos[r][b]
        PROVE  q = r /\ a = b
      BY <1>0, <1>1, <1>3
  <1>4. Carries(Q, R, at, pos)
      BY <1>2, <1>3 DEF Carries
  <1> QED BY <1>4, PlacedCarried

-----------------------------------------------------------------------------
(* Types, and which connection or thread an entry is of.                    *)

ThreadRecord ==
    [isle : Islands, state : {"dial", "shake", "output", "exit", "dead"},
     tries : 0 .. Tries, conn : Nat \cup {None}, mail : Seq(Messages)]

ConnRecord ==
    [wire : [Islands -> Seq(Messages)], input : [Islands -> {"none", "live", "dead"}],
     exits : [Islands -> Nat], reset : BOOLEAN]

AccepterRecord ==
    [pc : {"accept", "shake", "register"}, conn : Nat \cup {None}, out : Nat \cup {None}]

\* A thread that has a connection in C wherever it uses one.
ThreadOK(e, C) ==
    /\ e.conn # None => e.conn \in C
    /\ e.state \in {"shake", "output", "exit"} => e.conn # None
    /\ e.state = "shake" => e.tries > 0

MasterInv ==
    /\ requests \in [Islands -> Seq(Messages)]
    /\ master \in [Islands -> [pc : {"ready", "present", "absent"},
                               message : Messages \cup {None}]]
    /\ \A i \in Islands : master[i].pc # "ready" => master[i].message \in Messages

\* The entry of an island, and the thread its accepter is about to register,
\* are threads of that island.
EntryInv ==
    /\ connectsO \in [Islands -> Nat \cup {None}]
    /\ \A i \in Islands : connectsO[i] # None =>
          connectsO[i] \in Threads /\ thread[connectsO[i]].isle = i
    /\ \A i \in Islands : accepter[i].out # None =>
          accepter[i].out \in Threads /\ thread[accepter[i].out].isle = i

ThreadInv ==
    /\ thread \in Seq(ThreadRecord)
    /\ \A t \in Threads : ThreadOK(thread[t], Conns)

AccepterInv ==
    /\ accepter \in [Islands -> AccepterRecord]
    /\ backlog \in [Islands -> Seq(Nat)]
    /\ \A i \in Islands :
          /\ accepter[i].conn # None => accepter[i].conn \in Conns
          /\ accepter[i].pc = "shake" => accepter[i].conn # None
          /\ accepter[i].pc = "register" => accepter[i].out # None
          /\ \A n \in 1 .. Len(backlog[i]) : backlog[i][n] \in Conns

ConnInv == conn \in Seq(ConnRecord)

CountInv ==
    /\ received \in [Islands -> Seq(Messages)]
    /\ sent \subseteq Messages
    /\ refusals \in 0 .. MaxRefusals
    /\ resets \in Nat /\ crashes \in Nat /\ resets + crashes <= MaxFaults

Types == MasterInv /\ EntryInv /\ ThreadInv /\ AccepterInv /\ ConnInv /\ CountInv

ThreadsGrow == /\ Threads \subseteq Threads'
               /\ \A t \in Threads : thread'[t].isle = thread[t].isle

ConnsGrow == Conns \subseteq Conns'

\* What a thread has read in its conn field is a connection.
LEMMA ThreadFacts ==
    ASSUME Types, NEW t \in Threads
    PROVE  /\ thread[t] \in ThreadRecord /\ ThreadOK(thread[t], Conns)
           /\ thread[t].isle \in Islands /\ thread[t].mail \in Seq(Messages)
           /\ thread[t].state \in {"shake", "output", "exit"} => thread[t].conn \in Conns
           /\ t \in Nat \ {0}
  <1>1. thread[t] \in ThreadRecord
      BY DEF Types, ThreadInv, Threads
  <1> QED BY <1>1 DEF Types, ThreadInv, ThreadOK, ThreadRecord, Threads

LEMMA ConnFacts ==
    ASSUME Types, NEW c \in Conns
    PROVE  /\ conn[c] \in ConnRecord /\ c \in Nat \ {0}
           /\ \A i \in Islands : conn[c].wire[i] \in Seq(Messages)
  <1>1. conn[c] \in ConnRecord
      BY DEF Types, ConnInv, Conns
  <1> QED BY <1>1 DEF ConnRecord, Conns

LEMMA ThreadChange ==
    ASSUME Types, NEW t \in Threads, NEW e \in ThreadRecord, e.isle = thread[t].isle,
           ThreadOK(e, Conns'), thread' = [thread EXCEPT ![t] = e], ConnsGrow
    PROVE  /\ ThreadInv' /\ ThreadsGrow /\ Threads' = Threads
           /\ \A u \in Threads : thread'[u] = IF u = t THEN e ELSE thread[u]
  <1>1. thread \in Seq(ThreadRecord)
      BY DEF Types, ThreadInv
  <1>2. /\ thread' \in Seq(ThreadRecord) /\ Len(thread') = Len(thread)
        /\ \A u \in 1 .. Len(thread) : thread'[u] = IF u = t THEN e ELSE thread[u]
      BY <1>1 DEF Threads
  <1>3. \A u \in Threads : ThreadOK(thread[u], Conns')
      BY DEF Types, ThreadInv, ThreadOK, ConnsGrow
  <1> QED BY <1>2, <1>3 DEF ThreadInv, ThreadsGrow, Threads

LEMMA ThreadNew ==
    ASSUME Types, NEW e \in ThreadRecord, ThreadOK(e, Conns'),
           thread' = Append(thread, e), ConnsGrow
    PROVE  /\ ThreadInv' /\ ThreadsGrow /\ Threads' = Threads \cup {Len(thread) + 1}
           /\ thread'[Len(thread) + 1] = e
           /\ \A u \in Threads : thread'[u] = thread[u] /\ u # Len(thread) + 1
  <1>1. thread \in Seq(ThreadRecord)
      BY DEF Types, ThreadInv
  <1>2. /\ thread' \in Seq(ThreadRecord) /\ Len(thread') = Len(thread) + 1
        /\ Len(thread) \in Nat /\ thread'[Len(thread) + 1] = e
        /\ \A u \in 1 .. Len(thread) : thread'[u] = thread[u]
      BY <1>1
  <1>3. \A u \in Threads : ThreadOK(thread[u], Conns')
      BY DEF Types, ThreadInv, ThreadOK, ConnsGrow
  <1> QED BY <1>2, <1>3 DEF ThreadInv, ThreadsGrow, Threads

LEMMA ConnChange ==
    ASSUME Types, NEW c \in Conns, NEW e \in ConnRecord, conn' = [conn EXCEPT ![c] = e]
    PROVE  /\ ConnInv' /\ ConnsGrow /\ Conns' = Conns
           /\ \A d \in Conns : conn'[d] = IF d = c THEN e ELSE conn[d]
  BY DEF Types, ConnInv, ConnsGrow, Conns

LEMMA ConnNew ==
    ASSUME Types, conn' = Append(conn, NewConn)
    PROVE  /\ ConnInv' /\ ConnsGrow /\ Conns' = Conns \cup {Len(conn) + 1}
           /\ conn'[Len(conn) + 1] = NewConn
           /\ \A d \in Conns : conn'[d] = conn[d] /\ d # Len(conn) + 1
  <1>1. NewConn \in ConnRecord
      BY DEF NewConn, ConnRecord
  <1>2. conn \in Seq(ConnRecord)
      BY DEF Types, ConnInv
  <1>3. /\ conn' \in Seq(ConnRecord) /\ Len(conn') = Len(conn) + 1
        /\ Len(conn) \in Nat /\ conn'[Len(conn) + 1] = NewConn
        /\ \A d \in 1 .. Len(conn) : conn'[d] = conn[d]
      BY <1>1, <1>2
  <1> QED BY <1>3 DEF ConnInv, ConnsGrow, Conns

\* What a step that leaves some of the state alone preserves.
LEMMA Frame ==
    ASSUME Types
    PROVE  /\ UNCHANGED <<requests, master>> => MasterInv'
           /\ UNCHANGED <<connectsO, accepter>> /\ ThreadsGrow => EntryInv'
           /\ UNCHANGED <<accepter, backlog>> /\ ConnsGrow => AccepterInv'
           /\ UNCHANGED <<thread>> /\ ConnsGrow => ThreadInv'
           /\ UNCHANGED <<thread>> => ThreadsGrow
           /\ UNCHANGED <<conn>> => ConnInv' /\ ConnsGrow
           /\ UNCHANGED <<received, sent, refusals, resets, crashes>> => CountInv'
  <1>1. UNCHANGED <<requests, master>> => MasterInv'
      BY DEF Types, MasterInv
  <1>2. UNCHANGED <<connectsO, accepter>> /\ ThreadsGrow => EntryInv'
      BY DEF Types, EntryInv, ThreadsGrow
  <1>3. UNCHANGED <<accepter, backlog>> /\ ConnsGrow => AccepterInv'
      BY DEF Types, AccepterInv, ConnsGrow
  <1>4. UNCHANGED <<thread>> /\ ConnsGrow => ThreadInv'
      BY DEF Types, ThreadInv, ThreadOK, ConnsGrow, Threads
  <1>5. UNCHANGED <<thread>> => ThreadsGrow
      BY DEF ThreadsGrow, Threads
  <1>6. UNCHANGED <<conn>> => ConnInv' /\ ConnsGrow
      BY DEF Types, ConnInv, ConnsGrow, Conns
  <1>7. UNCHANGED <<received, sent, refusals, resets, crashes>> => CountInv'
      BY DEF Types, CountInv
  <1> QED BY <1>1, <1>2, <1>3, <1>4, <1>5, <1>6, <1>7

-----------------------------------------------------------------------------
(* The queues of a state.                                                   *)

Slot(k, n, i) == [kind |-> k, num |-> n, isle |-> i]

Mail(n, i) == IF n \in Threads /\ thread[n].isle = i THEN thread[n].mail ELSE <<>>

Wire(n, i) == IF n \in Conns THEN conn[n].wire[i] ELSE <<>>

Held(i) == IF master[i].pc = "ready" THEN <<>> ELSE <<master[i].message>>

Queues ==
    [q \in Slots |-> CASE q.kind = "request"  -> requests[q.isle]
                       [] q.kind = "master"   -> Held(q.isle)
                       [] q.kind = "received" -> received[q.isle]
                       [] q.kind = "mail"     -> Mail(q.num, q.isle)
                       [] q.kind = "wire"     -> Wire(q.num, q.isle)]

PlaceInv == Placed(Queues, sent)

\* The slots, one kind at a time.
LEMMA SlotFacts ==
    /\ \A q \in Slots : \E i \in Islands :
          \/ q = Slot("request", 0, i) \/ q = Slot("master", 0, i)
          \/ q = Slot("received", 0, i)
          \/ \E n \in Nat : q = Slot("mail", n, i) \/ q = Slot("wire", n, i)
    /\ \A i \in Islands :
          /\ Slot("request", 0, i) \in Slots /\ Slot("master", 0, i) \in Slots
          /\ Slot("received", 0, i) \in Slots
          /\ \A n \in Nat : Slot("mail", n, i) \in Slots /\ Slot("wire", n, i) \in Slots
  <1>1. ASSUME NEW q \in Slots
        PROVE  \E i \in Islands :
          \/ q = Slot("request", 0, i) \/ q = Slot("master", 0, i)
          \/ q = Slot("received", 0, i)
          \/ \E n \in Nat : q = Slot("mail", n, i) \/ q = Slot("wire", n, i)
    <2>1. q.isle \in Islands /\ q = Slot(q.kind, q.num, q.isle)
        BY DEF Slots, Slot
    <2>2. \/ q.kind \in {"request", "master", "received"} /\ q.num = 0
          \/ q.kind \in {"mail", "wire"} /\ q.num \in Nat
        BY DEF Slots
    <2> QED BY <2>1, <2>2
  <1> QED BY <1>1 DEF Slots, Slot

LEMMA SlotsDiffer ==
    \A k, l, n, m, i, j :
       Slot(k, n, i) = Slot(l, m, j) <=> k = l /\ n = m /\ i = j
  BY DEF Slot

QueuesAre ==
    \A i \in Islands :
       /\ Queues[Slot("request", 0, i)] = requests[i]
       /\ Queues[Slot("master", 0, i)] = Held(i)
       /\ Queues[Slot("received", 0, i)] = received[i]
       /\ \A n \in Nat : /\ Queues[Slot("mail", n, i)] = Mail(n, i)
                         /\ Queues[Slot("wire", n, i)] = Wire(n, i)

LEMMA QueueFacts == QueuesAre /\ QueuesAre'
  <1>0. QueuesAre
    <2> SUFFICES ASSUME NEW i \in Islands
        PROVE  /\ Queues[Slot("request", 0, i)] = requests[i]
               /\ Queues[Slot("master", 0, i)] = Held(i)
               /\ Queues[Slot("received", 0, i)] = received[i]
               /\ \A n \in Nat : /\ Queues[Slot("mail", n, i)] = Mail(n, i)
                                 /\ Queues[Slot("wire", n, i)] = Wire(n, i)
        BY DEF QueuesAre
    <2>1. Queues[Slot("request", 0, i)] = requests[i]
        BY SlotFacts DEF Queues, Slot
    <2>2. Queues[Slot("master", 0, i)] = Held(i)
        BY SlotFacts DEF Queues, Slot
    <2>3. Queues[Slot("received", 0, i)] = received[i]
        BY SlotFacts DEF Queues, Slot
    <2>4. ASSUME NEW n \in Nat PROVE Queues[Slot("mail", n, i)] = Mail(n, i)
        BY SlotFacts DEF Queues, Slot
    <2>5. ASSUME NEW n \in Nat PROVE Queues[Slot("wire", n, i)] = Wire(n, i)
        BY SlotFacts DEF Queues, Slot
    <2> QED BY <2>1, <2>2, <2>3, <2>4, <2>5
  <1> QED BY <1>0, PTL

LEMMA QueuesFull == Types => Queues \in Full
  <1> SUFFICES ASSUME Types, NEW q \in Slots PROVE Queues[q] \in Seq(Messages)
      BY DEF Full, Queues
  <1>1. PICK i \in Islands :
          \/ q = Slot("request", 0, i) \/ q = Slot("master", 0, i)
          \/ q = Slot("received", 0, i)
          \/ \E n \in Nat : q = Slot("mail", n, i) \/ q = Slot("wire", n, i)
      BY SlotFacts
  <1>2. requests[i] \in Seq(Messages)
      BY DEF Types, MasterInv
  <1>3. Held(i) \in Seq(Messages)
      BY DEF Types, MasterInv, Held
  <1>4. received[i] \in Seq(Messages)
      BY DEF Types, CountInv
  <1>5. \A n \in Nat : Mail(n, i) \in Seq(Messages)
      BY ThreadFacts DEF Mail
  <1>6. \A n \in Nat : Wire(n, i) \in Seq(Messages)
      BY ConnFacts DEF Wire
  <1> QED BY <1>1, <1>2, <1>3, <1>4, <1>5, <1>6, QueueFacts, Zenon DEF QueuesAre

-----------------------------------------------------------------------------
(* What a step does to the queues, seen in the state.                       *)

\* The queue is as it was, without its head, or empty.
Less(old, new) == new \in {old, <<>>} \/ (old # <<>> /\ new = Tail(old))

LEMMA PlaceDrop ==
    ASSUME Types, PlaceInv, sent' = sent,
           \A i \in Islands : /\ Less(requests[i], requests'[i])
                              /\ Less(Held(i), Held(i)')
                              /\ Less(received[i], received'[i])
                              /\ \A n \in Nat : /\ Less(Mail(n, i), Mail(n, i)')
                                                /\ Less(Wire(n, i), Wire(n, i)')
    PROVE  PlaceInv'
  <1>1. ASSUME NEW q \in Slots PROVE Less(Queues[q], Queues'[q])
    <2>1. PICK i \in Islands :
            \/ q = Slot("request", 0, i) \/ q = Slot("master", 0, i)
            \/ q = Slot("received", 0, i)
            \/ \E n \in Nat : q = Slot("mail", n, i) \/ q = Slot("wire", n, i)
        BY SlotFacts
    <2>2. CASE q = Slot("request", 0, i)
        BY <2>2, QueueFacts DEF QueuesAre
    <2>3. CASE q = Slot("master", 0, i)
        BY <2>3, QueueFacts DEF QueuesAre
    <2>4. CASE q = Slot("received", 0, i)
        BY <2>4, QueueFacts DEF QueuesAre
    <2>5. ASSUME NEW n \in Nat, q = Slot("mail", n, i) \/ q = Slot("wire", n, i)
          PROVE  Less(Queues[q], Queues'[q])
        BY <2>5, QueueFacts DEF QueuesAre
    <2> QED BY <2>1, <2>2, <2>3, <2>4, <2>5
  <1> QED BY <1>1, QueuesFull, PlacedDrop DEF Less, PlaceInv

MailsLess == \A i \in Islands, n \in Nat : Less(Mail(n, i), Mail(n, i)')

WiresLess == \A i \in Islands, n \in Nat : Less(Wire(n, i), Wire(n, i)')

LEMMA Quiet ==
    ASSUME Types, PlaceInv, UNCHANGED <<requests, master, received, sent>>,
           MailsLess, WiresLess
    PROVE  PlaceInv'
  <1>1. \A i \in Islands : /\ Less(requests[i], requests'[i])
                           /\ Less(Held(i), Held(i)')
                           /\ Less(received[i], received'[i])
      BY DEF Less, Held
  <1> QED BY <1>1, PlaceDrop DEF MailsLess, WiresLess

LEMMA StillLess ==
    /\ UNCHANGED thread => MailsLess
    /\ UNCHANGED conn => WiresLess
  BY DEF MailsLess, WiresLess, Less, Mail, Wire, Threads, Conns

LEMMA ThreadLess ==
    ASSUME Types, NEW t \in Threads, NEW e \in ThreadRecord, e.isle = thread[t].isle,
           Threads' = Threads, Less(thread[t].mail, e.mail),
           \A u \in Threads : thread'[u] = IF u = t THEN e ELSE thread[u]
    PROVE  MailsLess
  <1> SUFFICES ASSUME NEW i \in Islands, NEW n \in Nat
               PROVE  Less(Mail(n, i), Mail(n, i)')
      BY DEF MailsLess
  <1>1. CASE n \in Threads /\ n # t
      BY <1>1 DEF Mail, Less
  <1>2. CASE n = t
      BY <1>2 DEF Mail, Less
  <1>3. CASE n \notin Threads
      BY <1>3 DEF Mail, Less
  <1> QED BY <1>1, <1>2, <1>3

LEMMA ConnLess ==
    ASSUME NEW c \in Conns, NEW e, Conns' = Conns,
           \A i \in Islands : Less(conn[c].wire[i], e.wire[i]),
           \A d \in Conns : conn'[d] = IF d = c THEN e ELSE conn[d]
    PROVE  WiresLess
  <1> SUFFICES ASSUME NEW i \in Islands, NEW n \in Nat
               PROVE  Less(Wire(n, i), Wire(n, i)')
      BY DEF WiresLess
  <1>1. CASE n \in Conns /\ n # c
      BY <1>1 DEF Wire, Less
  <1>2. CASE n = c
      BY <1>2 DEF Wire, Less
  <1>3. CASE n \notin Conns
      BY <1>3 DEF Wire, Less
  <1> QED BY <1>1, <1>2, <1>3

\* The queues outside X are as they were.
LEMMA Elsewhere ==
    ASSUME NEW X,
           \A i \in Islands :
              /\ requests'[i] = requests[i] \/ Slot("request", 0, i) \in X
              /\ Held(i)' = Held(i) \/ Slot("master", 0, i) \in X
              /\ received'[i] = received[i] \/ Slot("received", 0, i) \in X,
           \A i \in Islands, n \in Nat :
              /\ Mail(n, i)' = Mail(n, i) \/ Slot("mail", n, i) \in X
              /\ Wire(n, i)' = Wire(n, i) \/ Slot("wire", n, i) \in X
    PROVE  \A q \in Slots \ X : Queues'[q] = Queues[q]
  <1> SUFFICES ASSUME NEW q \in Slots \ X PROVE Queues'[q] = Queues[q]
      OBVIOUS
  <1>1. PICK i \in Islands :
          \/ q = Slot("request", 0, i) \/ q = Slot("master", 0, i)
          \/ q = Slot("received", 0, i)
          \/ \E n \in Nat : q = Slot("mail", n, i) \/ q = Slot("wire", n, i)
      BY SlotFacts
  <1>2. CASE q = Slot("request", 0, i)
      BY <1>2, QueueFacts DEF QueuesAre
  <1>3. CASE q = Slot("master", 0, i)
      BY <1>3, QueueFacts DEF QueuesAre
  <1>4. CASE q = Slot("received", 0, i)
      BY <1>4, QueueFacts DEF QueuesAre
  <1>5. ASSUME NEW n \in Nat, q = Slot("mail", n, i) \/ q = Slot("wire", n, i)
        PROVE  Queues'[q] = Queues[q]
      BY <1>5, QueueFacts DEF QueuesAre
  <1> QED BY <1>1, <1>2, <1>3, <1>4, <1>5

LEMMA PlaceMove ==
    ASSUME Types, PlaceInv, sent' = sent,
           NEW s \in Slots, NEW t \in Slots, s # t, Source(s) = Source(t),
           Queues[s] # <<>>, Queues'[s] = Tail(Queues[s]),
           Queues'[t] = Append(Queues[t], Head(Queues[s])),
           \A q \in Slots \ {s, t} : Queues'[q] = Queues[q]
    PROVE  PlaceInv'
  <1>1. Queues \in Full
      BY QueuesFull
  <1> QED BY <1>1, PlacedMove DEF PlaceInv

-----------------------------------------------------------------------------
(* The steps of sendmaster.                                                 *)

LEMMA RequestKeeps ==
    ASSUME Types, PlaceInv, NEW m \in Messages, Request(m)
    PROVE  Types' /\ PlaceInv'
  <1> DEFINE i == From[m]
             t == Slot("request", 0, i)
  <1>0. i \in Islands /\ requests[i] \in Seq(Messages) /\ Types
      BY ConnectionsAssumption DEF Types, MasterInv
  <1>1. MasterInv' /\ CountInv'
      BY <1>0 DEF Types, MasterInv, CountInv, Request, budget
  <1>2. ThreadInv' /\ EntryInv' /\ AccepterInv' /\ ConnInv'
      BY Frame, Zenon DEF Request, accepters
  <1>3. t \in Slots /\ Source(t) = From[m]
      BY <1>0, SlotFacts DEF Source, Slot
  <1>4. /\ requests'[i] = Append(requests[i], m)
        /\ \A j \in Islands : j # i => requests'[j] = requests[j]
      BY <1>0 DEF Request, Types, MasterInv
  <1> HIDE DEF i
  <1>5. Queues'[t] = Append(Queues[t], m)
      BY <1>0, <1>4, QueueFacts DEF QueuesAre
  <1>6. \A q \in Slots \ {t} : Queues'[q] = Queues[q]
    <2>1. \A j \in Islands : requests'[j] = requests[j] \/ Slot("request", 0, j) \in {t}
        BY <1>4
    <2>2. UNCHANGED <<master, received, thread, conn>>
        BY DEF Request
    <2> QED BY <2>1, <2>2, Elsewhere DEF Held, Mail, Wire, Threads, Conns
  <1>7. m \notin sent /\ sent' = sent \cup {m} /\ Queues \in Full
      BY QueuesFull DEF Request
  <1>8. PlaceInv'
      BY <1>3, <1>5, <1>6, <1>7, PlacedAdd DEF PlaceInv
  <1> QED BY <1>1, <1>2, <1>8 DEF Types

LEMMA HasKeyKeeps ==
    ASSUME Types, PlaceInv, NEW i \in Islands, HasKey(i)
    PROVE  Types' /\ PlaceInv'
  <1> DEFINE s == Slot("request", 0, i)
             t == Slot("master", 0, i)
  <1>0. /\ requests[i] \in Seq(Messages) /\ requests[i] # <<>>
        /\ Head(requests[i]) \in Messages /\ Tail(requests[i]) \in Seq(Messages)
      BY DEF Types, MasterInv, HasKey
  <1>1. MasterInv'
      BY <1>0 DEF Types, MasterInv, HasKey
  <1>2. ThreadInv' /\ EntryInv' /\ AccepterInv' /\ ConnInv' /\ CountInv'
      BY Frame, Zenon DEF HasKey, accepters, budget
  <1>3. s \in Slots /\ t \in Slots /\ s # t /\ Source(s) = Source(t)
      BY SlotFacts DEF Source, Slot
  <1>4. /\ requests'[i] = Tail(requests[i])
        /\ Held(i) = <<>> /\ Held(i)' = <<Head(requests[i])>>
        /\ \A j \in Islands : j # i => requests'[j] = requests[j] /\ Held(j)' = Held(j)
      BY <1>0 DEF HasKey, Types, MasterInv, Held
  <1>5. /\ Queues[s] # <<>> /\ Queues'[s] = Tail(Queues[s])
        /\ Queues'[t] = Append(Queues[t], Head(Queues[s]))
    <2>1. Append(<<>>, Head(requests[i])) = <<Head(requests[i])>>
        BY <1>0
    <2> QED BY <1>0, <1>4, <2>1, QueueFacts DEF QueuesAre
  <1>6. \A q \in Slots \ {s, t} : Queues'[q] = Queues[q]
    <2>1. \A j \in Islands :
             /\ requests'[j] = requests[j] \/ Slot("request", 0, j) \in {s, t}
             /\ Held(j)' = Held(j) \/ Slot("master", 0, j) \in {s, t}
        BY <1>4
    <2>2. UNCHANGED <<received, thread, conn>>
        BY DEF HasKey
    <2> QED BY <2>1, <2>2, Elsewhere DEF Mail, Wire, Threads, Conns
  <1>7. sent' = sent
      BY DEF HasKey
  <1>8. PlaceInv'
      BY <1>3, <1>5, <1>6, <1>7, PlaceMove
  <1> QED BY <1>1, <1>2, <1>8 DEF Types

\* A message that sendmaster gives to a thread of its island.
LEMMA Given ==
    ASSUME Types, PlaceInv, NEW i \in Islands, NEW n \in Nat, master[i].pc # "ready",
           UNCHANGED <<requests, conn, received, sent>>,
           master' = [master EXCEPT ![i] = Ready],
           Mail(n, i)' = Append(Mail(n, i), master[i].message),
           \A j \in Islands, k \in Nat : k # n \/ j # i => Mail(k, j)' = Mail(k, j)
    PROVE  PlaceInv'
  <1> DEFINE s == Slot("master", 0, i)
             t == Slot("mail", n, i)
  <1>1. s \in Slots /\ t \in Slots /\ s # t /\ Source(s) = Source(t)
      BY SlotFacts DEF Source, Slot
  <1>2. /\ Held(i) = <<master[i].message>> /\ Held(i)' = <<>>
        /\ \A j \in Islands : j # i => Held(j)' = Held(j)
      BY DEF Held, Ready, Types, MasterInv
  <1>3. /\ Queues[s] # <<>> /\ Queues'[s] = Tail(Queues[s])
        /\ Queues'[t] = Append(Queues[t], Head(Queues[s]))
    <2>1. /\ <<master[i].message>> # <<>> /\ Tail(<<master[i].message>>) = <<>>
          /\ Head(<<master[i].message>>) = master[i].message
        OBVIOUS
    <2> QED BY <1>2, <2>1, QueueFacts DEF QueuesAre
  <1>4. \A q \in Slots \ {s, t} : Queues'[q] = Queues[q]
    <2>1. \A j \in Islands : Held(j)' = Held(j) \/ Slot("master", 0, j) \in {s, t}
        BY <1>2
    <2>2. \A j \in Islands, k \in Nat :
             Mail(k, j)' = Mail(k, j) \/ Slot("mail", k, j) \in {s, t}
        OBVIOUS
    <2> QED BY <2>1, <2>2, Elsewhere DEF Wire, Conns
  <1> QED BY <1>1, <1>3, <1>4, PlaceMove

LEMMA ForwardKeeps ==
    ASSUME Types, PlaceInv, NEW i \in Islands, Forward(i)
    PROVE  Types' /\ PlaceInv'
  <1> DEFINE m == master[i].message
  <1>0. /\ m \in Messages /\ master[i].pc # "ready"
        /\ UNCHANGED <<requests, connectsO, accepter, backlog, conn, received, sent,
                       refusals, resets, crashes>>
        /\ master' = [master EXCEPT ![i] = Ready]
      BY DEF Forward, Types, MasterInv, accepters, budget
  <1>1. MasterInv' /\ AccepterInv' /\ ConnInv' /\ CountInv' /\ ConnsGrow
    <2>1. AccepterInv' /\ ConnInv' /\ CountInv' /\ ConnsGrow
        BY <1>0, Frame, Zenon
    <2>2. MasterInv'
        BY <1>0 DEF MasterInv, Types, Ready
    <2> QED BY <2>1, <2>2
  <1>2. CASE thread' = thread
    <2>1. ThreadInv' /\ EntryInv'
        BY <1>0, <1>1, <1>2, Frame, Zenon
    <2>2. /\ \A j \in Islands : Less(requests[j], requests'[j])
          /\ \A j \in Islands : Less(received[j], received'[j])
          /\ \A j \in Islands : Less(Held(j), Held(j)')
      <3>1. \A j \in Islands : Held(j)' \in {Held(j), <<>>}
          BY <1>0 DEF Held, Ready, Types, MasterInv
      <3> QED BY <1>0, <3>1 DEF Less
    <2>3. MailsLess /\ WiresLess
        BY <1>0, <1>2, StillLess
    <2>4. PlaceInv'
        BY <1>0, <2>2, <2>3, PlaceDrop DEF MailsLess, WiresLess
    <2> QED BY <1>1, <2>1, <2>4 DEF Types
  <1>3. CASE /\ connectsO[i] # None
             /\ thread' = [thread EXCEPT ![connectsO[i]].mail = Append(@, m)]
    <2>1. PICK t \in Threads : /\ t = connectsO[i] /\ thread[t].isle = i
                               /\ thread' = [thread EXCEPT ![t].mail = Append(@, m)]
        BY <1>3 DEF Types, EntryInv
    <2> DEFINE e == [thread[t] EXCEPT !.mail = Append(@, m)]
    <2>2. /\ thread[t] \in ThreadRecord /\ ThreadOK(thread[t], Conns)
          /\ thread[t].mail \in Seq(Messages) /\ t \in Nat
        BY <2>1, ThreadFacts
    <2>3. /\ e \in ThreadRecord /\ e.isle = i /\ e.mail = Append(thread[t].mail, m)
          /\ e.conn = thread[t].conn /\ e.state = thread[t].state
          /\ e.tries = thread[t].tries
      <3>1. Append(thread[t].mail, m) \in Seq(Messages)
          BY <1>0, <2>2
      <3> HIDE DEF m
      <3> QED BY <2>1, <2>2, <3>1 DEF ThreadRecord
    <2>4. ThreadOK(e, Conns')
        BY <1>0, <2>2, <2>3 DEF ThreadOK, Conns
    <2>5. thread' = [thread EXCEPT ![t] = e]
        BY <2>1
    <2> HIDE DEF e
    <2>6. /\ ThreadInv' /\ ThreadsGrow /\ Threads' = Threads
          /\ \A u \in Threads : thread'[u] = IF u = t THEN e ELSE thread[u]
        BY <1>1, <2>1, <2>3, <2>4, <2>5, ThreadChange
    <2>7. EntryInv'
        BY <1>0, <2>6, Frame, Zenon
    <2>8. /\ Mail(t, i)' = Append(Mail(t, i), m)
          /\ \A j \in Islands, k \in Nat : k # t \/ j # i => Mail(k, j)' = Mail(k, j)
      <3>1. thread'[t].isle = i /\ thread'[t].mail = Append(thread[t].mail, m)
          BY <2>1, <2>3, <2>6
      <3>2. Mail(t, i)' = Append(Mail(t, i), m)
          BY <2>1, <2>6, <3>1 DEF Mail
      <3>3. ASSUME NEW j \in Islands, NEW k \in Nat, k # t \/ j # i
            PROVE  Mail(k, j)' = Mail(k, j)
          BY <2>1, <2>6, <3>1, <3>3 DEF Mail
      <3> QED BY <3>2, <3>3
    <2>9. PlaceInv'
        BY <1>0, <2>2, <2>8, Given
    <2> QED BY <1>1, <2>6, <2>7, <2>9 DEF Types
  <1> QED BY <1>2, <1>3 DEF Forward

LEMMA ConnectKeeps ==
    ASSUME Types, PlaceInv, NEW i \in Islands, Connect(i)
    PROVE  Types' /\ PlaceInv'
  <1>0. PICK n \in Nat \ {0} : n = Len(thread) + 1
      BY DEF Types, ThreadInv
  <1> DEFINE m == master[i].message
             e == Thread(i, "dial", None, <<m>>)
  <1>1. /\ m \in Messages /\ master[i].pc # "ready"
        /\ UNCHANGED <<requests, accepter, backlog, conn, received, sent,
                       refusals, resets, crashes>>
        /\ master' = [master EXCEPT ![i] = Ready] /\ thread' = Append(thread, e)
        /\ connectsO' = [connectsO EXCEPT ![i] = n]
      BY <1>0 DEF Connect, Types, MasterInv, accepters, budget
  <1>2. MasterInv' /\ AccepterInv' /\ ConnInv' /\ CountInv' /\ ConnsGrow
    <2>1. AccepterInv' /\ ConnInv' /\ CountInv' /\ ConnsGrow
        BY <1>1, Frame, Zenon
    <2>2. MasterInv'
        BY <1>1 DEF MasterInv, Types, Ready
    <2> QED BY <2>1, <2>2
  <1>3. /\ e \in ThreadRecord /\ ThreadOK(e, Conns') /\ e.isle = i /\ e.mail = <<m>>
      BY <1>1, ConnectionsAssumption DEF Thread, ThreadRecord, ThreadOK
  <1> HIDE DEF e, m
  <1>4. /\ ThreadInv' /\ ThreadsGrow /\ Threads' = Threads \cup {n} /\ thread'[n] = e
        /\ \A u \in Threads : thread'[u] = thread[u] /\ u # n
      BY <1>1, <1>2, <1>3, <1>0, ThreadNew
  <1>5. EntryInv'
    <2>1. /\ connectsO \in [Islands -> Nat \cup {None}]
          /\ connectsO' = [connectsO EXCEPT ![i] = n] /\ accepter' = accepter
        BY <1>1 DEF Types, EntryInv
    <2>2. ASSUME NEW j \in Islands, connectsO'[j] # None
          PROVE  connectsO'[j] \in Threads' /\ thread'[connectsO'[j]].isle = j
      <3>1. CASE j = i
          BY <1>3, <1>4, <2>1, <3>1
      <3>2. CASE j # i
        <4>1. connectsO[j] \in Threads /\ thread[connectsO[j]].isle = j
            BY <2>1, <2>2, <3>2 DEF Types, EntryInv
        <4> QED BY <1>4, <2>1, <3>2, <4>1
      <3> QED BY <3>1, <3>2
    <2>3. ASSUME NEW j \in Islands, accepter[j].out # None
          PROVE  accepter[j].out \in Threads' /\ thread'[accepter[j].out].isle = j
      <3>1. accepter[j].out \in Threads /\ thread[accepter[j].out].isle = j
          BY <2>3 DEF Types, EntryInv
      <3> QED BY <1>4, <3>1
    <2>4. connectsO' \in [Islands -> Nat \cup {None}]
        BY <2>1
    <2> QED BY <2>1, <2>2, <2>3, <2>4 DEF EntryInv
  <1>6. /\ Mail(n, i)' = Append(Mail(n, i), m)
        /\ \A j \in Islands, k \in Nat : k # n \/ j # i => Mail(k, j)' = Mail(k, j)
    <2>1. Mail(n, i) = <<>> /\ Mail(n, i)' = <<m>>
        BY <1>3, <1>4 DEF Mail
    <2>2. Append(<<>>, m) = <<m>>
        BY <1>1
    <2>3. ASSUME NEW j \in Islands, NEW k \in Nat, k # n \/ j # i
          PROVE  Mail(k, j)' = Mail(k, j)
        BY <1>3, <1>4, <2>3 DEF Mail
    <2> QED BY <2>1, <2>2, <2>3
  <1>7. PlaceInv'
      BY <1>1, <1>0, <1>6, Given DEF m
  <1> QED BY <1>2, <1>4, <1>5, <1>7 DEF Types

-----------------------------------------------------------------------------
(* The steps of connecting and output threads.                              *)

\* A thread changes, and its mailbox at most loses messages.
LEMMA ThreadQuiet ==
    ASSUME Types, PlaceInv, NEW t \in Threads, NEW e \in ThreadRecord,
           e.isle = thread[t].isle, ThreadOK(e, Conns'), Less(thread[t].mail, e.mail),
           thread' = [thread EXCEPT ![t] = e], ConnsGrow, WiresLess,
           UNCHANGED <<requests, master, received, sent>>
    PROVE  MasterInv' /\ ThreadInv' /\ ThreadsGrow /\ PlaceInv'
  <1>1. /\ ThreadInv' /\ ThreadsGrow /\ Threads' = Threads
        /\ \A u \in Threads : thread'[u] = IF u = t THEN e ELSE thread[u]
      BY ThreadChange
  <1>2. MailsLess
      BY <1>1, ThreadLess
  <1>3. PlaceInv'
      BY <1>2, Quiet
  <1>4. MasterInv'
      BY Frame
  <1> QED BY <1>1, <1>3, <1>4

LEMMA DialKeeps ==
    ASSUME Types, PlaceInv, NEW t \in Threads, Dial(t)
    PROVE  Types' /\ PlaceInv'
  <1>0. PICK c \in Nat \ {0} : c = Len(conn) + 1
      BY DEF Types, ConnInv
  <1> DEFINE e == [thread[t] EXCEPT !.state = "shake", !.conn = c]
             j == Other(thread[t].isle)
  <1>1. /\ conn' = Append(conn, NewConn) /\ thread[t].tries > 0
        /\ backlog' = [backlog EXCEPT ![j] = Append(@, c)]
        /\ UNCHANGED <<requests, master, sent, connectsO, accepter, received,
                       refusals, resets, crashes>>
        /\ thread' = [thread EXCEPT ![t].state = "shake", ![t].conn = c]
      BY <1>0 DEF Dial, masters, budget
  <1>2. thread[t] \in ThreadRecord /\ j \in Islands
      BY ThreadFacts, Others
  <1>3. /\ e \in ThreadRecord /\ e.isle = thread[t].isle /\ e.mail = thread[t].mail
        /\ e.conn = c /\ e.tries > 0 /\ thread' = [thread EXCEPT ![t] = e]
      BY <1>1, <1>2 DEF ThreadRecord
  <1>4. /\ ConnInv' /\ ConnsGrow /\ Conns' = Conns \cup {c} /\ conn'[c] = NewConn
        /\ \A d \in Conns : conn'[d] = conn[d] /\ d # c
      BY <1>0, <1>1, ConnNew
  <1> HIDE DEF e, j
  <1>5. ThreadOK(e, Conns')
      BY <1>0, <1>3, <1>4, ConnectionsAssumption DEF ThreadOK
  <1>6. WiresLess
    <2> SUFFICES ASSUME NEW i \in Islands, NEW n \in Nat
                 PROVE  Less(Wire(n, i), Wire(n, i)')
        BY DEF WiresLess
    <2>1. CASE n = c
        BY <1>4, <2>1 DEF Wire, Less, NewConn
    <2>2. CASE n # c
        BY <1>4, <2>2 DEF Wire, Less
    <2> QED BY <2>1, <2>2
  <1>7. MasterInv' /\ ThreadInv' /\ ThreadsGrow /\ PlaceInv'
      BY <1>1, <1>3, <1>4, <1>5, <1>6, ThreadQuiet DEF Less
  <1>8. EntryInv' /\ CountInv'
      BY <1>1, <1>7, Frame, Zenon
  <1>9. AccepterInv'
    <2>1. \A i \in Islands : backlog'[i] = IF i = j THEN Append(backlog[j], c) ELSE backlog[i]
        BY <1>1, <1>2 DEF Types, AccepterInv
    <2>2. backlog' \in [Islands -> Seq(Nat)]
        BY <1>1, <1>2 DEF Types, AccepterInv
    <2>3. ASSUME NEW i \in Islands
          PROVE  \A n \in 1 .. Len(backlog'[i]) : backlog'[i][n] \in Conns'
      <3>1. /\ backlog[i] \in Seq(Nat)
            /\ \A n \in 1 .. Len(backlog[i]) : backlog[i][n] \in Conns'
          BY <1>4 DEF Types, AccepterInv, ConnsGrow
      <3>2. CASE i = j
        <4>1. backlog'[i] = Append(backlog[i], c) /\ c \in Conns'
            BY <1>4, <2>1, <3>2
        <4> QED BY <3>1, <4>1
      <3>3. CASE i # j
          BY <2>1, <3>1, <3>3
      <3> QED BY <3>2, <3>3
    <2> QED BY <1>1, <1>4, <2>2, <2>3 DEF Types, AccepterInv, ConnsGrow
  <1> QED BY <1>4, <1>7, <1>8, <1>9 DEF Types

\* A step of a thread that touches neither the connections nor the accepter.
LEMMA ThreadAlone ==
    ASSUME Types, PlaceInv, NEW t \in Threads, NEW e \in ThreadRecord,
           e.isle = thread[t].isle, ThreadOK(e, Conns), Less(thread[t].mail, e.mail),
           thread' = [thread EXCEPT ![t] = e],
           UNCHANGED <<requests, master, accepter, backlog, conn, received, sent,
                       resets, crashes>>,
           refusals' \in 0 .. MaxRefusals,
           connectsO' = connectsO \/ connectsO' = [connectsO EXCEPT ![e.isle] = None]
    PROVE  Types' /\ PlaceInv'
  <1>1. ConnInv' /\ ConnsGrow /\ WiresLess /\ Conns' = Conns
      BY Frame, StillLess DEF Conns
  <1>2. MasterInv' /\ ThreadInv' /\ ThreadsGrow /\ PlaceInv'
      BY <1>1, ThreadQuiet
  <1>3. EntryInv'
      BY <1>2 DEF Types, EntryInv, ThreadsGrow
  <1>4. AccepterInv'
      BY <1>1, Frame
  <1>5. CountInv'
      BY DEF Types, CountInv
  <1> QED BY <1>1, <1>2, <1>3, <1>4, <1>5 DEF Types

LEMMA DialFailsKeeps ==
    ASSUME Types, PlaceInv, NEW t \in Threads, DialFails(t)
    PROVE  Types' /\ PlaceInv'
  <1> DEFINE e == [thread[t] EXCEPT !.tries = @ - 1]
  <1>1. thread[t] \in ThreadRecord /\ ThreadOK(thread[t], Conns)
      BY ThreadFacts
  <1>2. /\ e \in ThreadRecord /\ e.isle = thread[t].isle /\ e.mail = thread[t].mail
        /\ e.conn = thread[t].conn /\ e.state = "dial"
        /\ thread' = [thread EXCEPT ![t] = e]
      BY <1>1, ConnectionsAssumption DEF DialFails, ThreadRecord
  <1>3. ThreadOK(e, Conns) /\ Less(thread[t].mail, e.mail)
      BY <1>1, <1>2 DEF ThreadOK, Less
  <1> HIDE DEF e
  <1>4. refusals' \in 0 .. MaxRefusals
      BY ConnectionsAssumption DEF DialFails, Types, CountInv
  <1>5. UNCHANGED <<requests, master, connectsO, accepter, backlog, conn, received,
                    sent, resets, crashes>>
      BY DEF DialFails, masters, accepters
  <1> QED BY <1>2, <1>3, <1>4, <1>5, ThreadAlone

LEMMA GiveUpKeeps ==
    ASSUME Types, PlaceInv, NEW t \in Threads, GiveUp(t) \/ Unregister(t)
    PROVE  Types' /\ PlaceInv'
  <1> DEFINE e == [thread[t] EXCEPT !.state = "dead", !.mail = <<>>]
  <1>1. thread[t] \in ThreadRecord /\ ThreadOK(thread[t], Conns)
      BY ThreadFacts
  <1>2. thread' = [thread EXCEPT ![t].state = "dead", ![t].mail = <<>>]
      BY DEF GiveUp, Unregister
  <1>3. /\ e \in ThreadRecord /\ e.isle = thread[t].isle /\ e.mail = <<>>
        /\ e.conn = thread[t].conn /\ e.state = "dead"
        /\ thread' = [thread EXCEPT ![t] = e]
    <2>1. <<>> \in Seq(Messages)
        OBVIOUS
    <2>2. thread' = [thread EXCEPT ![t] = e]
        BY <1>2
    <2> QED BY <1>1, <2>1, <2>2 DEF ThreadRecord
  <1>4. ThreadOK(e, Conns) /\ Less(thread[t].mail, e.mail)
      BY <1>1, <1>3 DEF ThreadOK, Less
  <1> HIDE DEF e
  <1>5. /\ UNCHANGED <<requests, master, accepter, backlog, conn, received, sent,
                       refusals, resets, crashes>>
        /\ connectsO' = [connectsO EXCEPT ![e.isle] = None]
      BY <1>3 DEF GiveUp, Unregister, masters, accepters, budget
  <1>6. refusals' \in 0 .. MaxRefusals
      BY <1>5 DEF Types, CountInv
  <1> QED BY <1>3, <1>4, <1>5, <1>6, ThreadAlone

LEMMA ShakeFailsKeeps ==
    ASSUME Types, PlaceInv, NEW t \in Threads, ShakeFails(t)
    PROVE  Types' /\ PlaceInv'
  <1>1. thread[t] \in ThreadRecord /\ ThreadOK(thread[t], Conns) /\ thread[t].tries > 0
      BY ThreadFacts DEF ShakeFails, ThreadOK
  <1>2. /\ UNCHANGED <<requests, master, connectsO, accepter, backlog, conn, received,
                       sent, refusals, resets, crashes>>
        /\ refusals' \in 0 .. MaxRefusals
      BY DEF ShakeFails, masters, accepters, budget, Types, CountInv
  <1>3. CASE thread' = [thread EXCEPT ![t].state = "dial", ![t].conn = None,
                                      ![t].tries = @ - 1]
    <2> DEFINE e == [thread[t] EXCEPT !.state = "dial", !.conn = None, !.tries = @ - 1]
    <2>1. /\ e \in ThreadRecord /\ e.isle = thread[t].isle /\ e.mail = thread[t].mail
          /\ e.conn = None /\ e.state = "dial" /\ thread' = [thread EXCEPT ![t] = e]
      <3>1. thread' = [thread EXCEPT ![t] = e]
          BY <1>3
      <3>2. thread[t].tries - 1 \in 0 .. Tries
          BY <1>1, ConnectionsAssumption DEF ThreadRecord
      <3> QED BY <1>1, <3>1, <3>2 DEF ThreadRecord
    <2>2. ThreadOK(e, Conns) /\ Less(thread[t].mail, e.mail)
        BY <2>1 DEF ThreadOK, Less
    <2> HIDE DEF e
    <2> QED BY <1>2, <2>1, <2>2, ThreadAlone
  <1>4. CASE thread' = [thread EXCEPT ![t].state = "dead", ![t].mail = <<>>]
    <2> DEFINE e == [thread[t] EXCEPT !.state = "dead", !.mail = <<>>]
    <2>1. /\ e \in ThreadRecord /\ e.isle = thread[t].isle /\ e.mail = <<>>
          /\ e.conn = thread[t].conn /\ e.state = "dead"
          /\ thread' = [thread EXCEPT ![t] = e]
      <3>1. thread' = [thread EXCEPT ![t] = e]
          BY <1>4
      <3>2. <<>> \in Seq(Messages)
          OBVIOUS
      <3> QED BY <1>1, <3>1, <3>2 DEF ThreadRecord
    <2>2. ThreadOK(e, Conns) /\ Less(thread[t].mail, e.mail)
        BY <1>1, <2>1 DEF ThreadOK, Less
    <2> HIDE DEF e
    <2> QED BY <1>2, <2>1, <2>2, ThreadAlone
  <1> QED BY <1>3, <1>4 DEF ShakeFails

LEMMA OutputSignalledKeeps ==
    ASSUME Types, PlaceInv, NEW t \in Threads, OutputSignalled(t)
    PROVE  Types' /\ PlaceInv'
  <1> DEFINE e == [thread[t] EXCEPT !.state = "exit"]
  <1>1. thread[t] \in ThreadRecord /\ ThreadOK(thread[t], Conns)
      BY ThreadFacts
  <1>2. /\ e \in ThreadRecord /\ e.isle = thread[t].isle /\ e.mail = thread[t].mail
        /\ e.conn = thread[t].conn /\ e.state = "exit"
        /\ thread' = [thread EXCEPT ![t] = e] /\ thread[t].state = "output"
      BY <1>1 DEF OutputSignalled, ThreadRecord
  <1>3. ThreadOK(e, Conns) /\ Less(thread[t].mail, e.mail)
      BY <1>1, <1>2 DEF ThreadOK, Less
  <1> HIDE DEF e
  <1>4. /\ UNCHANGED <<requests, master, connectsO, accepter, backlog, conn, received,
                       sent, resets, crashes>>
        /\ refusals' \in 0 .. MaxRefusals
      BY DEF OutputSignalled, masters, accepters, budget, Types, CountInv
  <1> QED BY <1>2, <1>3, <1>4, ThreadAlone

\* A step of a thread and of its end of a connection, where messages are lost.
LEMMA ThreadAndConn ==
    ASSUME Types, PlaceInv, NEW t \in Threads, NEW e \in ThreadRecord,
           NEW c \in Conns, NEW d \in ConnRecord,
           e.isle = thread[t].isle, ThreadOK(e, Conns), Less(thread[t].mail, e.mail),
           thread' = [thread EXCEPT ![t] = e], conn' = [conn EXCEPT ![c] = d],
           \A i \in Islands : Less(conn[c].wire[i], d.wire[i]),
           UNCHANGED <<requests, master, connectsO, accepter, backlog, received, sent,
                       refusals, resets, crashes>>
    PROVE  Types' /\ PlaceInv'
  <1>1. /\ ConnInv' /\ ConnsGrow /\ Conns' = Conns
        /\ \A k \in Conns : conn'[k] = IF k = c THEN d ELSE conn[k]
      BY ConnChange
  <1>2. WiresLess
      BY <1>1, ConnLess
  <1>3. MasterInv' /\ ThreadInv' /\ ThreadsGrow /\ PlaceInv'
      BY <1>1, <1>2, ThreadQuiet
  <1>4. EntryInv' /\ AccepterInv' /\ CountInv'
      BY <1>1, <1>3, Frame
  <1> QED BY <1>1, <1>3, <1>4 DEF Types

LEMMA ConnectedKeeps ==
    ASSUME Types, PlaceInv, NEW t \in Threads, Connected(t)
    PROVE  Types' /\ PlaceInv'
  <1>1. PICK c \in Conns, i \in Islands : c = thread[t].conn /\ i = thread[t].isle
      BY ThreadFacts DEF Connected
  <1> DEFINE e == [thread[t] EXCEPT !.state = "output"]
             d == [conn[c] EXCEPT !.input[i] = "live"]
  <1>2. /\ thread[t] \in ThreadRecord /\ ThreadOK(thread[t], Conns)
        /\ conn[c] \in ConnRecord
      BY ThreadFacts, ConnFacts
  <1>3. /\ e \in ThreadRecord /\ e.isle = thread[t].isle /\ e.mail = thread[t].mail
        /\ e.conn = thread[t].conn /\ e.state = "output"
        /\ thread' = [thread EXCEPT ![t] = e] /\ thread[t].state = "shake"
      BY <1>2 DEF Connected, ThreadRecord
  <1>4. ThreadOK(e, Conns) /\ Less(thread[t].mail, e.mail)
      BY <1>2, <1>3 DEF ThreadOK, Less
  <1>5. /\ d \in ConnRecord /\ d.wire = conn[c].wire
        /\ conn' = [conn EXCEPT ![c] = d]
      BY <1>1, <1>2 DEF Connected, ConnRecord
  <1>6. \A k \in Islands : Less(conn[c].wire[k], d.wire[k])
      BY <1>5 DEF Less
  <1> HIDE DEF e, d
  <1>7. UNCHANGED <<requests, master, connectsO, accepter, backlog, received, sent,
                    refusals, resets, crashes>>
      BY DEF Connected, masters, accepters, budget
  <1> QED BY <1>3, <1>4, <1>5, <1>6, <1>7, ThreadAndConn

LEMMA WriteFailsKeeps ==
    ASSUME Types, PlaceInv, NEW t \in Threads, WriteFails(t)
    PROVE  Types' /\ PlaceInv'
  <1>1. PICK c \in Conns, i \in Islands : c = thread[t].conn /\ i = thread[t].isle
      BY ThreadFacts DEF WriteFails
  <1>2. /\ thread[t] \in ThreadRecord /\ ThreadOK(thread[t], Conns)
        /\ conn[c] \in ConnRecord /\ thread[t].mail \in Seq(Messages)
        /\ thread[t].mail # <<>> /\ thread[t].state = "output"
      BY ThreadFacts, ConnFacts DEF WriteFails
  <1>3. Tail(thread[t].mail) \in Seq(Messages)
      BY <1>2
  <1>4. /\ UNCHANGED <<requests, master, connectsO, accepter, backlog, received, sent,
                       refusals, resets, crashes>>
        /\ refusals' \in 0 .. MaxRefusals
      BY DEF WriteFails, masters, accepters, budget, Types, CountInv
  <1>5. CASE /\ thread' = [thread EXCEPT ![t].mail = Tail(@)]
             /\ UNCHANGED conn
    <2> DEFINE e == [thread[t] EXCEPT !.mail = Tail(@)]
    <2>1. /\ e \in ThreadRecord /\ e.isle = thread[t].isle
          /\ e.mail = Tail(thread[t].mail) /\ e.conn = thread[t].conn
          /\ e.state = "output" /\ thread' = [thread EXCEPT ![t] = e]
      <3>1. thread' = [thread EXCEPT ![t] = e]
          BY <1>5
      <3> QED BY <1>2, <1>3, <3>1 DEF ThreadRecord
    <2>2. ThreadOK(e, Conns) /\ Less(thread[t].mail, e.mail)
        BY <1>2, <2>1 DEF ThreadOK, Less
    <2> HIDE DEF e
    <2> QED BY <1>4, <1>5, <2>1, <2>2, ThreadAlone
  <1>6. CASE /\ thread' = [thread EXCEPT ![t].state = "exit", ![t].mail = Tail(@)]
             /\ conn' = [conn EXCEPT ![c].exits[i] = @ + 1]
    <2> DEFINE e == [thread[t] EXCEPT !.state = "exit", !.mail = Tail(@)]
               d == [conn[c] EXCEPT !.exits[i] = @ + 1]
    <2>1. /\ e \in ThreadRecord /\ e.isle = thread[t].isle
          /\ e.mail = Tail(thread[t].mail) /\ e.conn = thread[t].conn
          /\ e.state = "exit" /\ thread' = [thread EXCEPT ![t] = e]
      <3>1. thread' = [thread EXCEPT ![t] = e]
          BY <1>6
      <3> QED BY <1>2, <1>3, <3>1 DEF ThreadRecord
    <2>2. ThreadOK(e, Conns) /\ Less(thread[t].mail, e.mail)
        BY <1>2, <2>1 DEF ThreadOK, Less
    <2>3. /\ d \in ConnRecord /\ d.wire = conn[c].wire
          /\ conn' = [conn EXCEPT ![c] = d]
      <3>1. conn' = [conn EXCEPT ![c] = d]
          BY <1>6
      <3>2. conn[c].exits \in [Islands -> Nat]
          BY <1>2 DEF ConnRecord
      <3>3. [conn[c].exits EXCEPT ![i] = @ + 1] \in [Islands -> Nat]
          BY <3>2
      <3> QED BY <1>2, <3>1, <3>3 DEF ConnRecord
    <2>4. \A k \in Islands : Less(conn[c].wire[k], d.wire[k])
        BY <2>3 DEF Less
    <2> HIDE DEF e, d
    <2> QED BY <1>4, <2>1, <2>2, <2>3, <2>4, ThreadAndConn
  <1> QED BY <1>1, <1>5, <1>6 DEF WriteFails

LEMMA WriteKeeps ==
    ASSUME Types, PlaceInv, NEW t \in Threads, Write(t)
    PROVE  Types' /\ PlaceInv'
  <1>1. PICK c \in Conns, i \in Islands : c = thread[t].conn /\ i = thread[t].isle
      BY ThreadFacts DEF Write
  <1>2. PICK j \in Islands : j = Other(i) /\ Other(j) = i
      BY Others
  <1>3. PICK m \in Messages : m = Head(thread[t].mail)
      BY ThreadFacts DEF Write
  <1> DEFINE e == [thread[t] EXCEPT !.mail = Tail(@)]
             d == [conn[c] EXCEPT !.wire[j] = Append(@, m)]
  <1>4. /\ thread[t] \in ThreadRecord /\ ThreadOK(thread[t], Conns)
        /\ conn[c] \in ConnRecord /\ thread[t].mail \in Seq(Messages)
        /\ thread[t].mail # <<>> /\ thread[t].state = "output"
        /\ conn[c].wire \in [Islands -> Seq(Messages)]
        /\ t \in Nat /\ c \in Nat
      BY ThreadFacts, ConnFacts DEF Write, ConnRecord
  <1>5. /\ UNCHANGED <<requests, master, connectsO, accepter, backlog, received, sent,
                       refusals, resets, crashes>>
        /\ thread' = [thread EXCEPT ![t] = e] /\ conn' = [conn EXCEPT ![c] = d]
      BY <1>1, <1>2, <1>3 DEF Write, masters, accepters, budget
  <1>6. /\ e \in ThreadRecord /\ e.isle = i /\ e.mail = Tail(thread[t].mail)
        /\ e.conn = thread[t].conn /\ e.state = "output"
    <2>1. Tail(thread[t].mail) \in Seq(Messages)
        BY <1>4
    <2> QED BY <1>1, <1>4, <2>1 DEF ThreadRecord
  <1>7. /\ d \in ConnRecord /\ d.wire[j] = Append(conn[c].wire[j], m)
        /\ \A k \in Islands : k # j => d.wire[k] = conn[c].wire[k]
    <2>1. Append(conn[c].wire[j], m) \in Seq(Messages)
        BY <1>4
    <2> QED BY <1>4, <2>1 DEF ConnRecord
  <1>8. ThreadOK(e, Conns)
      BY <1>4, <1>6 DEF ThreadOK
  <1> HIDE DEF e, d
  <1>9. /\ ConnInv' /\ ConnsGrow /\ Conns' = Conns
        /\ \A k \in Conns : conn'[k] = IF k = c THEN d ELSE conn[k]
      BY <1>5, <1>7, ConnChange
  <1>10. /\ ThreadInv' /\ ThreadsGrow /\ Threads' = Threads
         /\ \A u \in Threads : thread'[u] = IF u = t THEN e ELSE thread[u]
      BY <1>1, <1>5, <1>6, <1>8, <1>9, ThreadChange
  <1>11. MasterInv' /\ EntryInv' /\ AccepterInv' /\ CountInv'
      BY <1>5, <1>9, <1>10, Frame
  <1>12. /\ Mail(t, i) = thread[t].mail /\ Mail(t, i)' = Tail(thread[t].mail)
         /\ \A k \in Islands, n \in Nat : n # t \/ k # i => Mail(n, k)' = Mail(n, k)
      BY <1>1, <1>6, <1>10 DEF Mail
  <1>13. /\ Wire(c, j)' = Append(Wire(c, j), m)
         /\ \A k \in Islands, n \in Nat : n # c \/ k # j => Wire(n, k)' = Wire(n, k)
      BY <1>7, <1>9 DEF Wire
  <1>14. PlaceInv'
    <2> DEFINE q == Slot("mail", t, i)
               r == Slot("wire", c, j)
    <2>1. q \in Slots /\ r \in Slots /\ q # r
        BY <1>4, SlotFacts, SlotsDiffer
    <2>2. Source(q) = Source(r)
        BY <1>2 DEF Source, Slot
    <2>3. /\ Queues[q] # <<>> /\ Queues'[q] = Tail(Queues[q])
          /\ Queues'[r] = Append(Queues[r], Head(Queues[q]))
        BY <1>3, <1>4, <1>12, <1>13, QueueFacts DEF QueuesAre
    <2>4. \A k \in Slots \ {q, r} : Queues'[k] = Queues[k]
      <3>1. \A k \in Islands, n \in Nat :
               /\ Mail(n, k)' = Mail(n, k) \/ Slot("mail", n, k) \in {q, r}
               /\ Wire(n, k)' = Wire(n, k) \/ Slot("wire", n, k) \in {q, r}
          BY <1>12, <1>13
      <3> QED BY <1>5, <3>1, Elsewhere DEF Held
    <2> HIDE DEF q, r
    <2> QED BY <1>5, <2>1, <2>2, <2>3, <2>4, PlaceMove
  <1> QED BY <1>9, <1>10, <1>11, <1>14 DEF Types

-----------------------------------------------------------------------------
(* The steps of the accepter.                                               *)

LEMMA AcceptKeeps ==
    ASSUME Types, PlaceInv, NEW i \in Islands, Accept(i)
    PROVE  Types' /\ PlaceInv'
  <1>1. /\ UNCHANGED <<requests, master, connectsO, thread, conn, received, sent,
                       refusals, resets, crashes>>
        /\ accepter' = [accepter EXCEPT ![i].pc = "shake", ![i].conn = Head(backlog[i])]
        /\ backlog' = [backlog EXCEPT ![i] = Tail(@)] /\ backlog[i] # <<>>
        /\ accepter[i].pc = "accept"
      BY DEF Accept, masters, budget
  <1>2. MasterInv' /\ ThreadInv' /\ ConnInv' /\ CountInv' /\ ThreadsGrow /\ Conns' = Conns
      BY <1>1, Frame DEF Conns
  <1>3. /\ backlog[i] \in Seq(Nat) /\ Head(backlog[i]) \in Nat
        /\ Tail(backlog[i]) \in Seq(Nat)
        /\ \A n \in 1 .. Len(Tail(backlog[i])) :
              n + 1 \in 1 .. Len(backlog[i]) /\ Tail(backlog[i])[n] = backlog[i][n + 1]
        /\ Head(backlog[i]) = backlog[i][1] /\ 1 \in 1 .. Len(backlog[i])
      BY <1>1 DEF Types, AccepterInv
  <1>4. \A n \in 1 .. Len(backlog[i]) : backlog[i][n] \in Conns
      BY DEF Types, AccepterInv
  <1>5. /\ Head(backlog[i]) \in Conns /\ Head(backlog[i]) # None
        /\ \A n \in 1 .. Len(Tail(backlog[i])) : Tail(backlog[i])[n] \in Conns
      BY <1>3, <1>4, ConnectionsAssumption
  <1>6. /\ accepter[i] \in AccepterRecord /\ accepter \in [Islands -> AccepterRecord]
        /\ backlog \in [Islands -> Seq(Nat)]
      BY DEF Types, AccepterInv
  <1>7. /\ accepter' \in [Islands -> AccepterRecord]
        /\ accepter'[i].pc = "shake" /\ accepter'[i].conn = Head(backlog[i])
        /\ accepter'[i].out = accepter[i].out
        /\ \A j \in Islands : j # i => accepter'[j] = accepter[j]
      BY <1>1, <1>3, <1>6 DEF AccepterRecord
  <1>8. /\ backlog' \in [Islands -> Seq(Nat)] /\ backlog'[i] = Tail(backlog[i])
        /\ \A j \in Islands : j # i => backlog'[j] = backlog[j]
      BY <1>1, <1>3, <1>6
  <1>9. AccepterInv'
    <2>1. ASSUME NEW j \in Islands
          PROVE  /\ accepter'[j].conn # None => accepter'[j].conn \in Conns'
                 /\ accepter'[j].pc = "shake" => accepter'[j].conn # None
                 /\ accepter'[j].pc = "register" => accepter'[j].out # None
                 /\ \A n \in 1 .. Len(backlog'[j]) : backlog'[j][n] \in Conns'
      <3>1. CASE j = i
          BY <1>2, <1>5, <1>7, <1>8, <3>1
      <3>2. CASE j # i
          BY <1>2, <1>7, <1>8, <3>2 DEF Types, AccepterInv
      <3> QED BY <3>1, <3>2
    <2> QED BY <1>7, <1>8, <2>1 DEF AccepterInv
  <1>10. EntryInv'
      BY <1>1, <1>2, <1>7 DEF Types, EntryInv, ThreadsGrow
  <1>11. PlaceInv'
      BY <1>1, Quiet, StillLess
  <1> QED BY <1>2, <1>9, <1>10, <1>11 DEF Types

LEMMA AcceptFailsKeeps ==
    ASSUME Types, PlaceInv, NEW i \in Islands, AcceptFails(i)
    PROVE  Types' /\ PlaceInv'
  <1>1. /\ UNCHANGED <<requests, master, connectsO, thread, backlog, conn, received,
                       sent, refusals, resets, crashes>>
        /\ accepter' = [accepter EXCEPT ![i] = Listening]
      BY DEF AcceptFails, masters, budget
  <1>2. MasterInv' /\ ThreadInv' /\ ConnInv' /\ CountInv' /\ ThreadsGrow /\ Conns' = Conns
      BY <1>1, Frame DEF Conns
  <1>3. AccepterInv'
      BY <1>1, <1>2 DEF Types, AccepterInv, AccepterRecord, Listening
  <1>4. EntryInv'
      BY <1>1, <1>2 DEF Types, EntryInv, AccepterInv, ThreadsGrow, Listening
  <1>5. PlaceInv'
      BY <1>1, Quiet, StillLess
  <1> QED BY <1>2, <1>3, <1>4, <1>5 DEF Types

LEMMA SpawnKeeps ==
    ASSUME Types, PlaceInv, NEW i \in Islands, Spawn(i)
    PROVE  Types' /\ PlaceInv'
  <1>0. PICK n \in Nat \ {0} : n = Len(thread) + 1
      BY DEF Types, ThreadInv
  <1>1. PICK c \in Conns : c = accepter[i].conn
      BY DEF Spawn, Types, AccepterInv
  <1> DEFINE e == Thread(i, "output", c, <<>>)
             d == [conn[c] EXCEPT !.input[i] = "live"]
  <1>2. /\ UNCHANGED <<requests, master, connectsO, backlog, received, sent,
                       refusals, resets, crashes>>
        /\ thread' = Append(thread, e) /\ conn' = [conn EXCEPT ![c] = d]
        /\ accepter' = [accepter EXCEPT ![i].pc = "register", ![i].out = n]
      BY <1>0, <1>1 DEF Spawn, masters, budget
  <1>3. /\ e \in ThreadRecord /\ e.isle = i /\ e.mail = <<>> /\ e.conn = c
        /\ e.state = "output"
      BY <1>1, ConnectionsAssumption DEF Thread, ThreadRecord, Conns
  <1>4. d \in ConnRecord /\ d.wire = conn[c].wire
    <2>1. conn[c] \in ConnRecord
        BY ConnFacts
    <2> QED BY <2>1 DEF ConnRecord
  <1> HIDE DEF e, d
  <1>5. /\ ConnInv' /\ ConnsGrow /\ Conns' = Conns
        /\ \A k \in Conns : conn'[k] = IF k = c THEN d ELSE conn[k]
      BY <1>2, <1>4, ConnChange
  <1>6. ThreadOK(e, Conns')
    <2>1. c # None
        BY ConnectionsAssumption DEF Conns
    <2> QED BY <1>3, <1>5, <2>1 DEF ThreadOK
  <1>7. /\ ThreadInv' /\ ThreadsGrow /\ Threads' = Threads \cup {n} /\ thread'[n] = e
        /\ \A u \in Threads : thread'[u] = thread[u] /\ u # n
      BY <1>0, <1>2, <1>3, <1>5, <1>6, ThreadNew
  <1>8. MasterInv' /\ CountInv'
      BY <1>2, Frame
  <1>9. /\ accepter' \in [Islands -> AccepterRecord]
        /\ accepter'[i].pc = "register" /\ accepter'[i].conn = c
        /\ accepter'[i].out = n
        /\ \A j \in Islands : j # i => accepter'[j] = accepter[j]
      BY <1>1, <1>2 DEF Types, AccepterInv, AccepterRecord
  <1>10. AccepterInv'
    <2>1. n # None
        BY ConnectionsAssumption
    <2>2. backlog' = backlog /\ backlog \in [Islands -> Seq(Nat)]
        BY <1>2 DEF Types, AccepterInv
    <2>3. ASSUME NEW j \in Islands
          PROVE  /\ accepter'[j].conn # None => accepter'[j].conn \in Conns'
                 /\ accepter'[j].pc = "shake" => accepter'[j].conn # None
                 /\ accepter'[j].pc = "register" => accepter'[j].out # None
                 /\ \A k \in 1 .. Len(backlog'[j]) : backlog'[j][k] \in Conns'
      <3>1. \A k \in 1 .. Len(backlog'[j]) : backlog'[j][k] \in Conns'
          BY <1>5, <2>2 DEF Types, AccepterInv
      <3>2. CASE j = i
          BY <1>5, <1>9, <2>1, <3>1, <3>2
      <3>3. CASE j # i
          BY <1>5, <1>9, <3>1, <3>3 DEF Types, AccepterInv
      <3> QED BY <3>2, <3>3
    <2>4. accepter' \in [Islands -> AccepterRecord] /\ backlog' \in [Islands -> Seq(Nat)]
        BY <1>9, <2>2
    <2> QED BY <2>3, <2>4 DEF AccepterInv
  <1>11. EntryInv'
    <2>1. /\ connectsO' = connectsO /\ connectsO \in [Islands -> Nat \cup {None}]
          /\ \A j \in Islands : connectsO[j] # None =>
                connectsO[j] \in Threads /\ thread[connectsO[j]].isle = j
        BY <1>2 DEF Types, EntryInv
    <2>2. \A j \in Islands : connectsO[j] # None =>
             connectsO[j] \in Threads' /\ thread'[connectsO[j]].isle = j
        BY <1>7, <2>1
    <2>3. ASSUME NEW j \in Islands, accepter'[j].out # None
          PROVE  accepter'[j].out \in Threads' /\ thread'[accepter'[j].out].isle = j
      <3>1. CASE j = i
          BY <1>3, <1>7, <1>9, <3>1
      <3>2. CASE j # i
        <4>1. accepter[j].out \in Threads /\ thread[accepter[j].out].isle = j
            BY <1>9, <2>3, <3>2 DEF Types, EntryInv
        <4> QED BY <1>7, <1>9, <3>2, <4>1
      <3> QED BY <3>1, <3>2
    <2> QED BY <2>1, <2>2, <2>3 DEF EntryInv
  <1>12. PlaceInv'
    <2>1. WiresLess
        BY <1>4, <1>5, ConnLess DEF Less
    <2>2. MailsLess
        BY <1>3, <1>7 DEF MailsLess, Mail, Less
    <2> QED BY <1>2, <2>1, <2>2, Quiet
  <1> QED BY <1>5, <1>7, <1>8, <1>10, <1>11, <1>12 DEF Types

LEMMA RegisterKeeps ==
    ASSUME Types, PlaceInv, NEW i \in Islands, Register(i)
    PROVE  Types' /\ PlaceInv'
  <1>1. /\ UNCHANGED <<requests, master, thread, backlog, conn, received,
                       sent, refusals, resets, crashes>>
        /\ accepter' = [accepter EXCEPT ![i] = Listening]
        /\ connectsO' = [connectsO EXCEPT ![i] = accepter[i].out]
        /\ accepter[i].pc = "register"
      BY DEF Register, masters, budget
  <1>2. MasterInv' /\ ThreadInv' /\ ConnInv' /\ CountInv' /\ ThreadsGrow /\ Conns' = Conns
      BY <1>1, Frame DEF Conns
  <1>3. AccepterInv'
      BY <1>1, <1>2 DEF Types, AccepterInv, AccepterRecord, Listening
  <1>4. accepter[i].out \in Threads /\ thread[accepter[i].out].isle = i /\ accepter[i].out \in Nat
      BY <1>1 DEF Types, AccepterInv, EntryInv, Threads
  <1>5. EntryInv'
      BY <1>1, <1>2, <1>4 DEF Types, EntryInv, AccepterInv, ThreadsGrow, Listening
  <1>6. PlaceInv'
      BY <1>1, Quiet, StillLess
  <1> QED BY <1>2, <1>3, <1>5, <1>6 DEF Types

-----------------------------------------------------------------------------
(* The steps of input threads, the network and the machines.                *)

LEMMA ReadKeeps ==
    ASSUME Types, PlaceInv, NEW c \in Conns, NEW i \in Islands, Read(c, i)
    PROVE  Types' /\ PlaceInv'
  <1>1. /\ conn[c] \in ConnRecord /\ conn[c].wire \in [Islands -> Seq(Messages)]
        /\ conn[c].wire[i] \in Seq(Messages) /\ conn[c].wire[i] # <<>> /\ c \in Nat
      BY ConnFacts DEF Read, ConnRecord
  <1>2. PICK m \in Messages : m = Head(conn[c].wire[i])
      BY <1>1
  <1> DEFINE d == [conn[c] EXCEPT !.wire[i] = Tail(@)]
  <1>3. /\ UNCHANGED <<requests, master, connectsO, thread, accepter, backlog, sent,
                       refusals, resets, crashes>>
        /\ received' = [received EXCEPT ![i] = Append(@, m)]
        /\ conn' = [conn EXCEPT ![c] = d]
      BY <1>2 DEF Read, masters, accepters, budget
  <1>4. /\ d \in ConnRecord /\ d.wire[i] = Tail(conn[c].wire[i])
        /\ \A k \in Islands : k # i => d.wire[k] = conn[c].wire[k]
    <2>1. Tail(conn[c].wire[i]) \in Seq(Messages)
        BY <1>1
    <2> QED BY <1>1, <2>1 DEF ConnRecord
  <1> HIDE DEF d
  <1>5. /\ ConnInv' /\ ConnsGrow /\ Conns' = Conns
        /\ \A k \in Conns : conn'[k] = IF k = c THEN d ELSE conn[k]
      BY <1>3, <1>4, ConnChange
  <1>6. ThreadsGrow
      BY <1>3, Frame
  <1>7. MasterInv' /\ EntryInv' /\ ThreadInv' /\ AccepterInv'
      BY <1>3, <1>5, <1>6, Frame
  <1>8. /\ received \in [Islands -> Seq(Messages)]
        /\ received' \in [Islands -> Seq(Messages)]
        /\ received'[i] = Append(received[i], m)
        /\ \A k \in Islands : k # i => received'[k] = received[k]
      BY <1>3 DEF Types, CountInv
  <1>9. CountInv'
      BY <1>3, <1>8 DEF Types, CountInv
  <1>10. /\ Wire(c, i) = conn[c].wire[i] /\ Wire(c, i)' = Tail(conn[c].wire[i])
         /\ \A k \in Islands, n \in Nat : n # c \/ k # i => Wire(n, k)' = Wire(n, k)
      BY <1>4, <1>5 DEF Wire
  <1>11. PlaceInv'
    <2> DEFINE q == Slot("wire", c, i)
               r == Slot("received", 0, i)
    <2>1. q \in Slots /\ r \in Slots /\ q # r /\ Source(q) = Source(r)
        BY <1>1, SlotFacts, SlotsDiffer DEF Source, Slot
    <2>2. /\ Queues[q] # <<>> /\ Queues'[q] = Tail(Queues[q])
          /\ Queues'[r] = Append(Queues[r], Head(Queues[q]))
        BY <1>1, <1>2, <1>8, <1>10, QueueFacts DEF QueuesAre
    <2>3. \A k \in Slots \ {q, r} : Queues'[k] = Queues[k]
      <3>1. \A k \in Islands, n \in Nat :
               Wire(n, k)' = Wire(n, k) \/ Slot("wire", n, k) \in {q, r}
          BY <1>10
      <3>2. \A k \in Islands :
               received'[k] = received[k] \/ Slot("received", 0, k) \in {q, r}
          BY <1>8
      <3> QED BY <1>3, <3>1, <3>2, Elsewhere DEF Held, Mail, Threads
    <2> HIDE DEF q, r
    <2> QED BY <1>3, <2>1, <2>2, <2>3, PlaceMove
  <1> QED BY <1>5, <1>7, <1>9, <1>11 DEF Types

\* A step of a connection alone, where messages are lost.
LEMMA ConnAlone ==
    ASSUME Types, PlaceInv, NEW c \in Conns, NEW d \in ConnRecord,
           conn' = [conn EXCEPT ![c] = d],
           \A i \in Islands : Less(conn[c].wire[i], d.wire[i]),
           UNCHANGED <<requests, master, connectsO, thread, accepter, backlog,
                       received, sent>>,
           CountInv'
    PROVE  Types' /\ PlaceInv'
  <1>1. /\ ConnInv' /\ ConnsGrow /\ Conns' = Conns
        /\ \A k \in Conns : conn'[k] = IF k = c THEN d ELSE conn[k]
      BY ConnChange
  <1>2. WiresLess /\ MailsLess
      BY <1>1, ConnLess, StillLess
  <1>3. ThreadsGrow
      BY Frame
  <1>4. MasterInv' /\ EntryInv' /\ ThreadInv' /\ AccepterInv'
      BY <1>1, <1>3, Frame
  <1>5. PlaceInv'
      BY <1>2, Quiet
  <1> QED BY <1>1, <1>4, <1>5 DEF Types

LEMMA InputEndsKeeps ==
    ASSUME Types, PlaceInv, NEW c \in Conns, NEW i \in Islands,
           ReadFails(c, i) \/ InputSignalled(c, i)
    PROVE  Types' /\ PlaceInv'
  <1>1. /\ conn[c] \in ConnRecord /\ conn[c].wire \in [Islands -> Seq(Messages)]
        /\ conn[c].exits \in [Islands -> Nat]
      BY ConnFacts DEF ConnRecord
  <1>2. PICK x \in [Islands -> Nat] :
           conn' = [conn EXCEPT ![c] = [conn[c] EXCEPT !.input[i] = "dead",
                                          !.exits = x, !.wire[i] = <<>>]]
    <2>1. CASE ReadFails(c, i)
      <3>1. [conn[c].exits EXCEPT ![i] = @ + 1] \in [Islands -> Nat]
          BY <1>1
      <3>2. conn' = [conn EXCEPT ![c] =
                      [conn[c] EXCEPT !.input[i] = "dead",
                         !.exits = [conn[c].exits EXCEPT ![i] = @ + 1],
                         !.wire[i] = <<>>]]
          BY <1>1, <2>1 DEF ReadFails, ConnRecord
      <3> QED BY <3>1, <3>2
    <2>2. CASE InputSignalled(c, i)
      <3>1. conn' = [conn EXCEPT ![c] =
                      [conn[c] EXCEPT !.input[i] = "dead",
                         !.exits = conn[c].exits, !.wire[i] = <<>>]]
          BY <1>1, <2>2 DEF InputSignalled, ConnRecord
      <3> QED BY <1>1, <3>1
    <2> QED BY <2>1, <2>2
  <1> DEFINE d == [conn[c] EXCEPT !.input[i] = "dead", !.exits = x, !.wire[i] = <<>>]
  <1>3. /\ d \in ConnRecord /\ d.wire[i] = <<>>
        /\ \A k \in Islands : k # i => d.wire[k] = conn[c].wire[k]
    <2>1. <<>> \in Seq(Messages)
        OBVIOUS
    <2> QED BY <1>1, <2>1 DEF ConnRecord
  <1>4. \A k \in Islands : Less(conn[c].wire[k], d.wire[k])
      BY <1>3 DEF Less
  <1>5. UNCHANGED <<requests, master, connectsO, thread, accepter, backlog, received,
                    sent, refusals, resets, crashes>>
      BY DEF ReadFails, InputSignalled, masters, accepters, budget
  <1>6. CountInv'
      BY <1>5, Frame
  <1> HIDE DEF d
  <1> QED BY <1>2, <1>3, <1>4, <1>5, <1>6, ConnAlone DEF d

LEMMA ResetKeeps ==
    ASSUME Types, PlaceInv, NEW c \in Conns, Reset(c)
    PROVE  Types' /\ PlaceInv'
  <1> DEFINE d == [conn[c] EXCEPT !.reset = TRUE, !.wire = NewConn.wire]
  <1>1. conn[c] \in ConnRecord
      BY ConnFacts
  <1>2. NewConn.wire \in [Islands -> Seq(Messages)]
        /\ \A i \in Islands : NewConn.wire[i] = <<>>
      BY DEF NewConn
  <1>3. d \in ConnRecord /\ d.wire = NewConn.wire
      BY <1>1, <1>2 DEF ConnRecord
  <1>4. /\ UNCHANGED <<requests, master, connectsO, thread, accepter, backlog,
                       received, sent>>
        /\ conn' = [conn EXCEPT ![c] = d]
      BY DEF Reset, masters, accepters
  <1>5. CountInv'
      BY ConnectionsAssumption DEF Reset, Types, CountInv, masters
  <1>6. \A k \in Islands : Less(conn[c].wire[k], d.wire[k])
      BY <1>2, <1>3 DEF Less
  <1> HIDE DEF d
  <1> QED BY <1>3, <1>4, <1>5, <1>6, ConnAlone

LEMMA CrashKeeps ==
    ASSUME Types, PlaceInv, NEW i \in Islands, Crash(i)
    PROVE  Types' /\ PlaceInv'
  <1>0. <<>> \in Seq(Messages) /\ <<>> \in Seq(Nat)
      OBVIOUS
  <1>1. CountInv'
    <2>1. /\ resets + crashes < MaxFaults /\ crashes' = crashes + 1
          /\ UNCHANGED <<received, sent, refusals, resets>>
        BY DEF Crash
    <2>2. MaxFaults \in Nat
        BY ConnectionsAssumption
    <2> QED BY <2>1, <2>2 DEF Types, CountInv
  <1>2. MasterInv'
      BY <1>0 DEF Crash, Types, MasterInv, Ready
  <1>3. /\ Len(conn) \in Nat /\ Len(thread) \in Nat
        /\ thread \in Seq(ThreadRecord) /\ conn \in Seq(ConnRecord)
      BY DEF Types, ThreadInv, ConnInv
  <1>4. /\ conn' \in Seq(ConnRecord) /\ Conns' = Conns
        /\ \A c \in Conns, k \in Islands :
              conn'[c].wire[k] = IF k = i THEN <<>> ELSE conn[c].wire[k]
    <2> DEFINE d(c) == [conn[c] EXCEPT !.wire[i] = <<>>,
                                       !.input[i] = IF @ = "live" THEN "dead" ELSE @]
    <2>1. ASSUME NEW c \in Conns
          PROVE  /\ d(c) \in ConnRecord
                 /\ \A k \in Islands : d(c).wire[k] = IF k = i THEN <<>> ELSE conn[c].wire[k]
      <3>1. /\ conn[c] \in ConnRecord /\ conn[c].wire \in [Islands -> Seq(Messages)]
            /\ conn[c].input \in [Islands -> {"none", "live", "dead"}]
          BY ConnFacts DEF ConnRecord
      <3> QED BY <1>0, <3>1 DEF ConnRecord
    <2>2. conn' = [c \in 1 .. Len(conn) |-> d(c)]
        BY DEF Crash, Conns
    <2> HIDE DEF d
    <2>3. conn' \in Seq(ConnRecord) /\ Len(conn') = Len(conn)
        BY <1>3, <2>1, <2>2 DEF Conns
    <2> QED BY <2>1, <2>2, <2>3 DEF Conns
  <1>5. /\ thread' \in Seq(ThreadRecord) /\ Threads' = Threads
        /\ \A t \in Threads :
              /\ thread'[t].isle = thread[t].isle /\ ThreadOK(thread'[t], Conns)
              /\ thread'[t].mail \in {thread[t].mail, <<>>}
    <2> DEFINE e(t) == IF thread[t].isle # i THEN thread[t]
                       ELSE [thread[t] EXCEPT !.state = "dead", !.mail = <<>>]
    <2>1. ASSUME NEW t \in Threads
          PROVE  /\ e(t) \in ThreadRecord /\ e(t).isle = thread[t].isle
                 /\ ThreadOK(e(t), Conns) /\ e(t).mail \in {thread[t].mail, <<>>}
      <3>1. thread[t] \in ThreadRecord /\ ThreadOK(thread[t], Conns)
          BY ThreadFacts
      <3>2. CASE thread[t].isle # i
          BY <3>1, <3>2
      <3>3. CASE thread[t].isle = i
          BY <1>0, <3>1, <3>3 DEF ThreadRecord, ThreadOK
      <3> QED BY <3>2, <3>3
    <2>2. thread' = [t \in 1 .. Len(thread) |-> e(t)]
        BY DEF Crash, Threads
    <2> HIDE DEF e
    <2>3. thread' \in Seq(ThreadRecord) /\ Len(thread') = Len(thread)
        BY <1>3, <2>1, <2>2 DEF Threads
    <2> QED BY <2>1, <2>2, <2>3 DEF Threads
  <1>6. ConnInv' /\ ThreadInv' /\ ThreadsGrow
      BY <1>4, <1>5 DEF ConnInv, ThreadInv, ThreadsGrow
  <1>7. AccepterInv'
    <2>1. /\ accepter' = [accepter EXCEPT ![i] = Listening]
          /\ backlog' = [backlog EXCEPT ![i] = <<>>]
        BY DEF Crash
    <2>2. accepter' \in [Islands -> AccepterRecord] /\ backlog' \in [Islands -> Seq(Nat)]
        BY <1>0, <2>1 DEF Types, AccepterInv, AccepterRecord, Listening
    <2>3. ASSUME NEW j \in Islands
          PROVE  /\ accepter'[j].conn # None => accepter'[j].conn \in Conns'
                 /\ accepter'[j].pc = "shake" => accepter'[j].conn # None
                 /\ accepter'[j].pc = "register" => accepter'[j].out # None
                 /\ \A n \in 1 .. Len(backlog'[j]) : backlog'[j][n] \in Conns'
      <3>1. CASE j = i
          BY <2>1, <3>1 DEF Listening, Types, AccepterInv
      <3>2. CASE j # i
          BY <1>4, <2>1, <3>2 DEF Types, AccepterInv
      <3> QED BY <3>1, <3>2
    <2> QED BY <2>2, <2>3 DEF AccepterInv
  <1>8. EntryInv'
      BY <1>6 DEF Crash, Types, EntryInv, AccepterInv, ThreadsGrow, Listening
  <1>9. MailsLess
      BY <1>5 DEF MailsLess, Mail, Less
  <1>10. WiresLess
      BY <1>4 DEF WiresLess, Wire, Less
  <1>11. \A k \in Islands : /\ Less(requests[k], requests'[k])
                            /\ Less(Held(k), Held(k)')
                            /\ Less(received[k], received'[k])
      BY DEF Crash, Types, MasterInv, Held, Ready, Less
  <1>12. PlaceInv'
      BY <1>9, <1>10, <1>11, PlaceDrop DEF Crash, MailsLess, WiresLess
  <1> QED BY <1>1, <1>2, <1>6, <1>7, <1>8, <1>12 DEF Types

-----------------------------------------------------------------------------
(* The invariants of the specification.                                     *)

LEMMA InitKeeps == Init => Types /\ PlaceInv
  <1> SUFFICES ASSUME Init PROVE Types /\ PlaceInv
      OBVIOUS
  <1>1. MasterInv /\ EntryInv /\ AccepterInv
      BY ConnectionsAssumption
      DEF Init, MasterInv, EntryInv, AccepterInv, AccepterRecord, Ready, Listening
  <1>2. ThreadInv /\ ConnInv
      BY DEF Init, ThreadInv, ConnInv, Threads
  <1>3. CountInv
      BY ConnectionsAssumption DEF Init, CountInv
  <1>4. ASSUME NEW q \in Slots PROVE Queues[q] = <<>>
    <2>1. PICK i \in Islands :
            \/ q = Slot("request", 0, i) \/ q = Slot("master", 0, i)
            \/ q = Slot("received", 0, i)
            \/ \E n \in Nat : q = Slot("mail", n, i) \/ q = Slot("wire", n, i)
        BY SlotFacts
    <2>2. /\ requests[i] = <<>> /\ Held(i) = <<>> /\ received[i] = <<>>
          /\ \A n \in Nat : Mail(n, i) = <<>> /\ Wire(n, i) = <<>>
        BY DEF Init, Held, Ready, Mail, Wire, Threads, Conns
    <2> QED BY <2>1, <2>2, QueueFacts, Zenon DEF QueuesAre
  <1>5. PlaceInv
      BY <1>4, NoPosition DEF PlaceInv, Placed
  <1> QED BY <1>1, <1>2, <1>3, <1>5 DEF Types

LEMMA NextKeeps == Types /\ PlaceInv /\ [Next]_vars => Types' /\ PlaceInv'
  <1> SUFFICES ASSUME Types, PlaceInv, [Next]_vars PROVE Types' /\ PlaceInv'
      OBVIOUS
  <1>1. ASSUME NEW m \in Messages, Request(m) PROVE Types' /\ PlaceInv'
      BY <1>1, RequestKeeps
  <1>2. ASSUME NEW i \in Islands, MasterStep(i) PROVE Types' /\ PlaceInv'
      BY <1>2, HasKeyKeeps, ForwardKeeps, ConnectKeeps DEF MasterStep
  <1>3. ASSUME NEW i \in Islands, AccepterStep(i) PROVE Types' /\ PlaceInv'
      BY <1>3, AcceptKeeps, AcceptFailsKeeps, SpawnKeeps, RegisterKeeps DEF AccepterStep
  <1>4. ASSUME NEW i \in Islands, Crash(i) PROVE Types' /\ PlaceInv'
      BY <1>4, CrashKeeps
  <1>5. ASSUME NEW t \in Threads, ThreadStep(t) PROVE Types' /\ PlaceInv'
      BY <1>5, DialKeeps, GiveUpKeeps, ConnectedKeeps, ShakeFailsKeeps, WriteKeeps,
         WriteFailsKeeps, OutputSignalledKeeps DEF ThreadStep
  <1>6. ASSUME NEW t \in Threads, DialFails(t) PROVE Types' /\ PlaceInv'
      BY <1>6, DialFailsKeeps
  <1>7. ASSUME NEW c \in Conns, Reset(c) PROVE Types' /\ PlaceInv'
      BY <1>7, ResetKeeps
  <1>8. ASSUME NEW c \in Conns, NEW i \in Islands, InputStep(c, i)
        PROVE  Types' /\ PlaceInv'
      BY <1>8, ReadKeeps, InputEndsKeeps DEF InputStep
  <1>9. CASE UNCHANGED vars
    <2>1. UNCHANGED <<requests, master, connectsO, thread, accepter, backlog, conn,
                      received, sent, refusals, resets, crashes>>
        BY <1>9 DEF vars
    <2>2. ThreadsGrow /\ ConnsGrow
        BY <2>1, Frame
    <2>3. Types'
        BY <2>1, <2>2, Frame DEF Types
    <2>4. PlaceInv'
        BY <2>1, Quiet, StillLess
    <2> QED BY <2>3, <2>4
  <1> QED BY <1>1, <1>2, <1>3, <1>4, <1>5, <1>6, <1>7, <1>8, <1>9 DEF Next

\* The types, and that a message is at one position of one queue: what the theorems
\* below follow from.
THEOREM ConnectionsInvariant == Spec => [](Types /\ PlaceInv)
  BY InitKeeps, NextKeeps, PTL DEF Spec

LEMMA TypesTypeOK == Types => TypeOK
  <1> SUFFICES ASSUME Types PROVE TypeOK
      OBVIOUS
  <1>1. requests \in [Islands -> Seq(Messages)]
        /\ master \in [Islands -> [pc : {"ready", "present", "absent"},
                                   message : Messages \cup {None}]]
      BY DEF Types, MasterInv
  <1>2. connectsO \in [Islands -> Threads \cup {None}]
      BY DEF Types, EntryInv
  <1>3. ASSUME NEW t \in Threads
        PROVE  thread[t] \in
          [isle : Islands, state : {"dial", "shake", "output", "exit", "dead"},
           tries : 0 .. Tries, conn : Conns \cup {None}, mail : Seq(Messages)]
      BY ThreadFacts DEF ThreadRecord, ThreadOK
  <1>4. accepter \in [Islands -> [pc : {"accept", "shake", "register"},
                                  conn : Conns \cup {None}, out : Threads \cup {None}]]
      BY DEF Types, AccepterInv, EntryInv, AccepterRecord
  <1>5. ASSUME NEW i \in Islands PROVE backlog[i] \in Seq(Conns)
    <2>1. /\ backlog[i] \in Seq(Nat)
          /\ \A n \in 1 .. Len(backlog[i]) : backlog[i][n] \in Conns
        BY DEF Types, AccepterInv
    <2> QED BY <2>1
  <1>6. backlog \in [Islands -> Seq(Conns)]
      BY <1>5 DEF Types, AccepterInv
  <1>7. /\ received \in [Islands -> Seq(Messages)] /\ sent \subseteq Messages
        /\ refusals \in 0 .. MaxRefusals
        /\ resets \in Nat /\ crashes \in Nat /\ resets + crashes <= MaxFaults
      BY DEF Types, CountInv
  <1> QED BY <1>1, <1>2, <1>3, <1>4, <1>6, <1>7 DEF TypeOK

\* What a message in a queue says of AtMostOnce.
LEMMA PlacedOnce == Types /\ PlaceInv => AtMostOnce
  <1> SUFFICES ASSUME Types, PlaceInv, NEW i \in Islands
               PROVE  /\ IsInjective(received[i])
                      /\ \A m \in ToSet(received[i]) : m \in sent /\ From[m] = Other(i)
      BY DEF AtMostOnce
  <1> DEFINE q == Slot("received", 0, i)
  <1>1. q \in Slots /\ Queues[q] = received[i] /\ Source(q) = Other(i)
      BY SlotFacts, QueueFacts DEF QueuesAre, Source, Slot
  <1>2. received[i] \in Seq(Messages)
      BY DEF Types, CountInv
  <1>3. \A a, b \in Positions(received[i]) : received[i][a] = received[i][b] => a = b
      BY <1>1 DEF PlaceInv, Placed
  <1>4. \A a \in Positions(received[i]) :
           received[i][a] \in sent /\ From[received[i][a]] = Other(i)
      BY <1>1 DEF PlaceInv, Placed
  <1>5. IsInjective(received[i])
      BY <1>2, <1>3 DEF IsInjective, Positions
  <1>6. \A m \in ToSet(received[i]) : m \in sent /\ From[m] = Other(i)
      BY <1>4 DEF ToSet, Positions
  <1> QED BY <1>5, <1>6

\* Type correctness, with any messages and any number of threads, connections,
\* refusals and faults.
THEOREM ConnectionsTypeCorrect == Spec => []TypeOK
  BY ConnectionsInvariant, TypesTypeOK, PTL

\* A message is received once at most, by the island it is for, whatever
\* connections are refused, reset and made anew and whichever islands crash: a
\* message leaves one mailbox when it enters the next, and none is sent twice.
THEOREM AtMostOnceHolds == Spec => []AtMostOnce
  BY ConnectionsInvariant, PlacedOnce, PTL

-----------------------------------------------------------------------------
(* The entries are active until something fails.  As long as no connection  *)
(* is reset and no island crashes, both ends of a connection stay open: the *)
(* dialing end is its thread's, the other waits in the backlog, then the    *)
(* accepter has it, then an input thread.  So no handshake and no i/o       *)
(* thread fails, and the only threads to end are those that give up.        *)

CalmConns ==
    \A c \in Conns : /\ ~conn[c].reset
                     /\ \A i \in Islands : /\ conn[c].exits[i] = 0
                                           /\ conn[c].input[i] # "dead"

CalmOpen == \A c \in Conns, i \in Islands : Open(c, i)

CalmThreads == \A t \in Threads : thread[t].state # "exit"

CalmAccepter ==
    \A i \in Islands :
       /\ accepter[i].pc = "accept" => accepter[i].conn = None
       /\ accepter[i].out # None => thread[accepter[i].out].state = "output"
       /\ accepter[i].pc = "register" =>
             accepter[i].conn \in Conns /\ conn[accepter[i].conn].input[i] = "live"

Calm == CalmConns /\ CalmOpen /\ CalmThreads /\ CalmAccepter /\ EntriesActive

CalmInv == resets = 0 /\ crashes = 0 => Calm

\* The steps that need a failure are not taken.
LEMMA NoFailure ==
    ASSUME Types, Calm
    PROVE  /\ \A t \in Threads : ~ShakeFails(t) /\ ~WriteFails(t)
                                 /\ ~OutputSignalled(t) /\ ~Unregister(t)
           /\ \A i \in Islands : ~AcceptFails(i)
           /\ \A c \in Conns, i \in Islands : ~ReadFails(c, i) /\ ~InputSignalled(c, i)
  <1>1. \A c \in Conns, i \in Islands :
           /\ ~conn[c].reset /\ conn[c].exits[i] = 0 /\ Open(c, Other(i))
      BY Others DEF Calm, CalmConns, CalmOpen
  <1>2. ASSUME NEW t \in Threads
        PROVE  ~ShakeFails(t) /\ ~WriteFails(t) /\ ~OutputSignalled(t) /\ ~Unregister(t)
    <2>1. thread[t].isle \in Islands /\ thread[t].state # "exit"
        BY ThreadFacts DEF Calm, CalmThreads
    <2>2. CASE thread[t].state \in {"shake", "output"}
      <3>1. PICK c \in Conns, i \in Islands : c = thread[t].conn /\ i = thread[t].isle
          BY <2>1, <2>2, ThreadFacts
      <3>2. ~conn[c].reset /\ conn[c].exits[i] = 0 /\ Open(c, Other(i))
          BY <1>1
      <3>3. ~ShakeFails(t)
          BY <3>1, <3>2 DEF ShakeFails
      <3>4. ~WriteFails(t)
          BY <3>1, <3>2 DEF WriteFails
      <3>5. ~OutputSignalled(t)
          BY <3>1, <3>2 DEF OutputSignalled
      <3>6. ~Unregister(t)
          BY <2>1 DEF Unregister
      <3> QED BY <3>3, <3>4, <3>5, <3>6
    <2>3. CASE thread[t].state \notin {"shake", "output"}
        BY <2>1, <2>3 DEF ShakeFails, WriteFails, OutputSignalled, Unregister
    <2> QED BY <2>2, <2>3
  <1>3. ASSUME NEW i \in Islands PROVE ~AcceptFails(i)
    <2>1. accepter[i].pc = "shake" => accepter[i].conn \in Conns
        BY DEF Types, AccepterInv
    <2> QED BY <1>1, <2>1 DEF AcceptFails
  <1>4. ASSUME NEW c \in Conns, NEW i \in Islands
        PROVE  ~ReadFails(c, i) /\ ~InputSignalled(c, i)
      BY <1>1 DEF ReadFails, InputSignalled
  <1> QED BY <1>2, <1>3, <1>4

\* A thread that changes keeps its end open and its connection.
LEMMA CalmThreadStep ==
    ASSUME Types, Calm, NEW t \in Threads, NEW e \in ThreadRecord,
           e.isle = thread[t].isle, thread' = [thread EXCEPT ![t] = e],
           e.state # "exit",
           thread[t].state \in {"shake", "output"} =>
              e.state \in {thread[t].state, "output"} /\ e.conn = thread[t].conn,
           e.state = "dead" => connectsO' = [connectsO EXCEPT ![e.isle] = None],
           e.state # "dead" => connectsO' = connectsO,
           UNCHANGED accepter, ConnsGrow,
           \A i \in Islands : \A n \in 1 .. Len(backlog[i]) :
              \E m \in 1 .. Len(backlog'[i]) : backlog'[i][m] = backlog[i][n],
           \A c \in Conns, i \in Islands :
              conn[c].input[i] = "live" => conn'[c].input[i] = "live"
    PROVE  /\ CalmThreads' /\ CalmAccepter' /\ EntriesActive'
           /\ \A c \in Conns, i \in Islands : Open(c, i)'
  <1>1. /\ Threads' = Threads /\ thread[t] \in ThreadRecord
        /\ \A u \in Threads : thread'[u] = IF u = t THEN e ELSE thread[u]
      BY DEF Types, ThreadInv, Threads
  <1>2. CalmThreads'
      BY <1>1 DEF Calm, CalmThreads
  <1>3. ASSUME NEW i \in Islands, connectsO'[i] # None
        PROVE  thread'[connectsO'[i]].state # "dead"
    <2>1. connectsO[i] # None /\ connectsO'[i] = connectsO[i]
        BY <1>3 DEF Types, EntryInv
    <2>2. /\ connectsO[i] \in Threads /\ thread[connectsO[i]].isle = i
          /\ thread[connectsO[i]].state # "dead"
        BY <2>1 DEF Types, EntryInv, Calm, EntriesActive
    <2>3. CASE e.state = "dead"
      <3>1. connectsO[i] # t
          BY <1>3, <2>2, <2>3 DEF Types, EntryInv
      <3> QED BY <1>1, <2>1, <2>2, <3>1
    <2>4. CASE e.state # "dead"
        BY <1>1, <2>1, <2>2, <2>4
    <2> QED BY <2>3, <2>4
  <1>4. ASSUME NEW i \in Islands
        PROVE  /\ accepter'[i].pc = "accept" => accepter'[i].conn = None
               /\ accepter'[i].out # None => thread'[accepter'[i].out].state = "output"
               /\ accepter'[i].pc = "register" =>
                     /\ accepter'[i].conn \in Conns'
                     /\ conn'[accepter'[i].conn].input[i] = "live"
    <2>1. accepter'[i].pc = "accept" => accepter'[i].conn = None
        BY DEF Calm, CalmAccepter
    <2>2. ASSUME accepter[i].out # None
          PROVE  thread'[accepter[i].out].state = "output"
      <3>1. accepter[i].out \in Threads /\ thread[accepter[i].out].state = "output"
          BY <2>2 DEF Types, EntryInv, Calm, CalmAccepter
      <3> QED BY <1>1, <3>1
    <2>3. ASSUME accepter[i].pc = "register"
          PROVE  /\ accepter[i].conn \in Conns'
                 /\ conn'[accepter[i].conn].input[i] = "live"
      <3>1. accepter[i].conn \in Conns /\ conn[accepter[i].conn].input[i] = "live"
          BY <2>3 DEF Calm, CalmAccepter
      <3> QED BY <3>1 DEF ConnsGrow
    <2> QED BY <2>1, <2>2, <2>3
  <1>5. ASSUME NEW c \in Conns, NEW i \in Islands PROVE Open(c, i)'
    <2>1. Open(c, i)
        BY DEF Calm, CalmOpen
    <2>2. CASE \E n \in 1 .. Len(backlog[i]) : backlog[i][n] = c
        BY <2>2 DEF Open
    <2>3. CASE accepter[i].conn = c
        BY <2>3 DEF Open
    <2>4. CASE conn[c].input[i] = "live"
        BY <2>4 DEF Open
    <2>5. ASSUME NEW u \in Threads, thread[u].isle = i, thread[u].conn = c,
                 thread[u].state \in {"shake", "output"}
          PROVE  Open(c, i)'
      <3>1. /\ u \in Threads' /\ thread'[u].isle = i /\ thread'[u].conn = c
            /\ thread'[u].state \in {"shake", "output"}
          BY <1>1, <2>5
      <3> QED BY <3>1 DEF Open
    <2> QED BY <2>1, <2>2, <2>3, <2>4, <2>5 DEF Open
  <1> QED BY <1>2, <1>3, <1>4, <1>5 DEF CalmAccepter, EntriesActive

\* A step of sendmaster: a thread may be new, or have more mail.
LEMMA CalmMasterStep ==
    ASSUME Types, Calm, NEW i \in Islands, MasterStep(i)
    PROVE  Calm'
  <1>1. UNCHANGED <<accepter, backlog, conn>> /\ Conns' = Conns
      BY DEF MasterStep, HasKey, Forward, Connect, accepters, Conns
  <1>2. /\ Threads \subseteq Threads'
        /\ \A u \in Threads : /\ thread'[u].state = thread[u].state
                              /\ thread'[u].isle = thread[u].isle
                              /\ thread'[u].conn = thread[u].conn
        /\ \A u \in Threads' \ Threads : thread'[u].state = "dial"
        /\ \/ connectsO' = connectsO
           \/ \E n \in Threads' : /\ connectsO' = [connectsO EXCEPT ![i] = n]
                                  /\ thread'[n].state = "dial"
    <2>1. CASE HasKey(i)
        BY <2>1 DEF HasKey, Threads
    <2>2. CASE Forward(i)
      <3>1. connectsO' = connectsO
          BY <2>2 DEF Forward
      <3>2. CASE thread' = thread
          BY <3>1, <3>2 DEF Threads
      <3>3. CASE /\ connectsO[i] # None
                 /\ thread' = [thread EXCEPT ![connectsO[i]].mail =
                                 Append(@, master[i].message)]
        <4>1. PICK t \in Threads :
                 thread' = [thread EXCEPT ![t] =
                              [thread[t] EXCEPT !.mail = Append(@, master[i].message)]]
            BY <3>3 DEF Types, EntryInv
        <4>2. thread \in Seq(ThreadRecord) /\ thread[t] \in ThreadRecord
            BY ThreadFacts DEF Types, ThreadInv
        <4>3. Threads' = Threads
            BY <4>1, <4>2 DEF Threads
        <4>4. ASSUME NEW u \in Threads
              PROVE  /\ thread'[u].state = thread[u].state
                     /\ thread'[u].isle = thread[u].isle
                     /\ thread'[u].conn = thread[u].conn
            BY <4>1, <4>2 DEF Threads, ThreadRecord
        <4> QED BY <3>1, <4>3, <4>4
      <3> QED BY <2>2, <3>2, <3>3 DEF Forward
    <2>3. CASE Connect(i)
      <3> DEFINE e == Thread(i, "dial", None, <<master[i].message>>)
      <3>1. PICK n \in Nat \ {0} : n = Len(thread) + 1
          BY DEF Types, ThreadInv
      <3>2. thread' = Append(thread, e) /\ connectsO' = [connectsO EXCEPT ![i] = n]
          BY <2>3, <3>1 DEF Connect
      <3>3. e.state = "dial" /\ thread \in Seq(ThreadRecord)
          BY DEF Thread, Types, ThreadInv
      <3>4. master[i].message \in Messages
          BY <2>3 DEF Connect, Types, MasterInv
      <3>5. e \in ThreadRecord
          BY <3>4, ConnectionsAssumption DEF Thread, ThreadRecord
      <3> HIDE DEF e
      <3>6. /\ Threads' = Threads \cup {n} /\ thread'[n] = e
            /\ \A u \in Threads : thread'[u] = thread[u] /\ u # n
          BY <3>1, <3>2, <3>3, <3>5 DEF Threads
      <3> QED BY <3>2, <3>3, <3>6
    <2> QED BY <2>1, <2>2, <2>3 DEF MasterStep
  <1>3. CalmConns' /\ CalmThreads'
      BY <1>1, <1>2 DEF Calm, CalmConns, CalmThreads
  <1>4. CalmAccepter'
    <2> SUFFICES ASSUME NEW j \in Islands, accepter[j].out # None
                 PROVE  thread'[accepter[j].out].state = "output"
        BY <1>1 DEF Calm, CalmAccepter
    <2>1. accepter[j].out \in Threads /\ thread[accepter[j].out].state = "output"
        BY DEF Types, EntryInv, Calm, CalmAccepter
    <2> QED BY <1>2, <2>1
  <1>5. CalmOpen'
    <2> SUFFICES ASSUME NEW c \in Conns, NEW j \in Islands PROVE Open(c, j)'
        BY <1>1 DEF CalmOpen
    <2>1. Open(c, j)
        BY DEF Calm, CalmOpen
    <2>2. ASSUME NEW u \in Threads, thread[u].isle = j, thread[u].conn = c,
                 thread[u].state \in {"shake", "output"}
          PROVE  Open(c, j)'
      <3>1. /\ u \in Threads' /\ thread'[u].isle = j /\ thread'[u].conn = c
            /\ thread'[u].state \in {"shake", "output"}
          BY <1>2, <2>2
      <3> QED BY <3>1 DEF Open
    <2> QED BY <1>1, <2>1, <2>2 DEF Open
  <1>6. EntriesActive'
    <2> SUFFICES ASSUME NEW j \in Islands, connectsO'[j] # None
                 PROVE  thread'[connectsO'[j]].state # "dead"
        BY DEF EntriesActive
    <2>1. CASE connectsO'[j] = connectsO[j]
      <3>1. connectsO[j] \in Threads /\ thread[connectsO[j]].state # "dead"
          BY <2>1 DEF Types, EntryInv, Calm, EntriesActive
      <3> QED BY <1>2, <2>1, <3>1
    <2>2. CASE connectsO'[j] # connectsO[j]
        BY <1>2, <2>2 DEF Types, EntryInv
    <2> QED BY <2>1, <2>2
  <1> QED BY <1>3, <1>4, <1>5, <1>6 DEF Calm

LEMMA CalmDial ==
    ASSUME Types, Calm, NEW t \in Threads, Dial(t)
    PROVE  Calm'
  <1>0. PICK c \in Nat \ {0} : c = Len(conn) + 1
      BY DEF Types, ConnInv
  <1>1. PICK i \in Islands, j \in Islands :
           i = thread[t].isle /\ j = Other(i) /\ \A k \in Islands : k \in {i, j}
      BY ThreadFacts, Others
  <1> DEFINE e == [thread[t] EXCEPT !.state = "shake", !.conn = c]
  <1>2. /\ conn' = Append(conn, NewConn) /\ thread[t].state = "dial"
        /\ backlog' = [backlog EXCEPT ![j] = Append(@, c)]
        /\ UNCHANGED <<connectsO, accepter>>
        /\ thread' = [thread EXCEPT ![t].state = "shake", ![t].conn = c]
      BY <1>0, <1>1 DEF Dial
  <1>3. /\ e \in ThreadRecord /\ e.isle = i /\ e.conn = c /\ e.state = "shake"
        /\ thread' = [thread EXCEPT ![t] = e]
    <2>1. thread[t] \in ThreadRecord
        BY ThreadFacts
    <2>2. thread' = [thread EXCEPT ![t] = e]
        BY <1>2
    <2> QED BY <1>1, <2>1, <2>2 DEF ThreadRecord
  <1>4. /\ ConnsGrow /\ Conns' = Conns \cup {c} /\ conn'[c] = NewConn
        /\ \A d \in Conns : conn'[d] = conn[d] /\ d # c
      BY <1>0, <1>2, ConnNew
  <1> HIDE DEF e
  <1>5. backlog[j] \in Seq(Nat) /\ backlog \in [Islands -> Seq(Nat)]
      BY DEF Types, AccepterInv
  <1>6. ASSUME NEW k \in Islands, NEW n \in 1 .. Len(backlog[k])
        PROVE  \E m \in 1 .. Len(backlog'[k]) : backlog'[k][m] = backlog[k][n]
    <2>1. CASE k = j
      <3>1. n \in 1 .. Len(Append(backlog[j], c)) /\ Append(backlog[j], c)[n] = backlog[j][n]
          BY <1>5, <2>1
      <3> QED BY <1>2, <1>5, <2>1, <3>1
    <2>2. CASE k # j
        BY <1>2, <1>5, <2>2
    <2> QED BY <2>1, <2>2
  <1>7. /\ CalmThreads' /\ CalmAccepter' /\ EntriesActive'
        /\ \A d \in Conns, k \in Islands : Open(d, k)'
    <2>1. \A k \in Islands : \A n \in 1 .. Len(backlog[k]) :
             \E m \in 1 .. Len(backlog'[k]) : backlog'[k][m] = backlog[k][n]
        BY <1>6
    <2>2. \A d \in Conns, k \in Islands :
             conn[d].input[k] = "live" => conn'[d].input[k] = "live"
        BY <1>4
    <2>3. /\ e.isle = thread[t].isle /\ e.state \notin {"exit", "dead"}
          /\ thread[t].state \notin {"shake", "output"}
        BY <1>1, <1>2, <1>3
    <2>4. connectsO' = connectsO /\ UNCHANGED accepter
        BY <1>2
    <2> QED BY <1>3, <1>4, <2>1, <2>2, <2>3, <2>4, CalmThreadStep
  <1>8. CalmConns'
      BY <1>4 DEF Calm, CalmConns, NewConn
  <1>9. Open(c, i)'
    <2>1. t \in Threads' /\ thread'[t] = e
      <3>1. thread \in Seq(ThreadRecord)
          BY DEF Types, ThreadInv
      <3> QED BY <1>3, <3>1 DEF Threads
    <2> QED BY <1>3, <2>1 DEF Open
  <1>10. Open(c, j)'
    <2>1. /\ Len(Append(backlog[j], c)) \in 1 .. Len(Append(backlog[j], c))
          /\ Append(backlog[j], c)[Len(Append(backlog[j], c))] = c
        BY <1>5
    <2>2. backlog'[j] = Append(backlog[j], c)
        BY <1>2, <1>5
    <2> QED BY <2>1, <2>2 DEF Open
  <1>11. CalmOpen'
      BY <1>1, <1>4, <1>7, <1>9, <1>10 DEF CalmOpen
  <1> QED BY <1>7, <1>8, <1>11 DEF Calm

\* A step of a thread that leaves the backlogs and no connection worse off.
LEMMA CalmThreadAlone ==
    ASSUME Types, Calm, NEW t \in Threads, NEW e \in ThreadRecord,
           e.isle = thread[t].isle, thread' = [thread EXCEPT ![t] = e],
           e.state # "exit",
           thread[t].state \in {"shake", "output"} =>
              e.state \in {thread[t].state, "output"} /\ e.conn = thread[t].conn,
           e.state = "dead" => connectsO' = [connectsO EXCEPT ![e.isle] = None],
           e.state # "dead" => connectsO' = connectsO,
           UNCHANGED <<accepter, backlog>>, Conns' = Conns,
           \A c \in Conns : /\ conn'[c].reset = conn[c].reset
                            /\ conn'[c].exits = conn[c].exits
                            /\ \A i \in Islands : conn'[c].input[i] \in {conn[c].input[i], "live"}
    PROVE  Calm'
  <1>1. \A i \in Islands : \A n \in 1 .. Len(backlog[i]) :
           \E m \in 1 .. Len(backlog'[i]) : backlog'[i][m] = backlog[i][n]
      OBVIOUS
  <1>2. ConnsGrow
      BY DEF ConnsGrow
  <1>3. \A c \in Conns, i \in Islands :
           conn[c].input[i] = "live" => conn'[c].input[i] = "live"
      OBVIOUS
  <1>4. UNCHANGED accepter
      OBVIOUS
  <1>5. /\ CalmThreads' /\ CalmAccepter' /\ EntriesActive'
        /\ \A c \in Conns, i \in Islands : Open(c, i)'
      BY <1>1, <1>2, <1>3, <1>4, CalmThreadStep
  <1>6. CalmConns'
      BY DEF Calm, CalmConns
  <1> QED BY <1>5, <1>6 DEF Calm, CalmOpen

LEMMA CalmThread ==
    ASSUME Types, Calm, NEW t \in Threads, ThreadStep(t) \/ DialFails(t)
    PROVE  Calm'
  <1>0. thread[t] \in ThreadRecord /\ <<>> \in Seq(Messages)
      BY ThreadFacts
  <1>1. CASE DialFails(t)
    <2> DEFINE e == [thread[t] EXCEPT !.tries = @ - 1]
    <2>1. thread[t].state = "dial" /\ thread' = [thread EXCEPT ![t] = e]
        BY <1>1 DEF DialFails
    <2>2. /\ e \in ThreadRecord /\ e.isle = thread[t].isle /\ e.state = "dial"
        BY <1>0, <1>1, <2>1, ConnectionsAssumption DEF DialFails, ThreadRecord
    <2>3. UNCHANGED <<connectsO, accepter, backlog, conn>> /\ Conns' = Conns
        BY <1>1 DEF DialFails, accepters, Conns
    <2> HIDE DEF e
    <2> QED BY <2>1, <2>2, <2>3, CalmThreadAlone
  <1>2. CASE GiveUp(t)
    <2> DEFINE e == [thread[t] EXCEPT !.state = "dead", !.mail = <<>>]
    <2>1. thread[t].state = "dial" /\ thread' = [thread EXCEPT ![t] = e]
        BY <1>2 DEF GiveUp
    <2>2. /\ e \in ThreadRecord /\ e.isle = thread[t].isle /\ e.state = "dead"
        BY <1>0 DEF ThreadRecord
    <2>3. /\ UNCHANGED <<accepter, backlog, conn>> /\ Conns' = Conns
          /\ connectsO' = [connectsO EXCEPT ![thread[t].isle] = None]
        BY <1>2 DEF GiveUp, accepters, Conns
    <2> HIDE DEF e
    <2> QED BY <2>1, <2>2, <2>3, CalmThreadAlone
  <1>3. CASE Connected(t)
    <2>1. PICK c \in Conns, i \in Islands : c = thread[t].conn /\ i = thread[t].isle
        BY <1>3, ThreadFacts DEF Connected
    <2> DEFINE e == [thread[t] EXCEPT !.state = "output"]
               d == [conn[c] EXCEPT !.input[i] = "live"]
    <2>2. /\ thread[t].state = "shake" /\ thread' = [thread EXCEPT ![t] = e]
          /\ conn' = [conn EXCEPT ![c] = d]
          /\ UNCHANGED <<connectsO, accepter, backlog>>
        BY <1>3, <2>1 DEF Connected, accepters
    <2>3. /\ e \in ThreadRecord /\ e.isle = thread[t].isle /\ e.state = "output"
          /\ e.conn = thread[t].conn
        BY <1>0 DEF ThreadRecord
    <2>4. /\ d \in ConnRecord /\ d.reset = conn[c].reset /\ d.exits = conn[c].exits
          /\ \A k \in Islands : d.input[k] \in {conn[c].input[k], "live"}
      <3>1. conn[c] \in ConnRecord
          BY ConnFacts
      <3> QED BY <3>1 DEF ConnRecord
    <2> HIDE DEF e, d
    <2>5. Conns' = Conns /\ \A k \in Conns : conn'[k] = IF k = c THEN d ELSE conn[k]
        BY <2>2, <2>4, ConnChange
    <2>6. \A k \in Conns : /\ conn'[k].reset = conn[k].reset
                           /\ conn'[k].exits = conn[k].exits
                           /\ \A n \in Islands : conn'[k].input[n] \in {conn[k].input[n], "live"}
        BY <2>4, <2>5
    <2> QED BY <2>2, <2>3, <2>5, <2>6, CalmThreadAlone
  <1>4. CASE Write(t)
    <2>1. PICK c \in Conns, j \in Islands : c = thread[t].conn /\ j = Other(thread[t].isle)
        BY <1>4, ThreadFacts, Others DEF Write
    <2>2. /\ thread[t].state = "output" /\ thread[t].mail # <<>>
          /\ thread' = [thread EXCEPT ![t].mail = Tail(@)]
          /\ conn' = [conn EXCEPT ![c].wire[j] = Append(@, Head(thread[t].mail))]
          /\ UNCHANGED <<connectsO, accepter, backlog>>
        BY <1>4, <2>1 DEF Write, accepters
    <2>3. thread[t].mail \in Seq(Messages)
        BY ThreadFacts
    <2>4. Tail(thread[t].mail) \in Seq(Messages) /\ Head(thread[t].mail) \in Messages
        BY <2>2, <2>3
    <2> DEFINE e == [thread[t] EXCEPT !.mail = Tail(@)]
               d == [conn[c] EXCEPT !.wire[j] = Append(@, Head(thread[t].mail))]
    <2>5. thread' = [thread EXCEPT ![t] = e] /\ conn' = [conn EXCEPT ![c] = d]
        BY <2>2
    <2>6. /\ e \in ThreadRecord /\ e.isle = thread[t].isle /\ e.state = "output"
          /\ e.conn = thread[t].conn
        BY <1>0, <2>2, <2>4 DEF ThreadRecord
    <2>7. /\ d \in ConnRecord /\ d.reset = conn[c].reset /\ d.exits = conn[c].exits
          /\ d.input = conn[c].input
      <3>1. conn[c] \in ConnRecord /\ conn[c].wire[j] \in Seq(Messages)
          BY ConnFacts
      <3>2. Append(conn[c].wire[j], Head(thread[t].mail)) \in Seq(Messages)
          BY <2>4, <3>1
      <3> QED BY <3>1, <3>2 DEF ConnRecord
    <2> HIDE DEF e, d
    <2>8. Conns' = Conns /\ \A k \in Conns : conn'[k] = IF k = c THEN d ELSE conn[k]
        BY <2>5, <2>7, ConnChange
    <2>9. \A k \in Conns : /\ conn'[k].reset = conn[k].reset
                           /\ conn'[k].exits = conn[k].exits
                           /\ \A n \in Islands : conn'[k].input[n] \in {conn[k].input[n], "live"}
        BY <2>7, <2>8
    <2> QED BY <2>2, <2>5, <2>6, <2>8, <2>9, CalmThreadAlone
  <1> QED BY <1>1, <1>2, <1>3, <1>4, CalmDial, NoFailure DEF ThreadStep

LEMMA CalmAccept ==
    ASSUME Types, Calm, NEW i \in Islands, Accept(i)
    PROVE  Calm'
  <1>1. /\ UNCHANGED <<connectsO, thread, conn>> /\ backlog[i] # <<>>
        /\ accepter' = [accepter EXCEPT ![i].pc = "shake", ![i].conn = Head(backlog[i])]
        /\ backlog' = [backlog EXCEPT ![i] = Tail(@)] /\ accepter[i].pc = "accept"
      BY DEF Accept
  <1>2. Conns' = Conns /\ Threads' = Threads
      BY <1>1 DEF Conns, Threads
  <1>3. CalmConns' /\ CalmThreads' /\ EntriesActive'
      BY <1>1, <1>2 DEF Calm, CalmConns, CalmThreads, EntriesActive
  <1>4. /\ accepter \in [Islands -> AccepterRecord] /\ accepter[i].conn = None
        /\ backlog \in [Islands -> Seq(Nat)] /\ backlog[i] \in Seq(Nat)
      BY <1>1 DEF Types, AccepterInv, Calm, CalmAccepter
  <1>5. /\ accepter'[i].pc = "shake" /\ accepter'[i].conn = Head(backlog[i])
        /\ accepter'[i].out = accepter[i].out
        /\ \A j \in Islands : j # i => accepter'[j] = accepter[j] /\ backlog'[j] = backlog[j]
        /\ backlog'[i] = Tail(backlog[i])
      BY <1>1, <1>4 DEF AccepterRecord
  <1>6. CalmAccepter'
    <2> SUFFICES ASSUME NEW j \in Islands
                 PROVE  /\ accepter'[j].pc = "accept" => accepter'[j].conn = None
                        /\ accepter'[j].out # None => thread[accepter'[j].out].state = "output"
                        /\ accepter'[j].pc = "register" =>
                              /\ accepter'[j].conn \in Conns
                              /\ conn[accepter'[j].conn].input[j] = "live"
        BY <1>1, <1>2 DEF CalmAccepter
    <2>1. CASE j = i
        BY <1>5, <2>1 DEF Calm, CalmAccepter
    <2>2. CASE j # i
        BY <1>5, <2>2 DEF Calm, CalmAccepter
    <2> QED BY <2>1, <2>2
  <1>7. CalmOpen'
    <2> SUFFICES ASSUME NEW c \in Conns, NEW j \in Islands PROVE Open(c, j)'
        BY <1>2 DEF CalmOpen
    <2>1. Open(c, j)
        BY DEF Calm, CalmOpen
    <2>2. CASE j # i
        BY <1>1, <1>2, <1>5, <2>1, <2>2 DEF Open
    <2>3. CASE j = i
      <3>1. ASSUME NEW n \in 1 .. Len(backlog[i]), backlog[i][n] = c
            PROVE  Open(c, i)'
        <4>1. CASE n = 1
          <5>1. accepter'[i].conn = c
              BY <1>1, <1>4, <1>5, <3>1, <4>1
          <5> QED BY <5>1 DEF Open
        <4>2. CASE n # 1
          <5>1. n - 1 \in 1 .. Len(Tail(backlog[i])) /\ Tail(backlog[i])[n - 1] = c
              BY <1>1, <1>4, <3>1, <4>2
          <5>2. \E m \in 1 .. Len(backlog'[i]) : backlog'[i][m] = c
              BY <1>5, <5>1
          <5> QED BY <5>2 DEF Open
        <4> QED BY <4>1, <4>2
      <3>2. accepter[i].conn # c
          BY <1>4, ConnectionsAssumption DEF Conns
      <3> QED BY <1>1, <1>2, <2>1, <2>3, <3>1, <3>2 DEF Open
    <2> QED BY <2>2, <2>3
  <1> QED BY <1>3, <1>6, <1>7 DEF Calm

LEMMA CalmSpawn ==
    ASSUME Types, Calm, NEW i \in Islands, Spawn(i)
    PROVE  Calm'
  <1>0. PICK n \in Nat \ {0} : n = Len(thread) + 1
      BY DEF Types, ThreadInv
  <1>1. PICK c \in Conns : c = accepter[i].conn
      BY DEF Spawn, Types, AccepterInv
  <1> DEFINE e == Thread(i, "output", c, <<>>)
             d == [conn[c] EXCEPT !.input[i] = "live"]
  <1>2. /\ UNCHANGED <<connectsO, backlog>>
        /\ thread' = Append(thread, e) /\ conn' = [conn EXCEPT ![c] = d]
        /\ accepter' = [accepter EXCEPT ![i].pc = "register", ![i].out = n]
      BY <1>0, <1>1 DEF Spawn
  <1>3. e \in ThreadRecord /\ e.state = "output"
      BY ConnectionsAssumption DEF Thread, ThreadRecord, Conns
  <1>4. /\ d \in ConnRecord /\ d.reset = conn[c].reset /\ d.exits = conn[c].exits
        /\ d.input[i] = "live"
        /\ \A k \in Islands : d.input[k] \in {conn[c].input[k], "live"}
    <2>1. conn[c] \in ConnRecord
        BY ConnFacts
    <2> QED BY <2>1 DEF ConnRecord
  <1> HIDE DEF e, d
  <1>5. Conns' = Conns /\ \A k \in Conns : conn'[k] = IF k = c THEN d ELSE conn[k]
      BY <1>2, <1>4, ConnChange
  <1>6. /\ Threads' = Threads \cup {n} /\ thread'[n] = e
        /\ \A u \in Threads : thread'[u] = thread[u] /\ u # n
    <2>1. thread \in Seq(ThreadRecord)
        BY DEF Types, ThreadInv
    <2> QED BY <1>0, <1>2, <1>3, <2>1 DEF Threads
  <1>7. /\ accepter'[i].pc = "register" /\ accepter'[i].conn = c
        /\ accepter'[i].out = n
        /\ \A j \in Islands : j # i => accepter'[j] = accepter[j]
      BY <1>1, <1>2 DEF Types, AccepterInv, AccepterRecord
  <1>8. CalmConns'
    <2> SUFFICES ASSUME NEW k \in Conns, NEW j \in Islands
                 PROVE  /\ ~conn'[k].reset /\ conn'[k].exits[j] = 0
                        /\ conn'[k].input[j] # "dead"
        BY <1>5, Others DEF CalmConns
    <2>1. ~conn[k].reset /\ conn[k].exits[j] = 0 /\ conn[k].input[j] # "dead"
        BY DEF Calm, CalmConns
    <2>2. CASE k = c
        BY <1>4, <1>5, <2>1, <2>2
    <2>3. CASE k # c
        BY <1>5, <2>1, <2>3
    <2> QED BY <2>2, <2>3
  <1>9. CalmThreads'
      BY <1>3, <1>6 DEF Calm, CalmThreads
  <1>10. \A k \in Conns, j \in Islands :
            conn[k].input[j] = "live" => conn'[k].input[j] = "live"
      BY <1>4, <1>5
  <1>11. CalmAccepter'
    <2> SUFFICES ASSUME NEW j \in Islands
                 PROVE  /\ accepter'[j].pc = "accept" => accepter'[j].conn = None
                        /\ accepter'[j].out # None => thread'[accepter'[j].out].state = "output"
                        /\ accepter'[j].pc = "register" =>
                              /\ accepter'[j].conn \in Conns
                              /\ conn'[accepter'[j].conn].input[j] = "live"
        BY <1>5 DEF CalmAccepter
    <2>1. CASE j = i
        BY <1>3, <1>4, <1>5, <1>6, <1>7, <2>1
    <2>2. CASE j # i
      <3>1. /\ accepter[j].pc = "accept" => accepter[j].conn = None
            /\ accepter[j].out # None =>
                  accepter[j].out \in Threads /\ thread[accepter[j].out].state = "output"
            /\ accepter[j].pc = "register" =>
                  accepter[j].conn \in Conns /\ conn[accepter[j].conn].input[j] = "live"
          BY DEF Types, EntryInv, Calm, CalmAccepter
      <3> QED BY <1>6, <1>7, <1>10, <2>2, <3>1
    <2> QED BY <2>1, <2>2
  <1>12. EntriesActive'
    <2> SUFFICES ASSUME NEW j \in Islands, connectsO[j] # None
                 PROVE  thread'[connectsO[j]].state # "dead"
        BY <1>2 DEF EntriesActive
    <2>1. connectsO[j] \in Threads /\ thread[connectsO[j]].state # "dead"
        BY DEF Types, EntryInv, Calm, EntriesActive
    <2> QED BY <1>6, <2>1
  <1>13. CalmOpen'
    <2> SUFFICES ASSUME NEW k \in Conns, NEW j \in Islands PROVE Open(k, j)'
        BY <1>5 DEF CalmOpen
    <2>1. Open(k, j)
        BY DEF Calm, CalmOpen
    <2>2. CASE accepter[j].conn = k
      <3>1. accepter'[j].conn = k
          BY <1>1, <1>7, <2>2
      <3> QED BY <3>1 DEF Open
    <2>3. CASE \E m \in 1 .. Len(backlog[j]) : backlog[j][m] = k
        BY <1>2, <2>3 DEF Open
    <2>4. CASE conn[k].input[j] = "live"
        BY <1>10, <2>4 DEF Open
    <2>5. ASSUME NEW u \in Threads, thread[u].isle = j, thread[u].conn = k,
                 thread[u].state \in {"shake", "output"}
          PROVE  Open(k, j)'
      <3>1. u \in Threads' /\ thread'[u] = thread[u]
          BY <1>6
      <3> QED BY <2>5, <3>1 DEF Open
    <2> QED BY <2>1, <2>2, <2>3, <2>4, <2>5 DEF Open
  <1> QED BY <1>8, <1>9, <1>11, <1>12, <1>13 DEF Calm

LEMMA CalmRegister ==
    ASSUME Types, Calm, NEW i \in Islands, Register(i)
    PROVE  Calm'
  <1>1. /\ UNCHANGED <<thread, backlog, conn>> /\ accepter[i].pc = "register"
        /\ accepter' = [accepter EXCEPT ![i] = Listening]
        /\ connectsO' = [connectsO EXCEPT ![i] = accepter[i].out]
      BY DEF Register
  <1>2. Conns' = Conns /\ Threads' = Threads
      BY <1>1 DEF Conns, Threads
  <1>3. CalmConns' /\ CalmThreads'
      BY <1>1, <1>2 DEF Calm, CalmConns, CalmThreads
  <1>4. /\ accepter'[i] = Listening
        /\ \A j \in Islands : j # i => accepter'[j] = accepter[j] /\ connectsO'[j] = connectsO[j]
        /\ connectsO'[i] = accepter[i].out
      BY <1>1 DEF Types, AccepterInv, EntryInv
  <1>5. CalmAccepter'
      BY <1>1, <1>2, <1>4 DEF Calm, CalmAccepter, Listening
  <1>6. /\ thread[accepter[i].out].state = "output"
        /\ accepter[i].conn \in Conns /\ conn[accepter[i].conn].input[i] = "live"
      BY <1>1 DEF Calm, CalmAccepter, Types, AccepterInv
  <1>7. EntriesActive'
    <2> SUFFICES ASSUME NEW j \in Islands, connectsO'[j] # None
                 PROVE  thread[connectsO'[j]].state # "dead"
        BY <1>1 DEF EntriesActive
    <2>1. CASE j = i
        BY <1>4, <1>6, <2>1
    <2>2. CASE j # i
        BY <1>4, <2>2 DEF Calm, EntriesActive
    <2> QED BY <2>1, <2>2
  <1>8. CalmOpen'
    <2> SUFFICES ASSUME NEW c \in Conns, NEW j \in Islands PROVE Open(c, j)'
        BY <1>2 DEF CalmOpen
    <2>1. Open(c, j)
        BY DEF Calm, CalmOpen
    <2>2. CASE accepter[j].conn = c /\ j = i
        BY <1>1, <1>6, <2>2 DEF Open
    <2>3. CASE ~(accepter[j].conn = c /\ j = i)
      <3>1. accepter[j].conn = c => accepter'[j].conn = c
          BY <1>4, <2>3
      <3> QED BY <1>1, <1>2, <2>1, <3>1 DEF Open
    <2> QED BY <2>2, <2>3
  <1> QED BY <1>3, <1>5, <1>7, <1>8 DEF Calm

LEMMA CalmRead ==
    ASSUME Types, Calm, NEW c \in Conns, NEW i \in Islands, Read(c, i)
    PROVE  Calm'
  <1> DEFINE d == [conn[c] EXCEPT !.wire[i] = Tail(@)]
  <1>1. /\ UNCHANGED <<connectsO, thread, accepter, backlog>>
        /\ conn' = [conn EXCEPT ![c] = d] /\ conn[c].wire[i] # <<>>
      BY DEF Read, accepters
  <1>2. /\ d \in ConnRecord /\ d.reset = conn[c].reset /\ d.exits = conn[c].exits
        /\ d.input = conn[c].input
    <2>1. conn[c] \in ConnRecord /\ conn[c].wire[i] \in Seq(Messages)
        BY ConnFacts
    <2>2. Tail(conn[c].wire[i]) \in Seq(Messages)
        BY <1>1, <2>1
    <2> QED BY <2>1, <2>2 DEF ConnRecord
  <1> HIDE DEF d
  <1>3. Conns' = Conns /\ \A k \in Conns : conn'[k] = IF k = c THEN d ELSE conn[k]
      BY <1>1, <1>2, ConnChange
  <1>4. \A k \in Conns : /\ conn'[k].reset = conn[k].reset
                         /\ conn'[k].exits = conn[k].exits
                         /\ conn'[k].input = conn[k].input
      BY <1>2, <1>3
  <1>5. CalmConns' /\ CalmThreads'
      BY <1>1, <1>3, <1>4 DEF Calm, CalmConns, CalmThreads, Threads
  <1>6. CalmAccepter' /\ EntriesActive'
      BY <1>1, <1>3, <1>4 DEF Calm, CalmAccepter, EntriesActive
  <1>7. CalmOpen'
      BY <1>1, <1>3, <1>4 DEF Calm, CalmOpen, Open, Threads
  <1> QED BY <1>5, <1>6, <1>7 DEF Calm

LEMMA CalmNext == Types /\ CalmInv /\ [Next]_vars => CalmInv'
  <1> SUFFICES ASSUME Types, CalmInv, [Next]_vars, resets' = 0, crashes' = 0
               PROVE  Calm'
      BY DEF CalmInv
  <1>1. \A c \in Conns : ~Reset(c)
      BY DEF Reset, Types, CountInv
  <1>2. \A i \in Islands : ~Crash(i)
    <2>1. \A i \in Islands : Crash(i) => crashes' = crashes + 1
        BY DEF Crash
    <2> QED BY <2>1 DEF Types, CountInv
  <1>3. UNCHANGED <<resets, crashes>>
    <2>1. \A m \in Messages : Request(m) => UNCHANGED <<resets, crashes>>
        BY DEF Request, budget
    <2>2. \A i \in Islands : MasterStep(i) => UNCHANGED <<resets, crashes>>
        BY DEF MasterStep, HasKey, Forward, Connect, budget
    <2>3. \A i \in Islands : AccepterStep(i) => UNCHANGED <<resets, crashes>>
        BY DEF AccepterStep, Accept, AcceptFails, Spawn, Register, budget
    <2>4. \A t \in Threads : ThreadStep(t) => UNCHANGED <<resets, crashes>>
      <3> SUFFICES ASSUME NEW t \in Threads, ThreadStep(t)
                   PROVE  UNCHANGED <<resets, crashes>>
          OBVIOUS
      <3>1. CASE Dial(t) \/ GiveUp(t) \/ Connected(t) \/ ShakeFails(t)
          BY <3>1 DEF Dial, GiveUp, Connected, ShakeFails, budget
      <3>2. CASE Write(t) \/ WriteFails(t)
          BY <3>2, Zenon DEF Write, WriteFails, budget
      <3>3. CASE OutputSignalled(t) \/ Unregister(t)
          BY <3>3, Zenon DEF OutputSignalled, Unregister, budget
      <3> QED BY <3>1, <3>2, <3>3 DEF ThreadStep
    <2>5. \A t \in Threads : DialFails(t) => UNCHANGED <<resets, crashes>>
        BY DEF DialFails
    <2>6. \A c \in Conns, i \in Islands : InputStep(c, i) => UNCHANGED <<resets, crashes>>
        BY DEF InputStep, Read, ReadFails, InputSignalled, budget
    <2>7. UNCHANGED vars => UNCHANGED <<resets, crashes>>
        BY DEF vars
    <2> QED BY <1>1, <1>2, <2>1, <2>2, <2>3, <2>4, <2>5, <2>6, <2>7, Zenon DEF Next
  <1>4. Calm
      BY <1>3 DEF CalmInv
  <1>5. ASSUME NEW m \in Messages, Request(m) PROVE Calm'
      BY <1>4, <1>5
      DEF Request, accepters, Calm, CalmConns, CalmOpen, CalmThreads, CalmAccepter,
          EntriesActive, Open, Conns, Threads
  <1>6. ASSUME NEW i \in Islands, MasterStep(i) PROVE Calm'
      BY <1>4, <1>6, CalmMasterStep
  <1>7. ASSUME NEW i \in Islands, AccepterStep(i) PROVE Calm'
      BY <1>4, <1>7, CalmAccept, CalmSpawn, CalmRegister, NoFailure DEF AccepterStep
  <1>8. ASSUME NEW t \in Threads, ThreadStep(t) \/ DialFails(t) PROVE Calm'
      BY <1>4, <1>8, CalmThread
  <1>9. ASSUME NEW c \in Conns, NEW i \in Islands, InputStep(c, i) PROVE Calm'
      BY <1>4, <1>9, CalmRead, NoFailure DEF InputStep
  <1>10. CASE UNCHANGED vars
      BY <1>4, <1>10
      DEF vars, Calm, CalmConns, CalmOpen, CalmThreads, CalmAccepter, EntriesActive,
          Open, Conns, Threads
  <1> QED BY <1>1, <1>2, <1>5, <1>6, <1>7, <1>8, <1>9, <1>10 DEF Next

\* Until a connection is reset or an island crashes, connects-o holds no thread
\* that has terminated, whatever attempts are refused or given up, whichever
\* island connects first, and although threads remove and overwrite entries
\* that are not their own.
THEOREM ActiveUntilFailureHolds == Spec => []ActiveUntilFailure
  <1>1. Init => CalmInv
      BY ConnectionsAssumption
      DEF Init, CalmInv, Calm, CalmConns, CalmOpen, CalmThreads, CalmAccepter,
          EntriesActive, Conns, Threads, Listening
  <1>2. CalmInv => ActiveUntilFailure
      BY DEF CalmInv, Calm, ActiveUntilFailure
  <1> QED BY <1>1, <1>2, CalmNext, ConnectionsInvariant, PTL DEF Spec
=============================================================================
