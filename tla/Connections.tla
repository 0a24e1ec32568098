----------------------------- MODULE Connections -----------------------------
(****************************************************************************)
(* The networking layer between two islands (peer/src/net/tcp-peer.rkt).    *)
(* run-tcp-peer starts two threads on an island: sendmaster, which hands    *)
(* each outgoing message to the output thread that connects-o names for the *)
(* remote island or starts a connecting thread, and the accepter.  A        *)
(* connection has an input and an output thread at each end; the two share  *)
(* a control channel on which the one that fails tells the other to exit.   *)
(*                                                                          *)
(* The islands are concurrent and so are the threads of one island; the     *)
(* network may refuse and reset connections, and an island may crash and    *)
(* start again.  The table connects-i is written and never read, and is     *)
(* left out; so are encryption and compression.                             *)
(****************************************************************************)
EXTENDS Integers, Sequences, FiniteSets, SequencesExt

CONSTANTS
    Islands,      \* the two islands
    Messages,     \* the messages sent in a behaviour
    From,         \* the island each message is sent from
    None,
    Tries,        \* num-connect-tries
    MaxThreads,   \* bound on the output threads ever started
    MaxConns,     \* bound on the TCP connections ever made
    MaxRefusals,  \* bound on the connection attempts that fail
    MaxFaults     \* bound on the resets of connections and crashes of islands

ASSUME ConnectionsAssumption ==
    /\ IsFiniteSet(Islands) /\ Cardinality(Islands) = 2
    /\ From \in [Messages -> Islands]
    /\ None \notin Nat \cup Messages
    /\ Tries \in Nat \ {0} /\ MaxThreads \in Nat /\ MaxConns \in Nat
    /\ MaxRefusals \in Nat /\ MaxFaults \in Nat

VARIABLES
    requests,  \* the mailbox of each island's sendmaster
    master,    \* what sendmaster has found for the message it holds
    connectsO, \* the entry of each island's connects-o for the other
    thread,    \* the connecting and output threads started so far
    accepter,  \* what each island's accepter is doing
    backlog,   \* the connections its listener holds for it
    conn,      \* the TCP connections made so far
    received,  \* what the input threads have given to the reply thread
    sent,      \* history: the messages handed to sendmaster
    refusals, resets, crashes

vars == <<requests, master, connectsO, thread, accepter, backlog, conn,
          received, sent, refusals, resets, crashes>>

masters   == <<requests, master, sent>>
accepters == <<accepter, backlog>>
budget    == <<refusals, resets, crashes>>

Other(i) == CHOOSE j \in Islands : j # i

Threads == 1 .. Len(thread)
Conns   == 1 .. Len(conn)

\* A thread: "dial" and "shake" in connect, "output" in run-output-loop, "exit"
\* after the exiter and before hash-remove!, "dead".
Thread(i, state, c, mail) ==
    [isle |-> i, state |-> state, tries |-> Tries, conn |-> c, mail |-> mail]

\* A connection: what is under way to each end, its input threads, the control
\* channels, and whether the network has reset it.
NewConn == [wire  |-> [i \in Islands |-> <<>>],
            input |-> [i \in Islands |-> "none"],
            exits |-> [i \in Islands |-> 0],
            reset |-> FALSE]

Listening == [pc |-> "accept", conn |-> None, out |-> None]

Ready == [pc |-> "ready", message |-> None]

\* Island i still has an open end of connection c.  (The ends that an exception
\* leaves behind in a handshake are of connections that have failed.)
Open(c, i) ==
    \/ \E n \in 1 .. Len(backlog[i]) : backlog[i][n] = c
    \/ accepter[i].conn = c
    \/ conn[c].input[i] = "live"
    \/ \E t \in Threads : /\ thread[t].isle = i /\ thread[t].conn = c
                          /\ thread[t].state \in {"shake", "output"}

-----------------------------------------------------------------------------
Init ==
    /\ requests = [i \in Islands |-> <<>>]
    /\ master = [i \in Islands |-> Ready]
    /\ connectsO = [i \in Islands |-> None]
    /\ thread = <<>>
    /\ accepter = [i \in Islands |-> Listening]
    /\ backlog = [i \in Islands |-> <<>>]
    /\ conn = <<>>
    /\ received = [i \in Islands |-> <<>>]
    /\ sent = {}
    /\ refusals = 0 /\ resets = 0 /\ crashes = 0

\* (thread-send sendmaster request)
Request(m) ==
    /\ m \notin sent
    /\ sent' = sent \cup {m}
    /\ requests' = [requests EXCEPT ![From[m]] = Append(@, m)]
    /\ UNCHANGED <<master, connectsO, thread, accepters, conn, received, budget>>

\* send/maybe-connect: (hash-has-key? connects-o remote-id)
HasKey(i) ==
    /\ master[i].pc = "ready" /\ requests[i] # <<>>
    /\ requests' = [requests EXCEPT ![i] = Tail(@)]
    /\ master' = [master EXCEPT ![i] =
                    [pc |-> IF connectsO[i] = None THEN "absent" ELSE "present",
                     message |-> Head(requests[i])]]
    /\ UNCHANGED <<connectsO, thread, accepters, conn, received, sent, budget>>

\* (thread-send (hash-ref connects-o remote-id) ...): hash-ref raises when the
\* entry has gone meanwhile, and the handler swallows the exception.
Forward(i) ==
    LET t == connectsO[i] IN
    /\ master[i].pc = "present"
    /\ thread' = IF t = None \/ thread[t].state = "dead" THEN thread
                 ELSE [thread EXCEPT ![t].mail = Append(@, master[i].message)]
    /\ master' = [master EXCEPT ![i] = Ready]
    /\ UNCHANGED <<requests, connectsO, accepters, conn, received, sent, budget>>

\* A variant that does not send the message on to the connecting thread.
Connect_Unsent(i) ==
    /\ master[i].pc = "absent" /\ Len(thread) < MaxThreads
    /\ thread' = Append(thread, Thread(i, "dial", None, <<>>))
    /\ connectsO' = [connectsO EXCEPT ![i] = Len(thread) + 1]
    /\ master' = [master EXCEPT ![i] = Ready]
    /\ UNCHANGED <<requests, accepters, conn, received, sent, budget>>

\* A variant without start-atomic: the thread runs before it is registered.
Connect_Preempted(i) ==
    /\ UNCHANGED <<requests, accepters, conn, received, sent, budget>>
    /\ \/ /\ master[i].pc = "absent" /\ Len(thread) < MaxThreads
          /\ thread' = Append(thread, Thread(i, "dial", None, <<master[i].message>>))
          /\ master' = [master EXCEPT ![i] = [pc |-> "register",
                                             message |-> Len(thread) + 1]]
          /\ UNCHANGED connectsO
       \/ /\ master[i].pc = "register"
          /\ connectsO' = [connectsO EXCEPT ![i] = master[i].message]
          /\ master' = [master EXCEPT ![i] = Ready]
          /\ UNCHANGED thread

\* (start-atomic) ... (end-atomic): the connecting thread is made, registered
\* and sent the message.
Connect(i) ==
    /\ master[i].pc = "absent" /\ Len(thread) < MaxThreads
    /\ thread' = Append(thread, Thread(i, "dial", None, <<master[i].message>>))
    /\ connectsO' = [connectsO EXCEPT ![i] = Len(thread) + 1]
    /\ master' = [master EXCEPT ![i] = Ready]
    /\ UNCHANGED <<requests, accepters, conn, received, sent, budget>>

-----------------------------------------------------------------------------
(* try-connect-n-times, by thread t.                                        *)

\* (tcp-connect host port): the remote listener takes the connection.
Dial(t) ==
    LET j == Other(thread[t].isle) IN
    /\ thread[t].state = "dial" /\ thread[t].tries > 0
    /\ Len(conn) < MaxConns
    /\ conn' = Append(conn, NewConn)
    /\ backlog' = [backlog EXCEPT ![j] = Append(@, Len(conn) + 1)]
    /\ thread' = [thread EXCEPT ![t].state = "shake", ![t].conn = Len(conn) + 1]
    /\ UNCHANGED <<masters, connectsO, accepter, received, budget>>

\* A variant without the test for no more tries.
DialFails_Unchecked(t) ==
    /\ thread[t].state = "dial"
    /\ refusals < MaxRefusals /\ refusals' = refusals + 1
    /\ thread' = [thread EXCEPT ![t].tries = @ - 1]
    /\ UNCHANGED <<masters, connectsO, accepters, conn, received, resets, crashes>>

\* exn:fail:network while connecting: one try less.
DialFails(t) ==
    /\ thread[t].state = "dial" /\ thread[t].tries > 0
    /\ refusals < MaxRefusals /\ refusals' = refusals + 1
    /\ thread' = [thread EXCEPT ![t].tries = @ - 1]
    /\ UNCHANGED <<masters, connectsO, accepters, conn, received, resets, crashes>>

\* "Connect attempts exceeded": the entry of the remote goes, whatever it is.
GiveUp(t) ==
    /\ thread[t].state = "dial" /\ thread[t].tries = 0
    /\ connectsO' = [connectsO EXCEPT ![thread[t].isle] = None]
    /\ thread' = [thread EXCEPT ![t].state = "dead", ![t].mail = <<>>]
    /\ UNCHANGED <<masters, accepters, conn, received, budget>>

\* The handshake is over: the thread launches the input thread and turns into
\* the output thread.
Connected(t) ==
    LET i == thread[t].isle
        c == thread[t].conn
    IN
    /\ thread[t].state = "shake"
    /\ ~conn[c].reset /\ Open(c, Other(i))
    /\ \A n \in 1 .. Len(backlog[Other(i)]) : backlog[Other(i)][n] # c
    /\ thread' = [thread EXCEPT ![t].state = "output"]
    /\ conn' = [conn EXCEPT ![c].input[i] = "live"]
    /\ UNCHANGED <<masters, connectsO, accepters, received, budget>>

\* The handshake fails.  A reset is exn:fail:network, handled by the next try.
\* When the peer is gone read may return eof instead, and the exception that
\* follows is no exn:fail:network: the thread dies.
ShakeFails(t) ==
    LET c == thread[t].conn
        gone == ~Open(c, Other(thread[t].isle))
    IN
    /\ thread[t].state = "shake"
    /\ conn[c].reset \/ gone
    /\ \/ thread' = [thread EXCEPT ![t].state = "dial", ![t].conn = None,
                                   ![t].tries = @ - 1]
       \/ /\ gone /\ ~conn[c].reset
          /\ thread' = [thread EXCEPT ![t].state = "dead", ![t].mail = <<>>]
    /\ UNCHANGED <<masters, connectsO, accepters, conn, received, budget>>

-----------------------------------------------------------------------------
(* run-accept-loop.                                                         *)

\* (tcp-accept listener)
Accept(i) ==
    /\ accepter[i].pc = "accept" /\ backlog[i] # <<>>
    /\ accepter' = [accepter EXCEPT ![i].pc = "shake", ![i].conn = Head(backlog[i])]
    /\ backlog' = [backlog EXCEPT ![i] = Tail(@)]
    /\ UNCHANGED <<masters, connectsO, thread, conn, received, budget>>

\* The handshake raises; the handler drops the connection.
AcceptFails(i) ==
    LET c == accepter[i].conn IN
    /\ accepter[i].pc = "shake"
    /\ conn[c].reset \/ ~Open(c, Other(i))
    /\ accepter' = [accepter EXCEPT ![i] = Listening]
    /\ UNCHANGED <<masters, connectsO, thread, backlog, conn, received, budget>>

\* The handshake is over: the output thread and the input thread start.
Spawn(i) ==
    LET c == accepter[i].conn IN
    /\ accepter[i].pc = "shake" /\ Len(thread) < MaxThreads
    /\ ~conn[c].reset /\ Open(c, Other(i))
    /\ thread' = Append(thread, Thread(i, "output", c, <<>>))
    /\ conn' = [conn EXCEPT ![c].input[i] = "live"]
    /\ accepter' = [accepter EXCEPT ![i].pc = "register", ![i].out = Len(thread) + 1]
    /\ UNCHANGED <<masters, connectsO, backlog, received, budget>>

\* (hash-set! connects-o remote-id ot), over whatever entry there is.
Register(i) ==
    /\ accepter[i].pc = "register"
    /\ connectsO' = [connectsO EXCEPT ![i] = accepter[i].out]
    /\ accepter' = [accepter EXCEPT ![i] = Listening]
    /\ UNCHANGED <<masters, thread, backlog, conn, received, budget>>

-----------------------------------------------------------------------------
(* run-output-loop, by thread t.                                            *)

\* A variant of Write that leaves the message in the mailbox.
Write_Again(t) ==
    LET i == thread[t].isle
        c == thread[t].conn
    IN
    /\ thread[t].state = "output" /\ thread[t].mail # <<>>
    /\ ~conn[c].reset /\ Open(c, Other(i)) /\ Len(conn[c].wire[Other(i)]) < 2
    /\ conn' = [conn EXCEPT ![c].wire[Other(i)] = Append(@, Head(thread[t].mail))]
    /\ UNCHANGED <<masters, connectsO, thread, accepters, received, budget>>

\* output-next writes a message.
Write(t) ==
    LET i == thread[t].isle
        c == thread[t].conn
    IN
    /\ thread[t].state = "output" /\ thread[t].mail # <<>>
    /\ ~conn[c].reset /\ Open(c, Other(i))
    /\ conn' = [conn EXCEPT ![c].wire[Other(i)] = Append(@, Head(thread[t].mail))]
    /\ thread' = [thread EXCEPT ![t].mail = Tail(@)]
    /\ UNCHANGED <<masters, connectsO, accepters, received, budget>>

\* A write to a connection that is reset or gone at the other end is lost; the
\* first of them may not even raise.
WriteFails(t) ==
    LET i == thread[t].isle
        c == thread[t].conn
    IN
    /\ thread[t].state = "output" /\ thread[t].mail # <<>>
    /\ conn[c].reset \/ ~Open(c, Other(i))
    /\ \/ /\ thread' = [thread EXCEPT ![t].mail = Tail(@)]
          /\ UNCHANGED conn
       \/ /\ thread' = [thread EXCEPT ![t].state = "exit", ![t].mail = Tail(@)]
          /\ conn' = [conn EXCEPT ![c].exits[i] = @ + 1]
    /\ UNCHANGED <<masters, connectsO, accepters, received, budget>>

\* done/signalled takes 'exit off the control channel and raises; the exiter
\* abandons the port and puts 'exit back.
OutputSignalled(t) ==
    /\ thread[t].state = "output"
    /\ conn[thread[t].conn].exits[thread[t].isle] > 0
    /\ thread' = [thread EXCEPT ![t].state = "exit"]
    /\ UNCHANGED <<masters, connectsO, accepters, conn, received, budget>>

\* (hash-remove! connects-o remote-id), whatever the entry is; the thread ends.
Unregister(t) ==
    /\ thread[t].state = "exit"
    /\ thread' = [thread EXCEPT ![t].state = "dead", ![t].mail = <<>>]
    /\ connectsO' = [connectsO EXCEPT ![thread[t].isle] = None]
    /\ UNCHANGED <<masters, accepters, conn, received, budget>>

-----------------------------------------------------------------------------
(* run-input-loop at the end of connection c that island i has.             *)

\* input-next reads a message and gives it to the reply thread.
Read(c, i) ==
    /\ conn[c].input[i] = "live" /\ conn[c].wire[i] # <<>> /\ ~conn[c].reset
    /\ received' = [received EXCEPT ![i] = Append(@, Head(conn[c].wire[i]))]
    /\ conn' = [conn EXCEPT ![c].wire[i] = Tail(@)]
    /\ UNCHANGED <<masters, connectsO, thread, accepters, budget>>

\* A variant whose exiter does not signal the output thread.
ReadFails_Silent(c, i) ==
    /\ conn[c].input[i] = "live"
    /\ conn[c].reset \/ (conn[c].wire[i] = <<>> /\ ~Open(c, Other(i)))
    /\ conn' = [conn EXCEPT ![c].input[i] = "dead", ![c].wire[i] = <<>>]
    /\ UNCHANGED <<masters, connectsO, thread, accepters, received, budget>>

\* The read raises, or returns eof and what follows raises: the exiter abandons
\* the port and puts 'exit on the control channel.
ReadFails(c, i) ==
    /\ conn[c].input[i] = "live"
    /\ conn[c].reset \/ (conn[c].wire[i] = <<>> /\ ~Open(c, Other(i)))
    /\ conn' = [conn EXCEPT ![c].input[i] = "dead", ![c].exits[i] = @ + 1,
                            ![c].wire[i] = <<>>]
    /\ UNCHANGED <<masters, connectsO, thread, accepters, received, budget>>

\* 'exit arrives on the control channel.
InputSignalled(c, i) ==
    /\ conn[c].input[i] = "live" /\ conn[c].exits[i] > 0
    /\ conn' = [conn EXCEPT ![c].input[i] = "dead", ![c].wire[i] = <<>>]
    /\ UNCHANGED <<masters, connectsO, thread, accepters, received, budget>>

-----------------------------------------------------------------------------
(* The network and the machines.                                            *)

\* The network resets a connection; what is under way is lost.
Reset(c) ==
    /\ ~conn[c].reset
    /\ resets + crashes < MaxFaults /\ resets' = resets + 1
    /\ conn' = [conn EXCEPT ![c].reset = TRUE, ![c].wire = NewConn.wire]
    /\ UNCHANGED <<masters, connectsO, thread, accepters, received, refusals, crashes>>

\* The process of island i ends and starts again: its threads are gone, its
\* tables and mailboxes empty, its ends of the connections closed.
Crash(i) ==
    /\ resets + crashes < MaxFaults /\ crashes' = crashes + 1
    /\ requests' = [requests EXCEPT ![i] = <<>>]
    /\ master' = [master EXCEPT ![i] = Ready]
    /\ connectsO' = [connectsO EXCEPT ![i] = None]
    /\ thread' = [t \in Threads |->
                    IF thread[t].isle # i THEN thread[t]
                    ELSE [thread[t] EXCEPT !.state = "dead", !.mail = <<>>]]
    /\ accepter' = [accepter EXCEPT ![i] = Listening]
    /\ backlog' = [backlog EXCEPT ![i] = <<>>]
    /\ conn' = [c \in Conns |->
                  [conn[c] EXCEPT !.wire[i] = <<>>,
                                  !.input[i] = IF @ = "live" THEN "dead" ELSE @]]
    /\ UNCHANGED <<received, sent, refusals, resets>>

-----------------------------------------------------------------------------
MasterStep(i) == HasKey(i) \/ Forward(i) \/ Connect(i)

AccepterStep(i) == Accept(i) \/ AcceptFails(i) \/ Spawn(i) \/ Register(i)

ThreadStep(t) ==
    \/ Dial(t) \/ GiveUp(t) \/ Connected(t) \/ ShakeFails(t)
    \/ Write(t) \/ WriteFails(t) \/ OutputSignalled(t) \/ Unregister(t)

InputStep(c, i) == Read(c, i) \/ ReadFails(c, i) \/ InputSignalled(c, i)

Next ==
    \/ \E m \in Messages : Request(m)
    \/ \E i \in Islands : MasterStep(i) \/ AccepterStep(i) \/ Crash(i)
    \/ \E t \in Threads : ThreadStep(t) \/ DialFails(t)
    \/ \E c \in Conns : Reset(c) \/ \E i \in Islands : InputStep(c, i)

Spec == Init /\ [][Next]_vars

\* Racket schedules every runnable thread.  The faults are under no fairness,
\* and neither is the decision to send.
Fairness ==
    /\ \A i \in Islands : WF_vars(MasterStep(i)) /\ WF_vars(AccepterStep(i))
    /\ \A t \in 1 .. MaxThreads : WF_vars(t \in Threads /\ ThreadStep(t))
    /\ \A c \in 1 .. MaxConns, i \in Islands :
          WF_vars(c \in Conns /\ InputStep(c, i))

FairSpec == Spec /\ Fairness

-----------------------------------------------------------------------------
(* Properties.                                                              *)

\* Type correctness.
TypeOK ==
    /\ requests \in [Islands -> Seq(Messages)]
    /\ master \in [Islands -> [pc : {"ready", "present", "absent"},
                               message : Messages \cup {None}]]
    /\ connectsO \in [Islands -> Threads \cup {None}]
    /\ \A t \in Threads : thread[t] \in
          [isle : Islands, state : {"dial", "shake", "output", "exit", "dead"},
           tries : 0 .. Tries, conn : Conns \cup {None}, mail : Seq(Messages)]
    /\ accepter \in [Islands -> [pc : {"accept", "shake", "register"},
                                 conn : Conns \cup {None}, out : Threads \cup {None}]]
    /\ backlog \in [Islands -> Seq(Conns)]
    /\ received \in [Islands -> Seq(Messages)]
    /\ sent \subseteq Messages
    /\ refusals \in 0 .. MaxRefusals
    /\ resets \in Nat /\ crashes \in Nat /\ resets + crashes <= MaxFaults

\* A message is received once at most, at the other island, and was sent,
\* whichever threads it passed and however often they retried.
AtMostOnce ==
    \A i \in Islands :
        /\ IsInjective(received[i])
        /\ \A m \in ToSet(received[i]) : m \in sent /\ From[m] = Other(i)

\* The connections that connects-o holds are active: its entry is the thread of
\* a connection or of an attempt at one, never a thread that has terminated.
EntriesActive ==
    \A i \in Islands : connectsO[i] # None => thread[connectsO[i]].state # "dead"

\* Before the network or an island fails, the entries are active whatever
\* attempts are refused or given up and whichever island connects first.
ActiveUntilFailure == resets = 0 /\ crashes = 0 => EntriesActive

\* Every message handed to sendmaster reaches the other island, also when both
\* islands connect to each other at once, unless a connection fails or
\* num-connect-tries attempts do.
Unreliable == resets > 0 \/ crashes > 0 \/ refusals >= Tries

Delivered ==
    \A m \in Messages :
        m \in sent ~> m \in ToSet(received[Other(From[m])]) \/ Unreliable

Output(c, i) == {t \in Threads : thread[t].isle = i /\ thread[t].conn = c}

InputIs(c, i, state) == c \in Conns /\ conn[c].input[i] = state

OutputIs(c, i, states) == \E t \in Output(c, i) : thread[t].state \in states

\* "If one i/o thread [...] puts an exit signal onto the channel, the other will
\* catch it and also exit": no half of a connection outlives the other for good.
ExitTogether ==
    \A c \in 1 .. MaxConns, i \in Islands :
        /\ InputIs(c, i, "dead") ~> ~OutputIs(c, i, {"output"})
        /\ OutputIs(c, i, {"exit", "dead"}) ~> ~InputIs(c, i, "live")
=============================================================================
