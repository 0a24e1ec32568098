--------------------------- MODULE PromisesProofs ---------------------------
(****************************************************************************)
(* Theorems about Promises for any senders, waiters and times.              *)
(*                                                                          *)
(* The properties follow from Inv.  Besides the types, it says what the     *)
(* nanny's label tells about the promise (NannyInv), that one sender at     *)
(* most is engaged and where its message is (SenderInv, LetterInv), that a  *)
(* timely message cannot be overtaken by the timer (EarlyInv), who has the  *)
(* token (TokenInv), and what waiters have been told (AnswerInv).           *)
(****************************************************************************)
EXTENDS Promises, FiniteSetTheorems, TLAPS

\* TypeOK in parts.
ClockType == now \in 0 .. MaxNow /\ timer \in Nat

NannyType ==
    /\ sends \in {0, 1} /\ semaphore \in {0, 1}
    /\ mailbox \in Seq(Messages)
    /\ nanny \in {"start", "wait", "keep", "flag", "ruin", "post", "dead"}
    /\ letter \in Messages \cup {None}
    /\ value \in Values \cup {None}

FlagType == kept \in BOOLEAN /\ ruined \in BOOLEAN

SenderRecord == [pc : {"idle", "accepted", "done"}, at : Nat,
                 message : Messages \cup {None}, ok : BOOLEAN]

WaiterRecord == [pc : {"idle", "sync", "take", "read", "give", "done"},
                 until : Nat, result : Values \cup {Failure, None}]

SenderType == sender \in [Senders -> SenderRecord]
WaiterType == waiter \in [Waiters -> WaiterRecord]

Types == ClockType /\ NannyType /\ FlagType /\ SenderType /\ WaiterType

LEMMA TypeParts == (TypeOK <=> Types) /\ (TypeOK' <=> Types')
  BY DEF TypeOK, Types, ClockType, NannyType, FlagType, SenderType, WaiterType, SenderRecord,
         WaiterRecord

Settled == {"post", "dead"}

\* The fields of the promise at each label of the nanny.
NannyInv ==
    /\ nanny \notin {"start"} => timer >= Lifespan
    /\ kept => nanny \in Settled /\ ~ruined /\ value \in Values
    /\ ruined => nanny \in Settled
    /\ nanny \in Settled => kept \/ ruined
    /\ nanny = "keep" => letter \in Values
    /\ nanny = "flag" => letter \in Values /\ value = letter

\* A sender that got past the locative.
Engaged(s) ==
    sender[s].pc = "accepted" \/ sender[s].ok \/ sender[s].message # None

SenderInv ==
    /\ \A s, u \in Senders : Engaged(s) /\ Engaged(u) => s = u
    /\ sends = 1 => \A s \in Senders : ~Engaged(s)
    /\ \A s \in Senders : sender[s].pc = "idle" => ~Engaged(s)
    /\ \A s \in Senders : sender[s].ok => sender[s].pc = "done"
    /\ \A s \in Senders : sender[s].pc = "accepted" => sender[s].message \in Messages

\* The message the nanny has received is the sender's.
LetterInv ==
    /\ mailbox = <<>> \/ \E s \in Senders : sender[s].ok /\ mailbox = <<sender[s].message>>
    /\ nanny \in {"keep", "flag"} \/ kept =>
          \E s \in Senders : sender[s].ok /\ sender[s].message = letter
    /\ kept => value = letter
    /\ nanny \in {"ruin", "post", "dead"} =>
          now >= Lifespan \/ \E s \in Senders : sender[s].ok

\* A well-formed message that came in time is in the mailbox or received.
EarlyInv ==
    \A s \in Senders :
        sender[s].ok /\ sender[s].message \in Values /\ sender[s].at < Lifespan =>
            \/ nanny \in {"start", "wait"} /\ mailbox = <<sender[s].message>>
            \/ nanny \in {"keep", "flag"}
            \/ kept

Holders == {w \in Waiters : waiter[w].pc \in {"read", "give"}}

TokenInv ==
    IF nanny = "dead"
    THEN \/ semaphore = 1 /\ Holders = {}
         \/ semaphore = 0 /\ \E w \in Waiters : Holders = {w}
    ELSE semaphore = 0 /\ Holders = {}

AnswerInv ==
    /\ AnswersAgree
    /\ \A w \in Waiters : waiter[w].pc = "give" =>
          IF kept THEN waiter[w].result = value ELSE waiter[w].result = Failure

Inv == /\ TypeOK /\ NannyInv /\ SenderInv /\ LetterInv /\ EarlyInv
       /\ TokenInv /\ AnswerInv

-----------------------------------------------------------------------------
LEMMA InitInv == Init => Inv
  <1> USE PromisesAssumption
  <1> SUFFICES ASSUME Init PROVE Inv
      OBVIOUS
  <1>1. TypeOK
    <2>1. ClockType /\ NannyType
        BY DEF Init, ClockType, NannyType
    <2>4. FlagType
        BY DEF Init, FlagType
    <2>2. SenderType
        BY DEF Init, SenderType, SenderRecord
    <2>3. WaiterType
        BY DEF Init, WaiterType, WaiterRecord
    <2> QED BY <2>1, <2>2, <2>3, <2>4, TypeParts DEF Types
  <1>2. NannyInv /\ SenderInv /\ LetterInv /\ EarlyInv
      BY DEF Init, NannyInv, SenderInv, LetterInv, EarlyInv, Engaged, Settled
  <1>3. TokenInv /\ AnswerInv
      BY DEF Init, TokenInv, Holders, AnswerInv, AnswersAgree
  <1> QED BY <1>1, <1>2, <1>3 DEF Inv

\* The fields that a call of curl/send changes.
Sent(s, pc, m, ok, t) ==
    sender' = [sender EXCEPT ![s] = [pc |-> pc, message |-> m, ok |-> ok, at |-> t]]

LEMMA SenderFields ==
    ASSUME SenderType, NEW s \in Senders
    PROVE  /\ Refuse(s) => Sent(s, "done", sender[s].message, sender[s].ok, now)
           /\ ThreadSend(s) => Sent(s, "done", sender[s].message, nanny # "dead", now)
           /\ \A m \in Messages :
                 Accept(s, m) => Sent(s, "accepted", m, sender[s].ok, sender[s].at)
  BY DEF SenderType, SenderRecord, Sent, Refuse, ThreadSend, Accept

LEMMA SentFields ==
    ASSUME SenderType, NEW s \in Senders, NEW pc, NEW m, NEW ok, NEW t,
           Sent(s, pc, m, ok, t)
    PROVE  /\ sender'[s].pc = pc /\ sender'[s].message = m /\ sender'[s].ok = ok
           /\ sender'[s].at = t
           /\ \A u \in Senders \ {s} : sender'[u] = sender[u]
  BY DEF SenderType, Sent

\* Which actions leave which group of variables alone.
LEMMA Frames ==
    /\ NannyStep => UNCHANGED <<now, sends, sender, waiter>>
    /\ \A s \in Senders, m \in Messages :
          Accept(s, m) => UNCHANGED <<now, mailbox, nannys, promise, waiter>>
    /\ \A s \in Senders :
          Refuse(s) \/ ThreadSend(s) => UNCHANGED <<now, sends, nannys, promise, waiter>>
    /\ \A w \in Waiters, patience \in Patience :
          Wait(w, patience) => UNCHANGED <<elsewhere, semaphore>>
    /\ \A w \in Waiters : Take(w) \/ WaiterStep(w) => UNCHANGED elsewhere
    /\ Tick => UNCHANGED <<sends, mailbox, nannys, promise, sender, waiter>>
  BY DEF NannyStep, NannyStart, NannyReceive, NannyTimeout, NannyKeep, NannyRuin,
         NannyPost, Accept, Refuse, ThreadSend, Wait, WaiterStep, Peek, LosePatience,
         Take, Read, Give, Tick, nannys, promise, elsewhere

LEMMA WaiterFields ==
    ASSUME WaiterType, NEW w \in Waiters, value \in Values \cup {None}
    PROVE  /\ \A patience \in Patience :
                 now + patience \in Nat /\ Wait(w, patience) => WaiterType'
           /\ Take(w) \/ WaiterStep(w) => WaiterType'
  <1>1. Peek(w) \/ LosePatience(w) \/ Take(w) \/ Give(w) => WaiterType'
      BY DEF Peek, LosePatience, Take, Give, Answered, WaiterType, WaiterRecord
  <1>2. Read(w) => WaiterType'
    <2> DEFINE r == IF ~ruined /\ kept THEN value ELSE Failure
    <2>1. r \in Values \cup {Failure, None}
        BY Zenon
    <2>2. Read(w) => waiter' = [waiter EXCEPT ![w].pc = "give", ![w].result = r]
        BY Zenon DEF Read
    <2> HIDE DEF r
    <2> QED BY <2>1, <2>2 DEF WaiterType, WaiterRecord
  <1>3. ASSUME NEW patience \in Patience, now + patience \in Nat, Wait(w, patience)
        PROVE WaiterType'
      BY <1>3 DEF Wait, Answered, WaiterType, WaiterRecord
  <1> QED BY <1>1, <1>2, <1>3 DEF WaiterStep

LEMMA StepType == Inv /\ [Next]_vars => TypeOK'
  <1> SUFFICES ASSUME Inv, [Next]_vars PROVE Types'
      BY TypeParts
  <1>0. Types
      BY TypeParts DEF Inv
  <1>t. ClockType /\ NannyType /\ FlagType /\ SenderType /\ WaiterType
      BY <1>0 DEF Types
  <1>1. CASE NannyStep
    <2>1. ClockType'
        BY <1>1, <1>t, PromisesAssumption
           DEF ClockType, NannyStep, NannyStart, NannyReceive, NannyTimeout,
               NannyKeep, NannyRuin, NannyPost
    <2>2. NannyType'
      <3>1. CASE NannyStart \/ NannyRuin
          BY <3>1, <1>t DEF NannyType, NannyStart, NannyRuin, promise
      <3>2. CASE NannyTimeout
        <4>1. nanny' \in {"dead", "ruin"}
            BY <3>2, Zenon DEF NannyTimeout
        <4> QED BY <3>2, <4>1, <1>t DEF NannyType, NannyTimeout, promise
      <3>4. CASE NannyReceive
        <4>1. Head(mailbox) \in Messages /\ Tail(mailbox) \in Seq(Messages)
            BY <3>4, <1>t DEF NannyType, NannyReceive
        <4>2. nanny' \in {"keep", "ruin"}
            BY <3>4, Zenon DEF NannyReceive
        <4> QED BY <3>4, <4>1, <4>2, <1>t DEF NannyType, NannyReceive, promise
      <3>5. CASE NannyKeep
          BY <3>5, <1>t DEF NannyType, NannyKeep, Inv, NannyInv
      <3>3. CASE NannyPost
          BY <3>3, <1>t DEF NannyType, NannyPost, Inv, TokenInv
      <3> QED BY <1>1, <3>1, <3>2, <3>3, <3>4, <3>5 DEF NannyStep
    <2>3. FlagType'
      <3>1. kept' = kept \/ kept' = TRUE
          BY <1>1, Zenon DEF NannyStep, NannyStart, NannyReceive, NannyTimeout,
                 NannyKeep, NannyRuin, NannyPost, promise
      <3>2. ruined' = ruined \/ ruined' = TRUE
          BY <1>1, Zenon DEF NannyStep, NannyStart, NannyReceive, NannyTimeout,
                 NannyKeep, NannyRuin, NannyPost, promise
      <3> QED BY <3>1, <3>2, <1>t DEF FlagType
    <2>4. SenderType' /\ WaiterType'
        BY <1>1, <1>t, Frames DEF SenderType, WaiterType
    <2> QED BY <2>1, <2>2, <2>3, <2>4 DEF Types
  <1>2. ASSUME NEW s \in Senders, NEW m \in Messages, Accept(s, m) PROVE Types'
    <2>1. ClockType' /\ WaiterType'
        BY <1>2, <1>t, Frames DEF ClockType, WaiterType, nannys
    <2>2. NannyType'
        BY <1>2, <1>t, Frames DEF NannyType, Accept, Sendable, nannys, promise
    <2>3. FlagType'
        BY <1>2, <1>t, Frames DEF FlagType, promise
    <2>4. SenderType'
        BY <1>2, <1>t, SenderFields DEF SenderType, SenderRecord, Sent
    <2> QED BY <2>1, <2>2, <2>3, <2>4 DEF Types
  <1>3. ASSUME NEW s \in Senders, Refuse(s) \/ ThreadSend(s) PROVE Types'
    <2>1. ClockType' /\ WaiterType'
        BY <1>3, <1>t, Frames DEF ClockType, WaiterType, nannys
    <2>2. NannyType'
      <3>1. CASE Refuse(s)
          BY <3>1, <1>t DEF NannyType, Refuse, nannys, promise
      <3>2. CASE ThreadSend(s)
        <4>1. sender[s].message \in Messages
            BY <3>2 DEF ThreadSend, Inv, SenderInv
        <4> QED BY <3>2, <4>1, <1>t DEF NannyType, ThreadSend, nannys, promise
      <3> QED BY <1>3, <3>1, <3>2
    <2>3. FlagType'
        BY <1>3, <1>t, Frames DEF FlagType, promise
    <2>4. SenderType'
      <3>1. sender[s] \in SenderRecord /\ now \in Nat
          BY <1>t, PromisesAssumption DEF SenderType, ClockType
      <3>2. PICK o \in BOOLEAN : Sent(s, "done", sender[s].message, o, now)
          BY <1>3, <1>t, <3>1, SenderFields DEF SenderRecord
      <3>3. [pc |-> "done", message |-> sender[s].message, ok |-> o, at |-> now]
               \in SenderRecord
          BY <3>1 DEF SenderRecord
      <3> QED BY <3>2, <3>3, <1>t DEF SenderType, Sent
    <2> QED BY <2>1, <2>2, <2>3, <2>4 DEF Types
  <1>4. ASSUME NEW w \in Waiters, NEW patience \in Patience, Wait(w, patience)
        PROVE Types'
    <2>1. ClockType' /\ NannyType' /\ SenderType'
        BY <1>4, <1>t, Frames DEF ClockType, NannyType, SenderType, elsewhere, nannys
    <2>2. FlagType'
        BY <1>4, <1>t, Frames DEF FlagType, elsewhere
    <2>3. WaiterType'
      <3>1. now + patience \in Nat /\ value \in Values \cup {None}
          BY <1>4, <1>t, PromisesAssumption DEF ClockType, NannyType
      <3> QED BY <1>4, <1>t, <3>1, WaiterFields
    <2> QED BY <2>1, <2>2, <2>3 DEF Types
  <1>5. ASSUME NEW w \in Waiters, Take(w) \/ WaiterStep(w) PROVE Types'
    <2>1. ClockType' /\ SenderType'
        BY <1>5, <1>t, Frames DEF ClockType, SenderType, elsewhere, nannys
    <2>2. FlagType'
        BY <1>5, <1>t, Frames DEF FlagType, elsewhere
    <2>3. waiter[w].pc = "give" => semaphore = 0
        BY DEF Inv, TokenInv, Holders
    <2>4. NannyType'
        BY <1>5, <2>3, <1>t DEF NannyType, elsewhere, nannys, Take, WaiterStep, Peek,
               LosePatience, Read, Give
    <2>5. WaiterType'
        BY <1>5, <1>t, WaiterFields DEF NannyType
    <2> QED BY <2>1, <2>2, <2>4, <2>5 DEF Types
  <1>6. CASE Tick \/ UNCHANGED vars
    <2>1. ClockType'
        BY <1>6, <1>t, PromisesAssumption DEF Tick, vars, ClockType, nannys
    <2>2. FlagType'
        BY <1>6, <1>t, Frames DEF vars, FlagType, promise
    <2>3. NannyType' /\ SenderType' /\ WaiterType'
        BY <1>6, <1>t, Frames DEF vars, NannyType, SenderType, WaiterType, nannys, promise
    <2> QED BY <2>1, <2>2, <2>3 DEF Types
  <1> QED BY <1>1, <1>2, <1>3, <1>4, <1>5, <1>6 DEF Next

\* Every step is the nanny's, a sender's, a waiter's or the clock's.
LEMMA Steps ==
    ASSUME [Next]_vars
    PROVE  \/ NannyStep
           \/ \E s \in Senders : \/ \E m \in Messages : Accept(s, m)
                                 \/ Refuse(s) \/ ThreadSend(s)
           \/ \E w \in Waiters : \/ \E patience \in Patience : Wait(w, patience)
                                 \/ Take(w) \/ WaiterStep(w)
           \/ Tick
           \/ UNCHANGED vars
  BY DEF Next

LEMMA StepNanny == Inv /\ [Next]_vars => NannyInv'
  <1> SUFFICES ASSUME Inv, [Next]_vars PROVE NannyInv'
      OBVIOUS
  <1> USE DEF NannyInv, Settled
  <1>0. NannyInv /\ ClockType /\ FlagType
      BY TypeParts DEF Inv, Types
  <1>1. CASE NannyStart
      BY <1>0, <1>1, PromisesAssumption DEF NannyStart, promise, ClockType
  <1>2. CASE NannyReceive
      BY <1>0, <1>2 DEF NannyReceive, promise
  <1>3. CASE NannyTimeout
      BY <1>0, <1>3 DEF NannyTimeout, promise
  <1>4. CASE NannyKeep
      BY <1>0, <1>4 DEF NannyKeep
  <1>5. CASE NannyRuin \/ NannyPost
      BY <1>0, <1>5 DEF NannyRuin, NannyPost
  <1>6. CASE UNCHANGED <<nannys, value, kept, ruined>>
      BY <1>0, <1>6 DEF nannys
  <1> QED BY <1>1, <1>2, <1>3, <1>4, <1>5, <1>6, Steps, Frames
          DEF NannyStep, vars, nannys, promise, elsewhere

LEMMA StepSender == Inv /\ [Next]_vars => SenderInv'
  <1> SUFFICES ASSUME Inv, [Next]_vars PROVE SenderInv'
      OBVIOUS
  <1>0. SenderInv /\ SenderType /\ NannyType
      BY TypeParts DEF Inv, Types
  <1> USE DEF SenderInv, Engaged
  <1>1. ASSUME NEW s \in Senders, NEW m \in Messages, Accept(s, m) PROVE SenderInv'
    <2>1. sends = 1 /\ sends' = 0
        BY <1>0, <1>1 DEF Accept, Sendable, NannyType
    <2>2. sender'[s].pc = "accepted" /\ sender'[s].message = m /\ sender'[s].ok = sender[s].ok
        BY <1>0, <1>1, SenderFields, SentFields
    <2>3. \A u \in Senders \ {s} : sender'[u] = sender[u]
        BY <1>0, <1>1, SenderFields, SentFields
    <2> QED BY <1>0, <2>1, <2>2, <2>3
  <1>2. ASSUME NEW s \in Senders, Refuse(s) \/ ThreadSend(s) PROVE SenderInv'
    <2>1. sender'[s].pc = "done" /\ sender'[s].message = sender[s].message
        BY <1>0, <1>2, SenderFields, SentFields
    <2>2. sender'[s].ok => sender[s].ok \/ ThreadSend(s)
        BY <1>0, <1>2, SenderFields, SentFields
    <2>3. \A u \in Senders \ {s} : sender'[u] = sender[u]
        BY <1>0, <1>2, SenderFields, SentFields
    <2>4. \A u \in Senders : Engaged(u)' => Engaged(u)
        BY <1>0, <2>1, <2>2, <2>3 DEF ThreadSend
    <2>5. sends' = sends
        BY <1>2, Frames
    <2> HIDE DEF Engaged
    <2>6. /\ \A u \in Senders : sender'[u].pc = "idle" => ~Engaged(u)'
          /\ \A u \in Senders : sender'[u].ok => sender'[u].pc = "done"
          /\ \A u \in Senders : sender'[u].pc = "accepted" => sender'[u].message \in Messages
        BY <1>0, <2>1, <2>3, <2>4
    <2> QED BY <1>0, <2>4, <2>5, <2>6
  <1>4. CASE UNCHANGED <<sends, sender>>
      BY <1>0, <1>4
  <1> QED BY <1>1, <1>2, <1>4, Steps, Frames DEF vars, elsewhere

LEMMA StepToken == Inv /\ [Next]_vars => TokenInv'
  <1> SUFFICES ASSUME Inv, [Next]_vars PROVE TokenInv'
      OBVIOUS
  <1>0. TokenInv /\ WaiterType /\ NannyType
      BY TypeParts DEF Inv, Types
  <1> USE DEF TokenInv, Holders
  <1>1. CASE NannyPost
      BY <1>0, <1>1 DEF NannyPost
  <1>2. CASE NannyStep /\ ~NannyPost
    <2>1. nanny # "dead" /\ nanny' # "start" /\ UNCHANGED <<semaphore, waiter>>
        BY <1>2 DEF NannyStep, NannyStart, NannyReceive, NannyTimeout, NannyKeep,
               NannyRuin, promise
    <2>2. nanny' # "dead"
        BY <1>2, <2>1 DEF NannyStep, NannyStart, NannyReceive, NannyTimeout, NannyKeep,
               NannyRuin, Inv, NannyInv, Settled
    <2> QED BY <1>0, <2>1, <2>2
  <1>3. ASSUME NEW w \in Waiters, Take(w) PROVE TokenInv'
    <2>1. nanny' = "dead" /\ semaphore' = 0 /\ Holders = {}
        BY <1>0, <1>3, Frames DEF Take, NannyType, elsewhere, nannys
    <2>2. waiter'[w].pc = "read" /\ \A u \in Waiters \ {w} : waiter'[u] = waiter[u]
        BY <1>0, <1>3 DEF Take, WaiterType
    <2>3. Holders' = {w}
        BY <2>1, <2>2
    <2> QED BY <2>1, <2>3
  <1>4. ASSUME NEW w \in Waiters, Give(w) PROVE TokenInv'
    <2>1. nanny = "dead" /\ semaphore = 0 /\ Holders = {w}
        BY <1>0, <1>4 DEF Give
    <2>2. nanny' = "dead" /\ semaphore' = 1
        BY <2>1, <1>4, Frames DEF Give, elsewhere, nannys
    <2>3. waiter'[w].pc = "done" /\ \A u \in Waiters \ {w} : waiter'[u] = waiter[u]
        BY <1>0, <1>4 DEF Give, WaiterType
    <2>4. Holders' = {}
        BY <2>1, <2>3
    <2> QED BY <2>2, <2>4
  <1>5. CASE /\ UNCHANGED <<nanny, semaphore>>
             /\ \A w \in Waiters : (waiter'[w].pc \in {"read", "give"})
                                     <=> waiter[w].pc \in {"read", "give"}
    <2>1. Holders' = Holders
        BY <1>5
    <2> QED BY <1>0, <1>5, <2>1
  <1>6. ASSUME NEW w \in Waiters,
               \/ \E patience \in Patience : Wait(w, patience)
               \/ Peek(w) \/ LosePatience(w) \/ Read(w)
        PROVE TokenInv'
    <2>1. UNCHANGED <<nanny, semaphore>>
        BY <1>6 DEF Wait, Peek, LosePatience, Read, elsewhere, nannys
    <2>2. \A u \in Waiters \ {w} : waiter'[u] = waiter[u]
        BY <1>0, <1>6 DEF Wait, Peek, LosePatience, Read, Answered, WaiterType
    <2>3. waiter'[w].pc \in {"read", "give"} <=> waiter[w].pc \in {"read", "give"}
        BY <1>0, <1>6 DEF Wait, Peek, LosePatience, Read, Answered, WaiterType, WaiterRecord
    <2> QED BY <1>5, <2>1, <2>2, <2>3
  <1>7. CASE UNCHANGED <<nanny, semaphore, waiter>>
      BY <1>5, <1>7
  <1> QED BY <1>1, <1>2, <1>3, <1>4, <1>6, <1>7, Steps, Frames
          DEF vars, nannys, promise, WaiterStep

LEMMA StepLetter == Inv /\ [Next]_vars => LetterInv'
  <1> SUFFICES ASSUME Inv, [Next]_vars PROVE LetterInv'
      OBVIOUS
  <1>0. LetterInv /\ NannyInv /\ SenderInv /\ ClockType /\ SenderType /\ NannyType
      BY TypeParts DEF Inv, Types
  <1> USE DEF LetterInv
  <1>1. CASE NannyStart
      BY <1>0, <1>1 DEF NannyStart, promise, NannyInv, Settled
  <1>2. CASE NannyReceive
    <2>1. PICK s \in Senders : sender[s].ok /\ mailbox = <<sender[s].message>>
        BY <1>0, <1>2 DEF NannyReceive
    <2>2. mailbox' = <<>> /\ letter' = sender[s].message /\ sender' = sender /\ ~kept'
        BY <1>0, <1>2, <2>1 DEF NannyReceive, promise, NannyInv, Settled
    <2> QED BY <2>1, <2>2
  <1>3. CASE NannyTimeout
    <2>1. now >= Lifespan /\ now' = now /\ ~kept' /\ mailbox' = mailbox /\ sender' = sender
        BY <1>0, <1>3, PromisesAssumption DEF NannyTimeout, NannyInv, Settled, ClockType, promise
    <2>2. nanny' \notin {"keep", "flag"}
        BY <1>3, Zenon DEF NannyTimeout
    <2> QED BY <1>0, <2>1, <2>2
  <1>4. CASE NannyKeep
      BY <1>0, <1>4 DEF NannyKeep, NannyInv, Settled
  <1>5. CASE NannyRuin \/ NannyPost
      BY <1>0, <1>5 DEF NannyRuin, NannyPost, NannyInv, Settled
  <1>6. ASSUME NEW s \in Senders, NEW m \in Messages, Accept(s, m) PROVE LetterInv'
    <2>1. \A u \in Senders : ~sender[u].ok
        BY <1>0, <1>6 DEF Accept, Sendable, NannyType, SenderInv, Engaged
    <2>2. /\ mailbox = <<>> /\ ~kept /\ nanny \notin {"keep", "flag"}
          /\ nanny \in {"ruin", "post", "dead"} => now >= Lifespan
        BY <1>0, <2>1
    <2> QED BY <2>2, <1>6, Frames DEF nannys, promise
  <1>7. ASSUME NEW s \in Senders, Refuse(s) PROVE LetterInv'
    <2>1. \A u \in Senders : /\ sender'[u].ok = sender[u].ok
                            /\ sender'[u].message = sender[u].message
        BY <1>0, <1>7, SenderFields, SentFields
    <2> QED BY <1>0, <2>1, <1>7 DEF Refuse, nannys, promise
  <1>8. ASSUME NEW s \in Senders, ThreadSend(s) PROVE LetterInv'
    <2>1. \A u \in Senders : ~sender[u].ok
        BY <1>0, <1>8 DEF ThreadSend, SenderInv, Engaged
    <2>2. /\ mailbox = <<>> /\ ~kept /\ nanny \notin {"keep", "flag"}
          /\ nanny \in {"ruin", "post", "dead"} => now >= Lifespan
        BY <1>0, <2>1
    <2>3. sender'[s].message = sender[s].message /\ sender'[s].ok = (nanny # "dead")
        BY <1>0, <1>8, SenderFields, SentFields
    <2>4. mailbox' = <<>> \/ (sender'[s].ok /\ mailbox' = <<sender'[s].message>>)
      <3>1. CASE nanny = "dead"
          BY <3>1, <2>2, <1>8 DEF ThreadSend
      <3>2. CASE nanny # "dead"
        <4>1. sender'[s].ok
            BY <3>2, <2>3, Zenon
        <4>2. mailbox' = <<sender'[s].message>>
            BY <3>2, <2>2, <2>3, <1>8 DEF ThreadSend
        <4> QED BY <4>1, <4>2
      <3> QED BY <3>1, <3>2
    <2> QED BY <2>2, <2>4, <1>8, Frames DEF nannys, promise
  <1>9. CASE /\ UNCHANGED <<mailbox, nannys, value, kept, ruined, sender>>
             /\ now' \in {now, now + 1}
      BY <1>0, <1>9, PromisesAssumption DEF nannys, ClockType
  <1> QED BY <1>1, <1>2, <1>3, <1>4, <1>5, <1>6, <1>7, <1>8, <1>9, Steps, Frames
          DEF NannyStep, Tick, vars, nannys, promise, elsewhere

LEMMA StepEarly == Inv /\ [Next]_vars => EarlyInv'
  <1> SUFFICES ASSUME Inv, [Next]_vars PROVE EarlyInv'
      OBVIOUS
  <1>0. /\ EarlyInv /\ LetterInv /\ NannyInv /\ SenderInv
        /\ ClockType /\ SenderType /\ NannyType
      BY TypeParts DEF Inv, Types
  <1> USE DEF EarlyInv
  <1>1. CASE NannyStart
      BY <1>0, <1>1 DEF NannyStart, promise
  <1>2. CASE NannyReceive
    <2>1. UNCHANGED <<sender, kept>>
        BY <1>2 DEF NannyReceive, promise
    <2>2. ASSUME NEW s \in Senders, mailbox = <<sender[s].message>>,
                 sender[s].message \in Values
          PROVE nanny' = "keep"
        BY <1>2, <2>2 DEF NannyReceive
    <2> QED BY <1>0, <1>2, <2>1, <2>2 DEF NannyReceive
  <1>3. CASE NannyTimeout
    <2>1. UNCHANGED <<sender, kept>> /\ mailbox = <<>> /\ nanny = "wait"
        BY <1>3 DEF NannyTimeout, promise
    <2> QED BY <1>0, <2>1
  <1>4. CASE NannyKeep
      BY <1>0, <1>4 DEF NannyKeep
  <1>5. CASE NannyRuin \/ NannyPost
      BY <1>0, <1>5 DEF NannyRuin, NannyPost
  <1>6. ASSUME NEW s \in Senders, (\E m \in Messages : Accept(s, m)) \/ Refuse(s)
        PROVE EarlyInv'
    <2>1. ~sender'[s].ok
        BY <1>0, <1>6, SenderFields, SentFields DEF SenderInv, Engaged, Accept, Refuse
    <2>2. \A u \in Senders \ {s} : sender'[u] = sender[u]
        BY <1>0, <1>6, SenderFields, SentFields
    <2>3. UNCHANGED <<nanny, mailbox, kept>>
        BY <1>6 DEF Accept, Refuse, nannys, promise
    <2> QED BY <1>0, <2>1, <2>2, <2>3
  <1>7. ASSUME NEW s \in Senders, ThreadSend(s) PROVE EarlyInv'
    <2>1. \A u \in Senders : ~sender[u].ok
        BY <1>0, <1>7 DEF ThreadSend, SenderInv, Engaged
    <2>2. /\ mailbox = <<>> /\ nanny \notin {"keep", "flag"}
          /\ nanny \in {"ruin", "post", "dead"} => now >= Lifespan
        BY <1>0, <2>1 DEF LetterInv
    <2>3. /\ sender'[s].message = sender[s].message /\ sender'[s].at = now
          /\ \A u \in Senders \ {s} : sender'[u] = sender[u]
        BY <1>0, <1>7, SenderFields, SentFields
    <2>4. UNCHANGED nanny /\ (nanny # "dead" => mailbox' = <<sender'[s].message>>)
        BY <2>2, <2>3, <1>7 DEF ThreadSend, nannys
    <2>5. now < Lifespan => nanny \in {"start", "wait"}
        BY <1>0, <2>2, PromisesAssumption DEF ClockType, NannyType
    <2> QED BY <2>1, <2>3, <2>4, <2>5
  <1>8. CASE UNCHANGED <<mailbox, nanny, kept, sender>>
      BY <1>0, <1>8
  <1> QED BY <1>1, <1>2, <1>3, <1>4, <1>5, <1>6, <1>7, <1>8, Steps, Frames
          DEF NannyStep, vars, nannys, promise, elsewhere

LEMMA StepAnswer == Inv /\ [Next]_vars => AnswerInv'
  <1> SUFFICES ASSUME Inv, [Next]_vars PROVE AnswerInv'
      OBVIOUS
  <1>0. AnswerInv /\ NannyInv /\ TokenInv /\ ClockType /\ FlagType /\ WaiterType /\ NannyType
      BY TypeParts DEF Inv, Types
  <1> USE DEF AnswerInv, AnswersAgree
  \* A resolution is there before anyone has the token, and then it stays.
  <1>1. \A w \in Waiters : waiter[w].pc = "give" => nanny = "dead"
      BY <1>0 DEF TokenInv, Holders
  <1>2. /\ kept => kept' /\ value' = value /\ ~ruined'
        /\ ruined => ruined'
        /\ nanny = "dead" => UNCHANGED <<kept, ruined, value>>
    <2>1. CASE NannyStart \/ NannyReceive \/ NannyTimeout \/ NannyPost
        BY <2>1, <1>0 DEF NannyStart, NannyReceive, NannyTimeout, NannyPost, promise,
               NannyInv
    <2>2. CASE NannyKeep \/ NannyRuin
        BY <2>2, <1>0 DEF NannyKeep, NannyRuin, NannyInv, Settled
    <2>3. CASE UNCHANGED <<value, kept, ruined>>
        BY <2>3, <1>0 DEF NannyInv
    <2> QED BY <2>1, <2>2, <2>3, Steps, Frames DEF NannyStep, vars, promise, elsewhere
  <1>3. now \in Nat /\ now' \in Nat /\ now' >= now
    <2>1. now' \in {now, now + 1}
        BY Steps, Frames DEF Tick, vars, elsewhere
    <2> QED BY <2>1, <1>0, PromisesAssumption DEF ClockType
  <1>4. ASSUME NEW w \in Waiters, waiter'[w] = waiter[w]
        PROVE  /\ waiter'[w].pc = "done" =>
                    \/ kept' /\ ~ruined' /\ waiter'[w].result = value'
                    \/ waiter'[w].result = Failure /\ (ruined' \/ now' >= waiter'[w].until)
               /\ waiter'[w].pc = "give" =>
                    IF kept' THEN waiter'[w].result = value' ELSE waiter'[w].result = Failure
    <2>1. waiter[w].until \in Nat
        BY <1>0 DEF WaiterType, WaiterRecord
    <2> QED BY <1>0, <1>1, <1>2, <1>3, <1>4, <2>1
  <1>5. CASE UNCHANGED waiter
      BY <1>4, <1>5
  <1>6. ASSUME NEW w \in Waiters,
               \/ \E patience \in Patience : Wait(w, patience)
               \/ Take(w) \/ WaiterStep(w)
        PROVE AnswerInv'
    <2>1. /\ \A u \in Waiters \ {w} : waiter'[u] = waiter[u]
          /\ UNCHANGED <<now, nanny, value, kept, ruined>>
        BY <1>0, <1>6, Zenon DEF Wait, Take, WaiterStep, Peek, LosePatience, Read, Give,
               Answered, WaiterType, elsewhere, nannys
    <2>2. CASE \E patience \in Patience : Wait(w, patience)
      <3>1. \/ waiter'[w].pc = "sync"
            \/ kept /\ waiter'[w].pc = "done" /\ waiter'[w].result = value
            \/ ruined /\ waiter'[w].pc = "done" /\ waiter'[w].result = Failure
          BY <2>2, <1>0 DEF Wait, Answered, WaiterType
      <3> QED BY <3>1, <2>1, <1>0, <1>4 DEF NannyInv
    <2>3. CASE Peek(w) \/ Take(w)
      <3>1. waiter'[w].pc \in {"take", "read"}
        <4>1. Peek(w) => waiter'[w].pc = "take"
            BY <1>0 DEF Peek, WaiterType
        <4>2. Take(w) => waiter'[w].pc = "read"
            BY <1>0 DEF Take, WaiterType
        <4> QED BY <2>3, <4>1, <4>2
      <3> QED BY <3>1, <2>1, <1>4
    <2>4. CASE LosePatience(w)
      <3>1. /\ waiter'[w].pc = "done" /\ waiter'[w].result = Failure
            /\ waiter'[w].until = waiter[w].until /\ now >= waiter[w].until
          BY <2>4, <1>0 DEF LosePatience, Answered, WaiterType
      <3> QED BY <3>1, <2>1, <1>4
    <2>5. CASE Read(w)
      <3>1. nanny = "dead"
          BY <2>5, <1>0 DEF Read, TokenInv, Holders
      <3>2. waiter'[w].pc = "give"
          BY <2>5, <1>0 DEF Read, WaiterType
      <3>3. waiter'[w].result = IF ~ruined /\ kept THEN value ELSE Failure
          BY <2>5, <1>0 DEF Read, WaiterType
      <3>4. IF kept THEN waiter'[w].result = value ELSE waiter'[w].result = Failure
          BY <3>3, <1>0 DEF NannyInv
      <3> QED BY <3>2, <3>4, <2>1, <1>4
    <2>6. CASE Give(w)
      <3>1. nanny = "dead" /\ (kept \/ ruined) /\ (kept => ~ruined)
          BY <2>6, <1>0, <1>1 DEF Give, NannyInv, Settled
      <3>2. /\ waiter'[w].pc = "done" /\ waiter'[w].result = waiter[w].result
            /\ waiter[w].pc = "give"
          BY <2>6, <1>0 DEF Give, WaiterType
      <3> QED BY <3>1, <3>2, <2>1, <1>0, <1>4
    <2> QED BY <2>2, <2>3, <2>4, <2>5, <2>6, <1>6 DEF WaiterStep
  <1> QED BY <1>5, <1>6, Steps, Frames DEF vars, nannys, promise

LEMMA InvStep == Inv /\ [Next]_vars => Inv'
  BY StepType, StepNanny, StepSender, StepLetter, StepEarly, StepToken, StepAnswer DEF Inv

LEMMA InvHolds == Spec => []Inv
  BY InitInv, InvStep, PTL DEF Spec

-----------------------------------------------------------------------------
\* Type correctness of Promises: above all, at most one send and one post.
THEOREM PromisesTypeCorrect == Spec => []TypeOK
  <1>1. Inv => TypeOK
      BY DEF Inv
  <1> QED BY <1>1, InvHolds, PTL

\* One resolver at most is let through (the one send of promise/new's
\* locative), and a kept promise holds its message.
THEOREM OneResolverHolds == Spec => []OneResolver
  <1>1. Inv => OneResolver
    <2> SUFFICES ASSUME Inv PROVE OneResolver
        OBVIOUS
    <2>1. \A s, u \in Senders :
             sender[s].message # None /\ sender[u].message # None => s = u
        BY DEF Inv, SenderInv, Engaged
    <2>2. ASSUME kept PROVE \E s \in Senders : sender[s].message = value /\ value # None
        BY <2>2, PromisesAssumption DEF Inv, LetterInv, NannyInv
    <2> QED BY <2>1, <2>2 DEF OneResolver
  <1> QED BY <1>1, InvHolds, PTL

\* Every waiter that has been answered was told the one resolution, or of a
\* failure for a reason (promise/wait beside promise/keep!, promise/ruin!).
THEOREM AnswersHold == Spec => []AnswersAgree
  <1>1. Inv => AnswersAgree
      BY DEF Inv, AnswerInv
  <1> QED BY <1>1, InvHolds, PTL

\* A well-formed resolution accepted within the lifespan is not lost to the
\* nanny's timer.
THEOREM EarlyResolutionHolds == Spec => []EarlyResolutionStands
  <1>1. Inv => EarlyResolutionStands
      BY DEF Inv, EarlyInv, NannyInv, Settled, EarlyResolutionStands
  <1> QED BY <1>1, InvHolds, PTL

\* Once the nanny has posted, the token is the semaphore's or one waiter's.
THEOREM TurnstileHolds == Spec => []Turnstile
  <1>1. Inv => Turnstile
    <2> SUFFICES ASSUME Inv PROVE Turnstile
        OBVIOUS
    <2>1. Cardinality({}) = 0 /\ \A w \in Waiters : Cardinality({w}) = 1
        BY FS_EmptySet, FS_Singleton
    <2> QED BY <2>1 DEF Inv, TokenInv, Holders, Turnstile
  <1> QED BY <1>1, InvHolds, PTL

\* The outcome and the answers that PromiseCell sees.
Outcome == IF kept THEN value ELSE IF ruined THEN Failure ELSE None
Answers == [w \in Waiters |-> IF waiter[w].pc = "done" THEN waiter[w].result ELSE None]

LEMMA CellMapping ==
    /\ Cell!vars = <<Outcome, Answers>>
    /\ Outcome' = Outcome /\ Answers' = Answers => UNCHANGED Cell!vars
  BY DEF Cell!vars, Outcome, Answers

\* What an unanswered waiter's step makes of the answers.
LEMMA AnswerSteps ==
    ASSUME Inv, NEW w \in Waiters, waiter[w].pc # "done",
           \A u \in Waiters \ {w} : waiter'[u] = waiter[u],
           UNCHANGED <<kept, ruined, value>>,
           waiter'[w].pc = "done" =>
              /\ waiter'[w].result \in {Outcome, Failure}
              /\ waiter'[w].result # None
    PROVE  [Cell!Next]_(Cell!vars)
  <1>0. Outcome' = Outcome
      BY DEF Outcome
  <1>1. CASE waiter'[w].pc # "done"
    <2>1. Answers' = Answers
        BY <1>1 DEF Answers
    <2> QED BY <1>0, <2>1, CellMapping
  <1>2. CASE waiter'[w].pc = "done"
    <2>1. Answers[w] = None
        BY DEF Answers
    <2>2. Answers' = [Answers EXCEPT ![w] = waiter'[w].result]
        BY <1>2 DEF Answers
    <2>3. waiter'[w].result \in {Outcome, Failure} \ {None}
        BY <1>2
    <2> QED BY <1>0, <2>1, <2>2, <2>3 DEF Cell!Next, Cell!Answer, Outcome, Answers
  <1> QED BY <1>1, <1>2

\* The nanny, the turnstile and the waiters implement the write-once cell.
THEOREM PromisesImplementCell == Spec => ImplementsCell
  <1>1. Init => Cell!Init
      BY DEF Init, Cell!Init
  <1>2. Inv /\ [Next]_vars => [Cell!Next]_(Cell!vars)
    <2> SUFFICES ASSUME Inv, [Next]_vars PROVE [Cell!Next]_(Cell!vars)
        OBVIOUS
    <2>0. AnswerInv /\ NannyInv /\ TokenInv /\ FlagType /\ WaiterType /\ NannyType
        BY TypeParts DEF Inv, Types
    <2>1. CASE NannyRuin \/ (NannyKeep /\ nanny = "flag")
      <3>1. Outcome = None /\ Outcome' \in Values \cup {Failure}
          BY <2>0, <2>1, PromisesAssumption DEF Outcome, NannyRuin, NannyKeep, NannyInv, Settled
      <3>2. Answers' = Answers
          BY <2>1 DEF Answers, NannyRuin, NannyKeep
      <3> QED BY <3>1, <3>2 DEF Cell!Next, Cell!Resolve, Outcome, Answers
    <2>2. CASE NannyKeep /\ nanny = "keep"
      <3>1. Outcome' = Outcome
          BY <2>0, <2>2 DEF Outcome, NannyKeep, NannyInv, Settled
      <3>2. Answers' = Answers
          BY <2>2 DEF Answers, NannyKeep
      <3> QED BY <3>1, <3>2, CellMapping
    <2>3. CASE UNCHANGED <<value, kept, ruined, waiter>>
      <3>1. Outcome' = Outcome /\ Answers' = Answers
          BY <2>3 DEF Outcome, Answers
      <3> QED BY <3>1, CellMapping
    <2>4. ASSUME NEW w \in Waiters,
                 \/ \E patience \in Patience : Wait(w, patience)
                 \/ Take(w) \/ WaiterStep(w)
          PROVE [Cell!Next]_(Cell!vars)
      <3>1. /\ \A u \in Waiters \ {w} : waiter'[u] = waiter[u]
            /\ UNCHANGED <<value, kept, ruined>>
            /\ waiter[w].pc # "done"
          BY <2>0, <2>4, Zenon DEF Wait, Take, WaiterStep, Peek, LosePatience, Read, Give,
                 Answered, WaiterType, elsewhere, nannys
      <3>2. ASSUME waiter'[w].pc = "done"
            PROVE  \/ kept /\ waiter'[w].result = value
                   \/ waiter'[w].result = Failure
        <4>1. AnswersAgree'
            BY StepAnswer DEF AnswerInv
        <4> QED BY <4>1, <3>1, <3>2 DEF AnswersAgree
      <3>3. kept => Outcome = value /\ value # None
          BY <2>0, PromisesAssumption DEF Outcome, NannyInv
      <3> QED BY <3>1, <3>2, <3>3, AnswerSteps, PromisesAssumption
    <2> QED BY <2>1, <2>2, <2>3, <2>4, Steps, Frames
            DEF NannyStep, NannyStart, NannyReceive, NannyTimeout, NannyKeep, NannyPost,
                vars, nannys, promise
  <1> QED BY <1>1, <1>2, InvHolds, PTL DEF Spec, ImplementsCell, Cell!Spec
=============================================================================
