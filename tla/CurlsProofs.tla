----------------------------- MODULE CurlsProofs -----------------------------
(****************************************************************************)
(* Theorems about Curls for any actors, locatives and expirations.          *)
(*                                                                          *)
(* TypeOK, ResolvesWhileLive and NoneForgotten are inductive together with  *)
(* ActorInv, which says of an actor in the middle of a serialization that   *)
(* the locative it has inserted, or found, is still in EXPORTS unless it    *)
(* has expired: the reaper takes nothing else out.                          *)
(****************************************************************************)
EXTENDS Curls, TLAPS

ActorInv ==
    \A a \in Actors : actor[a].pc # "idle" =>
        /\ actor[a].curl \in curls
        /\ actor[a].pc \in {"notify", "return"} /\ Unexpired(actor[a].curl.locative)
              => actor[a].curl.locative \in exports

Inv == TypeOK /\ ActorInv /\ ResolvesWhileLive /\ NoneForgotten

LEMMA InitInv == Init => Inv
  <1> SUFFICES ASSUME Init PROVE Inv
      OBVIOUS
  <1>1. TypeOK
      BY CurlsAssumption DEF Init, TypeOK, Idle
  <1>2. ActorInv /\ ResolvesWhileLive /\ NoneForgotten
      BY DEF Init, ActorInv, ResolvesWhileLive, NoneForgotten, Idle
  <1> QED BY <1>1, <1>2 DEF Inv

\* The step of the clock, and every other step, leave the past behind.
LEMMA Expired == TypeOK /\ [Next]_vars =>
    /\ now' \in 0 .. Late
    /\ \A x \in Locatives : Unexpired(x)' => Unexpired(x)
  <1> SUFFICES ASSUME TypeOK, [Next]_vars
               PROVE  /\ now' \in 0 .. Late
                      /\ \A x \in Locatives : Unexpired(x)' => Unexpired(x)
      OBVIOUS
  <1>1. now' \in 0 .. Late /\ now' >= now
    <2>1. CASE Tick
        BY <2>1, CurlsAssumption DEF Tick, TypeOK
    <2>2. CASE UNCHANGED now
        BY <2>2, CurlsAssumption DEF TypeOK
    <2> QED BY <2>1, <2>2 DEF Next, vars, NewCurl, Spoil, ActorStep, Lookup, Insert,
               Notify, Return, Serialize, Deserialize, ReaperStep, Enroll, Enrolled,
               Timeout, Reap, Reaped
  <1> QED BY <1>1, CurlsAssumption DEF Unexpired, TypeOK

\* What an actor's own step does to its record.
LEMMA ActorFields ==
    ASSUME TypeOK, NEW a \in Actors
    PROVE  /\ Lookup(a) \/ Insert(a) \/ Notify(a) =>
                /\ actor' \in [Actors -> [pc : {"idle", "lookup", "insert", "notify",
                                                "return"},
                                          curl : Curl \cup {None}]]
                /\ actor'[a].curl = actor[a].curl
           /\ Lookup(a) => actor'[a].pc =
                IF actor[a].curl.locative \in exports THEN "return" ELSE "insert"
           /\ Insert(a) => actor'[a].pc = "notify"
           /\ Notify(a) => actor'[a].pc = "return"
           /\ ActorStep(a) => \A b \in Actors \ {a} : actor'[b] = actor[b]
  <1> DEFINE Places == {"idle", "lookup", "insert", "notify", "return"}
             Records == [Actors -> [pc : Places, curl : Curl \cup {None}]]
  <1>0. actor \in Records
      BY DEF TypeOK
  <1>1. ASSUME NEW p \in Places, actor' = [actor EXCEPT ![a].pc = p]
        PROVE  /\ actor' \in Records
               /\ actor'[a].pc = p /\ actor'[a].curl = actor[a].curl
               /\ \A b \in Actors \ {a} : actor'[b] = actor[b]
      BY <1>0, <1>1
  <1> HIDE DEF Records
  <1>2. ASSUME Lookup(a)
        PROVE  /\ actor' \in Records
               /\ actor'[a].pc =
                    IF actor[a].curl.locative \in exports THEN "return" ELSE "insert"
               /\ actor'[a].curl = actor[a].curl
               /\ \A b \in Actors \ {a} : actor'[b] = actor[b]
    <2>1. CASE actor[a].curl.locative \in exports
        BY <1>1, <1>2, <2>1 DEF Lookup
    <2>2. CASE actor[a].curl.locative \notin exports
        BY <1>1, <1>2, <2>2 DEF Lookup
    <2> QED BY <2>1, <2>2
  <1>3. ASSUME Insert(a)
        PROVE  /\ actor' \in Records
               /\ actor'[a].pc = "notify" /\ actor'[a].curl = actor[a].curl
               /\ \A b \in Actors \ {a} : actor'[b] = actor[b]
      BY <1>1, <1>3 DEF Insert
  <1>4. ASSUME Notify(a)
        PROVE  /\ actor' \in Records
               /\ actor'[a].pc = "return" /\ actor'[a].curl = actor[a].curl
               /\ \A b \in Actors \ {a} : actor'[b] = actor[b]
      BY <1>1, <1>4 DEF Notify
  <1>5. ASSUME Return(a) PROVE \A b \in Actors \ {a} : actor'[b] = actor[b]
      BY <1>0, <1>5 DEF Return, Records
  <1> QED BY <1>2, <1>3, <1>4, <1>5 DEF ActorStep, Records

\* A locative that is being serialized.
LEMMA ActorCurl ==
    ASSUME TypeOK, ActorInv, NEW a \in Actors, actor[a].pc # "idle"
    PROVE  actor[a].curl \in Curl /\ actor[a].curl.locative \in Locatives
  BY DEF TypeOK, ActorInv, Curl

LEMMA StepType == Inv /\ [Next]_vars => TypeOK'
  <1> SUFFICES ASSUME Inv, [Next]_vars PROVE TypeOK'
      OBVIOUS
  <1>0. TypeOK /\ now' \in 0 .. Late
      BY Expired DEF Inv
  <1>1. ASSUME NEW x \in Locatives, NEW d \in (1 .. Late) \cup {Inf}, NewCurl(x, d)
        PROVE TypeOK'
      BY <1>0, <1>1 DEF NewCurl, TypeOK, Curl, reaping
  <1>2. ASSUME NEW x \in Locatives, Spoil(x) PROVE TypeOK'
      BY <1>0, <1>2 DEF Spoil, TypeOK, reaping
  <1>3. ASSUME NEW a \in Actors, NEW c \in curls, Serialize(a, c) PROVE TypeOK'
      BY <1>0, <1>3 DEF Serialize, TypeOK, reaping
  <1>4. ASSUME NEW a \in Actors, Lookup(a) PROVE TypeOK'
    <2>1. actor' \in [Actors -> [pc : {"idle", "lookup", "insert", "notify", "return"},
                                 curl : Curl \cup {None}]]
        BY <1>0, <1>4, ActorFields
    <2> QED BY <1>0, <1>4, <2>1 DEF Lookup, TypeOK, reaping
  <1>5. ASSUME NEW a \in Actors, Insert(a) PROVE TypeOK'
    <2>1. actor[a].curl.locative \in Locatives
        BY <1>0, <1>5, ActorCurl DEF Inv, Insert
    <2>2. actor' \in [Actors -> [pc : {"idle", "lookup", "insert", "notify", "return"},
                                 curl : Curl \cup {None}]]
        BY <1>0, <1>5, ActorFields
    <2> QED BY <1>0, <1>5, <2>1, <2>2 DEF Insert, TypeOK, reaping
  <1>6. ASSUME NEW a \in Actors, Notify(a) PROVE TypeOK'
    <2>1. actor[a].curl.locative \in Locatives
        BY <1>0, <1>6, ActorCurl DEF Inv, Notify
    <2>2. mailbox' \in Seq(Locatives)
        BY <1>0, <1>6, <2>1 DEF Notify, TypeOK
    <2>3. actor' \in [Actors -> [pc : {"idle", "lookup", "insert", "notify", "return"},
                                 curl : Curl \cup {None}]]
        BY <1>0, <1>6, ActorFields
    <2> QED BY <1>0, <1>6, <2>2, <2>3 DEF Notify, TypeOK, reaping
  <1>7. ASSUME NEW a \in Actors, Return(a) PROVE TypeOK'
    <2>1. actor[a].curl \in curls
        BY <1>7 DEF Inv, ActorInv, Return
    <2>2. actor' \in [Actors -> [pc : {"idle", "lookup", "insert", "notify", "return"},
                                 curl : Curl \cup {None}]]
        BY <1>0, <1>7 DEF TypeOK, Return, Idle
    <2> QED BY <1>0, <1>7, <2>1, <2>2 DEF Return, TypeOK, reaping
  <1>8. ASSUME NEW c \in wire, Deserialize(c) PROVE TypeOK'
      BY <1>0, <1>8 DEF Deserialize, TypeOK, reaping
  <1>9. CASE Enroll
    <2>1. Head(mailbox) \in Locatives /\ Tail(mailbox) \in Seq(Locatives)
        BY <1>0, <1>9 DEF Enroll, TypeOK
    <2>2. heap' \in [Locatives -> Nat]
        BY <1>0, <1>9, <2>1 DEF Enroll, TypeOK
    <2>3. reaper' \in {"wait", "enroll"} /\ waited' \in 0 .. Interval
        BY <1>0, <1>9, CurlsAssumption DEF Enroll, TypeOK
    <2>4. mailbox' \in Seq(Locatives)
        BY <1>9, <2>1 DEF Enroll
    <2>5. UNCHANGED <<now, usable, curls, actor, exports, wire, held>>
        BY <1>9 DEF Enroll
    <2> QED BY <1>0, <2>2, <2>3, <2>4, <2>5 DEF TypeOK
  <1>10. CASE Enrolled \/ Timeout \/ Reaped
      BY <1>0, <1>10, CurlsAssumption DEF Enrolled, Timeout, Reaped, TypeOK
  <1>11. CASE Reap
    <2>1. PICK x \in Candidates : /\ heap' = [heap EXCEPT ![x] = @ - 1]
                                  /\ exports' = exports \ {x}
        BY <1>11 DEF Reap
    <2>2. heap' \in [Locatives -> Nat]
        BY <1>0, <2>1 DEF Candidates, TypeOK
    <2> QED BY <1>0, <1>11, <2>1, <2>2 DEF Reap, TypeOK
  <1>12. CASE Tick
    <2>1. waited' \in 0 .. Interval
        BY <1>0, <1>12, CurlsAssumption DEF Tick, TypeOK
    <2> QED BY <1>0, <1>12, <2>1 DEF Tick, TypeOK
  <1>13. CASE UNCHANGED vars
      BY <1>0, <1>13 DEF vars, TypeOK
  <1> QED BY <1>1, <1>2, <1>3, <1>4, <1>5, <1>6, <1>7, <1>8, <1>9, <1>10, <1>11, <1>12,
             <1>13 DEF Next, ActorStep, ReaperStep

\* Nothing but Reap takes a locative out of EXPORTS, and only one that has
\* expired.
LEMMA ExportsKept ==
    ASSUME Inv, [Next]_vars, NEW x \in exports, Unexpired(x)
    PROVE  x \in exports'
  <1>1. CASE Reap
      BY <1>1 DEF Reap, Candidates
  <1>2. CASE exports \subseteq exports'
      BY <1>2
  <1> QED BY <1>1, <1>2 DEF Next, vars, NewCurl, Spoil, ActorStep, Lookup, Insert, Notify,
             Return, Serialize, Deserialize, ReaperStep, Enroll, Enrolled, Timeout, Reaped,
             Tick

\* An actor that does not move stays within ActorInv.
LEMMA ActorKept ==
    ASSUME Inv, [Next]_vars, curls \subseteq curls',
           NEW a \in Actors, actor'[a] = actor[a], actor'[a].pc # "idle"
    PROVE  /\ actor'[a].curl \in curls'
           /\ actor'[a].pc \in {"notify", "return"} /\ Unexpired(actor[a].curl.locative)'
                 => actor'[a].curl.locative \in exports'
  <1>1. actor[a].curl \in curls /\ actor[a].curl.locative \in Locatives
      BY ActorCurl DEF Inv, ActorInv
  <1>2. ASSUME actor[a].pc \in {"notify", "return"}, Unexpired(actor[a].curl.locative)'
        PROVE  actor[a].curl.locative \in exports'
    <2>1. Unexpired(actor[a].curl.locative)
        BY <1>1, <1>2, Expired DEF Inv
    <2>2. actor[a].curl.locative \in exports
        BY <1>2, <2>1 DEF Inv, ActorInv
    <2> QED BY <2>1, <2>2, ExportsKept
  <1> QED BY <1>1, <1>2

LEMMA StepActor == Inv /\ [Next]_vars => ActorInv'
  <1> SUFFICES ASSUME Inv, [Next]_vars, NEW b \in Actors, actor'[b].pc # "idle"
               PROVE  /\ actor'[b].curl \in curls'
                      /\ actor'[b].pc \in {"notify", "return"}
                           /\ Unexpired(actor[b].curl.locative)'
                            => actor'[b].curl.locative \in exports'
      BY DEF ActorInv, Unexpired
  <1>0. TypeOK /\ ActorInv
      BY DEF Inv
  <1>1. curls \subseteq curls'
      BY DEF Next, vars, NewCurl, Spoil, ActorStep, Lookup, Insert, Notify, Return,
             Serialize, Deserialize, ReaperStep, Enroll, Enrolled, Timeout, Reap, Reaped,
             Tick
  <1>2. CASE actor'[b] = actor[b]
      BY <1>1, <1>2, ActorKept
  <1>3. ASSUME NEW a \in Actors, NEW c \in curls, Serialize(a, c), a = b
        PROVE actor'[b].curl \in curls' /\ actor'[b].pc = "lookup"
      BY <1>0, <1>1, <1>3 DEF Serialize, TypeOK
  <1>4. ASSUME Lookup(b) \/ Insert(b) \/ Notify(b)
        PROVE  /\ actor'[b].curl \in curls'
               /\ actor'[b].pc \in {"notify", "return"}
                    /\ Unexpired(actor[b].curl.locative)'
                     => actor'[b].curl.locative \in exports'
    <2>1. actor[b].pc # "idle" /\ exports \subseteq exports'
        BY <1>4 DEF Lookup, Insert, Notify
    <2>2. actor'[b].curl = actor[b].curl /\ actor[b].curl \in curls
        BY <1>0, <1>4, <2>1, ActorFields DEF ActorInv
    <2>3. actor[b].curl.locative \in Locatives
        BY <1>0, <2>1, ActorCurl
    <2>4. ASSUME actor'[b].pc \in {"notify", "return"},
                 Unexpired(actor[b].curl.locative)'
          PROVE  actor[b].curl.locative \in exports'
      <3>1. CASE Lookup(b)
          BY <1>0, <2>1, <2>4, <3>1, ActorFields
      <3>2. CASE Insert(b)
          BY <3>2 DEF Insert
      <3>3. CASE Notify(b)
        <4>1. actor[b].pc = "notify"
            BY <3>3 DEF Notify
        <4>2. Unexpired(actor[b].curl.locative)
            BY <1>0, <2>2, <2>3, <2>4, Expired DEF Unexpired
        <4> QED BY <1>0, <2>1, <4>1, <4>2 DEF ActorInv
      <3> QED BY <1>4, <3>1, <3>2, <3>3
    <2> QED BY <1>1, <2>2, <2>4
  <1>5. ASSUME Return(b) PROVE FALSE
      BY <1>0, <1>5 DEF Return, TypeOK, Idle
  <1>6. actor'[b] = actor[b]
          \/ (\E c \in curls : Serialize(b, c))
          \/ (Lookup(b) \/ Insert(b) \/ Notify(b))
          \/ Return(b)
    <2>1. ASSUME NEW a \in Actors \ {b}, ActorStep(a) PROVE actor'[b] = actor[b]
        BY <1>0, <2>1, ActorFields
    <2>2. ASSUME NEW a \in Actors \ {b}, NEW c \in curls, Serialize(a, c)
          PROVE actor'[b] = actor[b]
        BY <1>0, <2>2 DEF Serialize, TypeOK
    <2> QED BY <2>1, <2>2 DEF Next, vars, NewCurl, Spoil, ActorStep, Deserialize,
               ReaperStep, Enroll, Enrolled, Timeout, Reap, Reaped, Tick
  <1> QED BY <1>2, <1>3, <1>4, <1>5, <1>6

LEMMA StepResolves == Inv /\ [Next]_vars => ResolvesWhileLive'
  <1> SUFFICES ASSUME Inv, [Next]_vars PROVE ResolvesWhileLive'
      OBVIOUS
  <1>0. TypeOK /\ ActorInv /\ ResolvesWhileLive
      BY DEF Inv
  <1>1. ASSUME NEW c \in wire', Unexpired(c.locative)' PROVE c.locative \in exports'
    <2>1. CASE c \in wire
      <3>1. c.locative \in Locatives
          BY <1>0, <2>1 DEF TypeOK, Curl
      <3>2. Unexpired(c.locative)
          BY <1>0, <1>1, <3>1, Expired
      <3> QED BY <1>0, <2>1, <3>2, ExportsKept DEF ResolvesWhileLive
    <2>2. CASE c \notin wire
      <3>1. PICK a \in Actors : Return(a)
          BY <2>2 DEF Next, vars, NewCurl, Spoil, ActorStep, Lookup, Insert, Notify,
             Serialize, Deserialize, ReaperStep, Enroll, Enrolled, Timeout, Reap, Reaped,
             Tick
      <3>2. c = actor[a].curl /\ actor[a].pc = "return"
          BY <2>2, <3>1 DEF Return
      <3>3. c.locative \in Locatives
          BY <1>0, <3>2, ActorCurl
      <3>4. Unexpired(c.locative)
          BY <1>0, <1>1, <3>3, Expired
      <3> QED BY <1>0, <3>1, <3>2, <3>4 DEF ActorInv, Return
    <2> QED BY <2>1, <2>2
  <1>2. ASSUME NEW h \in held', h.target = None PROVE ~Unexpired(h.curl.locative)'
    <2>1. CASE h \in held
      <3>1. h.curl.locative \in Locatives
          BY <1>0, <2>1 DEF TypeOK, Curl
      <3> QED BY <1>0, <1>2, <2>1, <3>1, Expired DEF ResolvesWhileLive
    <2>2. CASE h \notin held
      <3>1. PICK c \in wire : Deserialize(c)
          BY <2>2 DEF Next, vars, NewCurl, Spoil, ActorStep, Lookup, Insert, Notify,
             Return, Serialize, ReaperStep, Enroll, Enrolled, Timeout, Reap, Reaped, Tick
      <3>2. /\ h.curl = c
            /\ h.target = IF c.locative \in exports THEN c.locative ELSE None
          BY <2>2, <3>1 DEF Deserialize
      <3>3. c.locative \in Locatives
          BY <1>0 DEF TypeOK, Curl
      <3>4. c.locative \notin exports
          BY <1>2, <3>2, <3>3, CurlsAssumption
      <3> QED BY <1>0, <3>2, <3>3, <3>4, Expired DEF ResolvesWhileLive
    <2> QED BY <2>1, <2>2
  <1> QED BY <1>1, <1>2 DEF ResolvesWhileLive, Unexpired

\* A locative x in EXPORTS is in the reaper's heap, in its mailbox, or in the
\* hands of an actor about to notify it.
Enrolment(x) ==
    \/ heap[x] > 0
    \/ \E i \in 1 .. Len(mailbox) : mailbox[i] = x
    \/ \E a \in Actors : actor[a].pc = "notify" /\ actor[a].curl.locative = x

LEMMA StepForgotten == Inv /\ [Next]_vars => NoneForgotten'
  <1> SUFFICES ASSUME Inv, [Next]_vars, NEW x \in exports', Expires[x] # Inf
               PROVE  Enrolment(x)'
      BY DEF NoneForgotten, Enrolment
  <1>0. TypeOK /\ ActorInv /\ (x \in exports => Enrolment(x))
      BY DEF Inv, NoneForgotten, Enrolment
  <1>1. ASSUME NEW a \in Actors, Insert(a) PROVE Enrolment(x)'
    <2>1. actor'[a].pc = "notify" /\ actor'[a].curl = actor[a].curl
        BY <1>0, <1>1, ActorFields
    <2>2. CASE x = actor[a].curl.locative
        BY <2>1, <2>2 DEF Enrolment
    <2>3. CASE x # actor[a].curl.locative
      <3>1. x \in exports /\ Enrolment(x) /\ actor[a].pc # "notify"
          BY <1>0, <1>1, <2>3 DEF Insert
      <3>2. \A b \in Actors \ {a} : actor'[b] = actor[b]
          BY <1>0, <1>1, ActorFields DEF ActorStep
      <3> QED BY <1>1, <3>1, <3>2 DEF Insert, Enrolment, reaping
    <2> QED BY <2>2, <2>3
  <1>2. ASSUME NEW a \in Actors, Notify(a) PROVE Enrolment(x)'
    <2>1. x \in exports /\ Enrolment(x)
        BY <1>0, <1>2 DEF Notify
    <2>2. actor[a].curl.locative \in Locatives
        BY <1>0, <1>2, ActorCurl DEF Notify
    <2>3. /\ Len(mailbox') = Len(mailbox) + 1
          /\ mailbox'[Len(mailbox) + 1] = actor[a].curl.locative
          /\ \A i \in 1 .. Len(mailbox) : mailbox'[i] = mailbox[i]
          /\ Len(mailbox) \in Nat
        BY <1>0, <1>2, <2>2 DEF Notify, TypeOK
    <2>4. CASE heap[x] > 0
        BY <1>2, <2>4 DEF Notify, Enrolment, reaping
    <2>5. CASE \E i \in 1 .. Len(mailbox) : mailbox[i] = x
        BY <2>3, <2>5 DEF Enrolment
    <2>6. CASE actor[a].curl.locative = x
        BY <2>3, <2>6 DEF Enrolment
    <2>7. ASSUME NEW b \in Actors \ {a}, actor[b].pc = "notify",
                 actor[b].curl.locative = x
          PROVE Enrolment(x)'
      <3>1. actor'[b] = actor[b]
          BY <1>0, <1>2, ActorFields DEF ActorStep
      <3> QED BY <2>7, <3>1 DEF Enrolment
    <2> QED BY <2>1, <2>4, <2>5, <2>6, <2>7 DEF Enrolment
  <1>3. ASSUME NEW a \in Actors, Lookup(a) \/ Return(a) \/ \E c \in curls : Serialize(a, c)
        PROVE Enrolment(x)'
    <2>1. actor[a].pc # "notify" /\ exports' = exports /\ heap' = heap /\ mailbox' = mailbox
        BY <1>3 DEF Lookup, Return, Serialize, Idle, reaping
    <2>2. \A b \in Actors \ {a} : actor'[b] = actor[b]
        BY <1>0, <1>3 DEF Lookup, Return, Serialize, TypeOK
    <2> QED BY <1>0, <2>1, <2>2 DEF Enrolment
  <1>4. CASE Enroll
    <2>1. Enrolment(x) /\ actor' = actor /\ mailbox \in Seq(Locatives) /\ mailbox # <<>>
        BY <1>0, <1>4 DEF Enroll, TypeOK
    <2>2. /\ Len(mailbox) \in Nat \ {0}
          /\ Len(mailbox') = Len(mailbox) - 1
          /\ \A i \in 1 .. Len(mailbox') : mailbox'[i] = mailbox[i + 1]
          /\ Head(mailbox) = mailbox[1] /\ Head(mailbox) \in Locatives
        BY <1>4, <2>1 DEF Enroll
    <2>3. CASE Head(mailbox) = x
        BY <1>0, <1>4, <2>2, <2>3 DEF Enroll, Enrolment, TypeOK
    <2>4. CASE Head(mailbox) # x
      <3>1. heap'[x] = heap[x]
          BY <1>0, <1>4, <2>4 DEF Enroll, TypeOK
      <3>2. ASSUME NEW i \in 1 .. Len(mailbox), mailbox[i] = x
            PROVE \E j \in 1 .. Len(mailbox') : mailbox'[j] = x
        <4>1. i - 1 \in 1 .. Len(mailbox') /\ (i - 1) + 1 = i
            BY <2>2, <2>4, <3>2
        <4> QED BY <2>2, <3>2, <4>1
      <3> QED BY <2>1, <3>1, <3>2 DEF Enrolment
    <2> QED BY <2>3, <2>4
  <1>5. CASE Reap
    <2>1. PICK y \in Candidates : /\ heap' = [heap EXCEPT ![y] = @ - 1]
                                  /\ exports' = exports \ {y}
        BY <1>5 DEF Reap
    <2>2. heap'[x] = heap[x] /\ Enrolment(x)
        BY <1>0, <2>1 DEF TypeOK, Candidates
    <2> QED BY <1>5, <2>2 DEF Reap, Enrolment
  <1>6. CASE UNCHANGED <<actor, exports, heap, mailbox>>
      BY <1>0, <1>6 DEF Enrolment
  <1> QED BY <1>1, <1>2, <1>3, <1>4, <1>5, <1>6 DEF Next, vars, NewCurl, Spoil, ActorStep,
             Deserialize, ReaperStep, Enrolled, Timeout, Reaped, Tick, reaping

-----------------------------------------------------------------------------
LEMMA InvHolds == Spec => []Inv
  <1>1. Inv /\ [Next]_vars => Inv'
      BY StepType, StepActor, StepResolves, StepForgotten DEF Inv
  <1> QED BY <1>1, InitInv, PTL DEF Spec

\* The state of the exporting island has its type in every behaviour.
THEOREM CurlsTypeCorrect == Spec => []TypeOK
  BY InvHolds, PTL DEF Inv

\* However serializing actors and the reaper interleave, a CURL that has left
\* the island resolves for as long as its locative has not expired, and one
\* that resolved to #f was that of an expired locative.
THEOREM ResolutionHolds == Spec => []ResolvesWhileLive
  BY InvHolds, PTL DEF Inv

\* No locative that can expire stays in EXPORTS without the reaper having been
\* told of it, or being about to be.
THEOREM NoneForgottenHolds == Spec => []NoneForgotten
  BY InvHolds, PTL DEF Inv
=============================================================================
