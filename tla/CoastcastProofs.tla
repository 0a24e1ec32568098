--------------------------- MODULE CoastcastProofs ---------------------------
(****************************************************************************)
(* Theorems about Coastcast: type correctness; a decoder holds one          *)
(* subscription, its own; and it gets every frame from its first one on,    *)
(* once and in order.                                                       *)
(****************************************************************************)
EXTENDS Coastcast, FiniteSetTheorems, TLAPS

-----------------------------------------------------------------------------
(* Types.                                                                   *)

RelayMail   == Frames \cup Additions
ForwardMail == Frames \cup Additions \cup Removals
DecoderMail == Frames \cup Orders

RelayType ==
    relay \in [state : {"loop", "wait", "dead"}, mail : Seq(RelayMail),
               relays : SUBSET Islands, request : Additions \cup {None}]

ForwardRelay ==
    [state : {"none", "spawn", "live"}, mail : Seq(ForwardMail),
     curls : SUBSET Subscription, ids : Nat]

ForwardType == forward \in [Islands -> ForwardRelay]

DecoderStates ==
    {"unborn", "start", "enter", "read", "display", "displayed", "subscribe", "loop", "dead"}

ADecoder ==
    [state : DecoderStates, isle : Islands, life : Nat, lock : Nat, gui : Guis \cup {0},
     ctrl : Nat, mail : Seq(DecoderMail), last : 0 .. MaxFrames]

DecoderType == decoder \in [Decoders -> ADecoder]

AGui ==
    [state : {"start", "post", "loop", "leave", "quit"}, isle : Islands,
     decoders : SUBSET Subscriber, to : Islands \cup {None}]

GuiType == gui \in Seq(AGui)

RegistryType == current \in [Islands -> Guis \cup {None}] /\ readlock \in [Islands -> Seq(Nat)]

Types ==
    /\ encoded \in 0 .. MaxFrames
    /\ RelayType /\ ForwardType /\ DecoderType /\ GuiType /\ RegistryType

-----------------------------------------------------------------------------
(* The invariant, in parts.                                                 *)

\* The relay waits with a request; its mailbox dies with it; a forward relay
\* that it has not deployed knows nothing.
RelayInv ==
    /\ relay.state = "wait" => relay.request \in Additions /\ relay.request.isle \notin relay.relays
    /\ relay.state = "dead" => relay.mail = <<>>
    /\ \A i \in Islands \ relay.relays : forward[i].mail = <<>> /\ forward[i].curls = {}
    /\ \A i \in Islands : IsFiniteSet(forward[i].curls)

Positions(s) == 1 .. Len(s)

\* A mailbox holds a request by c, on island i, or a removal.
Asks(s, c, i) == \E k \in Positions(s) : s[k] = AddCURL(c, i)
Removes(s, n) == \E k \in Positions(s) : s[k] = RemoveCURL(n)

AsksOnce(s) ==
    \A j, k \in Positions(s) :
        s[j].body = "AddCURL" /\ s[k].body = "AddCURL" /\ s[j].curl = s[k].curl => j = k

\* The decoder that asked still waits.
Waits(c, i) ==
    decoder[c.who].state = "subscribe" /\ Self(c.who) = c /\ decoder[c.who].isle = i

\* A request is in one place, and who asked waits for it.
AskInv ==
    /\ AsksOnce(relay.mail) /\ \A i \in Islands : AsksOnce(forward[i].mail)
    /\ \A c \in Subscriber : \A i \in Islands : Asks(relay.mail, c, i) => Waits(c, i)
    /\ \A c \in Subscriber : \A i, j \in Islands : Asks(forward[j].mail, c, i) =>
          i = j /\ Waits(c, i) /\ ~ Asks(relay.mail, c, i)
    /\ relay.state = "wait" =>
          LET c == relay.request.curl
              i == relay.request.isle
          IN  Waits(c, i) /\ ~ Asks(relay.mail, c, i) /\ ~ Asks(forward[i].mail, c, i)

\* Subscriptions have different ids, a decoder in its loop has one, and nobody
\* is about to remove it.
HoldInv ==
    /\ \A i \in Islands : \A s \in forward[i].curls :
          /\ s.id <= forward[i].ids
          /\ s.curl.life <= decoder[s.curl.who].life
          /\ s.curl = Self(s.curl.who) =>
                \/ decoder[s.curl.who].state = "dead"
                \/ /\ decoder[s.curl.who].state = "loop"
                   /\ decoder[s.curl.who].isle = i /\ decoder[s.curl.who].ctrl = s.id
          /\ \A t \in forward[i].curls : s.id = t.id => s = t
    /\ \A d \in Decoders : Is(d, "loop") =>
          [id |-> decoder[d].ctrl, curl |-> Self(d)] \in forward[decoder[d].isle].curls
    /\ \A i \in Islands : \A n \in Nat : Removes(forward[i].mail, n) =>
          /\ n <= forward[i].ids
          /\ \A d \in Decoders : Is(d, "loop") /\ decoder[d].isle = i => decoder[d].ctrl # n

IsFrame(m) == m.body = "Frame"

\* The frames of a mailbox are those from l + 1 to e, in order.
Stream(s, l, e) ==
    /\ l <= e
    /\ \A k \in Positions(s) : IsFrame(s[k]) => l < s[k].n /\ s[k].n <= e
    /\ \A n \in l + 1 .. e : \E k \in Positions(s) : IsFrame(s[k]) /\ s[k].n = n
    /\ \A j, k \in Positions(s) : IsFrame(s[j]) /\ IsFrame(s[k]) /\ j < k => s[j].n < s[k].n

Silent(s) == \A k \in Positions(s) : ~ IsFrame(s[k])

\* The relay has passed on the frames up to r, the forward relay of island i those
\* up to f[i], and decoder d has decoded those up to l[d].
RelayStream(r) == relay.state # "dead" => Stream(relay.mail, r, encoded)

ForwardStream(r, f) == \A i \in relay.relays : Stream(forward[i].mail, f[i], r)

DecoderStream(f, l) ==
    \A d \in Decoders : Is(d, "loop") =>
        /\ Stream(decoder[d].mail, l[d], f[decoder[d].isle])
        /\ decoder[d].last # 0 => decoder[d].last = l[d]

Streams(r, f, l) == RelayStream(r) /\ ForwardStream(r, f) /\ DecoderStream(f, l)

\* A decoder that is not in its loop has no frames, nor had any unless it has ended.
SilentInv ==
    \A d \in Decoders : ~ Is(d, "loop") =>
        Silent(decoder[d].mail) /\ (Is(d, "dead") \/ decoder[d].last = 0)

StreamInv ==
    /\ \E r \in Nat, f \in [Islands -> Nat], l \in [Decoders -> Nat] : Streams(r, f, l)
    /\ SilentInv

Inv == Types /\ RelayInv /\ AskInv /\ HoldInv /\ StreamInv

-----------------------------------------------------------------------------
(* Lemmas about mailboxes.                                                  *)

\* A mailbox without its first message.
LEMMA TailFacts ==
    ASSUME NEW S, NEW s \in Seq(S), s # <<>>
    PROVE  /\ 1 \in Positions(s) /\ Head(s) = s[1] /\ s[1] \in S /\ Tail(s) \in Seq(S)
           /\ \A k \in Positions(Tail(s)) :
                 k \in Nat /\ k + 1 \in Positions(s) /\ Tail(s)[k] = s[k + 1]
           /\ \A k \in Positions(s) :
                 k = 1 \/ (k - 1 \in Positions(Tail(s)) /\ Tail(s)[k - 1] = s[k])
  BY DEF Positions

\* A mailbox and one message more.
LEMMA AppendFacts ==
    ASSUME NEW S, NEW s \in Seq(S), NEW m \in S
    PROVE  /\ Len(s) \in Nat /\ Append(s, m) \in Seq(S)
           /\ Positions(Append(s, m)) = Positions(s) \cup {Len(s) + 1}
           /\ \A k \in Positions(s) : k \in Nat /\ k < Len(s) + 1 /\ Append(s, m)[k] = s[k]
           /\ Append(s, m)[Len(s) + 1] = m
  BY DEF Positions

\* What a mailbox asks for and removes, after a message is taken or put.
LEMMA TailAsks ==
    ASSUME NEW S, NEW s \in Seq(S), s # <<>>
    PROVE  /\ \A c, i : Asks(Tail(s), c, i) => Asks(s, c, i)
           /\ \A n : Removes(Tail(s), n) => Removes(s, n)
           /\ \A c, i : Head(s) = AddCURL(c, i) => Asks(s, c, i)
           /\ \A n : Head(s) = RemoveCURL(n) => Removes(s, n)
           /\ AsksOnce(s) => AsksOnce(Tail(s))
           /\ AsksOnce(s) => \A c, i, j : Head(s) = AddCURL(c, i) => ~ Asks(Tail(s), c, j)
  <1>1. PICK t : t = Tail(s)
    OBVIOUS
  <1>2. /\ 1 \in Positions(s) /\ Head(s) = s[1]
        /\ \A k \in Positions(t) : k \in Nat /\ k + 1 \in Positions(s) /\ t[k] = s[k + 1]
    BY <1>1, TailFacts, Zenon
  <1>3. \A c, i : Asks(t, c, i) => Asks(s, c, i)
    BY <1>2 DEF Asks
  <1>4. \A n : Removes(t, n) => Removes(s, n)
    BY <1>2 DEF Removes
  <1>5. \A c, i : Head(s) = AddCURL(c, i) => Asks(s, c, i)
    BY <1>2 DEF Asks
  <1>6. \A n : Head(s) = RemoveCURL(n) => Removes(s, n)
    BY <1>2 DEF Removes
  <1>7. ASSUME AsksOnce(s)
        PROVE  AsksOnce(t)
    <2> SUFFICES ASSUME NEW j \in Positions(t), NEW k \in Positions(t),
                        t[j].body = "AddCURL", t[k].body = "AddCURL", t[j].curl = t[k].curl
                 PROVE  j = k
      BY DEF AsksOnce
    <2>1. j + 1 = k + 1
      BY <1>2, <1>7 DEF AsksOnce
    <2> QED
      BY <1>2, <2>1
  <1>8. ASSUME AsksOnce(s), NEW c, NEW i, NEW j, Head(s) = AddCURL(c, i), Asks(t, c, j)
        PROVE  FALSE
    <2>1. PICK k \in Positions(t) : t[k] = AddCURL(c, j)
      BY <1>8 DEF Asks
    <2>2. k \in Nat /\ k + 1 \in Positions(s) /\ s[k + 1] = AddCURL(c, j)
      BY <1>2, <2>1
    <2>3. 1 = k + 1
      BY <1>2, <1>8, <2>2 DEF AsksOnce, AddCURL
    <2>4. k = 0
      BY <2>2, <2>3
    <2> QED
      BY <2>1, <2>4 DEF Positions
  <1> QED
    BY <1>1, <1>3, <1>4, <1>5, <1>6, <1>7, <1>8, Zenon

LEMMA AppendAsks ==
    ASSUME NEW S, NEW s \in Seq(S), NEW m \in S
    PROVE  /\ \A c, i : Asks(Append(s, m), c, i) <=> Asks(s, c, i) \/ m = AddCURL(c, i)
           /\ \A n : Removes(Append(s, m), n) <=> Removes(s, n) \/ m = RemoveCURL(n)
           /\ AsksOnce(s) /\ m.body # "AddCURL" => AsksOnce(Append(s, m))
           /\ AsksOnce(s) /\ (\A k \in Positions(s) : s[k].body = "AddCURL" => s[k].curl # m.curl)
                 => AsksOnce(Append(s, m))
  <1>1. PICK t : t = Append(s, m)
    OBVIOUS
  <1>2. /\ Positions(t) = Positions(s) \cup {Len(s) + 1}
        /\ \A k \in Positions(s) : t[k] = s[k]
        /\ t[Len(s) + 1] = m
    BY <1>1 DEF Positions
  <1>3. \A c, i : Asks(t, c, i) <=> Asks(s, c, i) \/ m = AddCURL(c, i)
    BY <1>2 DEF Asks
  <1>4. \A n : Removes(t, n) <=> Removes(s, n) \/ m = RemoveCURL(n)
    BY <1>2 DEF Removes
  <1>5. AsksOnce(s) /\ m.body # "AddCURL" => AsksOnce(t)
    BY <1>2 DEF AsksOnce
  <1>6. ASSUME AsksOnce(s),
               \A k \in Positions(s) : s[k].body = "AddCURL" => s[k].curl # m.curl
        PROVE  AsksOnce(t)
    <2> SUFFICES ASSUME NEW j \in Positions(t), NEW k \in Positions(t),
                        t[j].body = "AddCURL", t[k].body = "AddCURL", t[j].curl = t[k].curl
                 PROVE  j = k
      BY DEF AsksOnce
    <2>1. CASE j \in Positions(s) /\ k \in Positions(s)
      BY <1>2, <1>6, <2>1 DEF AsksOnce
    <2>2. CASE j \notin Positions(s)
      BY <1>2, <1>6, <2>2
    <2>3. CASE k \notin Positions(s)
      BY <1>2, <1>6, <2>3
    <2> QED
      BY <2>1, <2>2, <2>3
  <1> QED
    BY <1>1, <1>3, <1>4, <1>5, <1>6, Zenon

\* The numbers of the frames are numbers.
Numbered(S) == \A m \in S : IsFrame(m) => m.n \in Nat

\* A message put into a mailbox adds its frame to those there.
LEMMA AppendFrame ==
    ASSUME NEW S, Numbered(S), NEW s \in Seq(S), NEW m \in S, NEW l \in Nat, NEW e \in Nat,
           Stream(s, l, e), IsFrame(m), m.n = e + 1
    PROVE  Stream(Append(s, m), l, e + 1)
  <1>1. PICK t : t = Append(s, m)
    OBVIOUS
  <1>2. /\ Len(s) \in Nat
        /\ Positions(t) = Positions(s) \cup {Len(s) + 1}
        /\ \A k \in Positions(s) : k \in Nat /\ k < Len(s) + 1 /\ t[k] = s[k]
        /\ t[Len(s) + 1] = m
    BY <1>1 DEF Positions
  <1>3. \A k \in Positions(s) : IsFrame(s[k]) => s[k].n \in Nat
    BY DEF Positions, Numbered
  <1>4. \A k \in Positions(t) : IsFrame(t[k]) => l < t[k].n /\ t[k].n <= e + 1
    BY <1>2, <1>3 DEF Stream
  <1>5. \A n \in l + 1 .. e + 1 : \E k \in Positions(t) : IsFrame(t[k]) /\ t[k].n = n
    <2> SUFFICES ASSUME NEW n \in l + 1 .. e + 1
                 PROVE  \E k \in Positions(t) : IsFrame(t[k]) /\ t[k].n = n
      OBVIOUS
    <2>1. CASE n = e + 1
      BY <1>2, <2>1
    <2>2. CASE n \in l + 1 .. e
      BY <1>2, <2>2 DEF Stream
    <2> QED
      BY <2>1, <2>2
  <1>6. \A j, k \in Positions(t) : IsFrame(t[j]) /\ IsFrame(t[k]) /\ j < k => t[j].n < t[k].n
    <2> SUFFICES ASSUME NEW j \in Positions(t), NEW k \in Positions(t),
                        IsFrame(t[j]), IsFrame(t[k]), j < k
                 PROVE  t[j].n < t[k].n
      OBVIOUS
    <2>1. j \in Positions(s) /\ j \in Nat /\ t[j].n <= e /\ t[j].n \in Nat
      BY <1>2, <1>3 DEF Stream
    <2>2. CASE k \in Positions(s)
      BY <1>2, <2>1, <2>2 DEF Stream
    <2>3. CASE k \notin Positions(s)
      BY <1>2, <2>1, <2>3
    <2> QED
      BY <2>2, <2>3
  <1>7. l <= e + 1
    BY DEF Stream
  <1> QED
    BY <1>1, <1>4, <1>5, <1>6, <1>7 DEF Stream

\* Another one adds none.
LEMMA AppendOther ==
    ASSUME NEW S, NEW s \in Seq(S), NEW m \in S, ~ IsFrame(m)
    PROVE  /\ \A l, e : Stream(s, l, e) => Stream(Append(s, m), l, e)
           /\ Silent(s) => Silent(Append(s, m))
  <1>1. PICK t : t = Append(s, m)
    OBVIOUS
  <1>2. /\ Positions(t) = Positions(s) \cup {Len(s) + 1}
        /\ \A k \in Positions(s) : t[k] = s[k]
        /\ t[Len(s) + 1] = m
    BY <1>1 DEF Positions
  <1>3. ASSUME NEW l, NEW e, Stream(s, l, e)
        PROVE  Stream(t, l, e)
    BY <1>2, <1>3 DEF Stream
  <1>4. Silent(s) => Silent(t)
    BY <1>2 DEF Silent
  <1> QED
    BY <1>1, <1>3, <1>4, Zenon

\* The frame at the head is the next one, and the others continue it.
LEMMA TailFrame ==
    ASSUME NEW S, Numbered(S), NEW s \in Seq(S), NEW l \in Nat, NEW e \in Nat,
           s # <<>>, Stream(s, l, e), IsFrame(Head(s))
    PROVE  Head(s).n = l + 1 /\ l + 1 <= e /\ Stream(Tail(s), l + 1, e)
  <1>1. PICK t : t = Tail(s)
    OBVIOUS
  <1>2. /\ 1 \in Positions(s) /\ Head(s) = s[1]
        /\ \A k \in Positions(t) : k \in Nat /\ k + 1 \in Positions(s) /\ t[k] = s[k + 1]
        /\ \A k \in Positions(s) : k = 1 \/ (k - 1 \in Positions(t) /\ t[k - 1] = s[k])
    BY <1>1, TailFacts, Zenon
  <1>3. \A k \in Positions(s) : k \in Nat /\ k >= 1 /\ (IsFrame(s[k]) => s[k].n \in Nat)
    BY DEF Positions, Numbered
  <1>4. s[1].n = l + 1 /\ l + 1 <= e
    <2>1. l < s[1].n /\ s[1].n <= e /\ s[1].n \in Nat
      BY <1>2, <1>3 DEF Stream
    <2>2. PICK k \in Positions(s) : IsFrame(s[k]) /\ s[k].n = l + 1
      BY <2>1 DEF Stream
    <2>3. k = 1 \/ s[1].n < s[k].n
      BY <1>2, <1>3, <2>2 DEF Stream
    <2> QED
      BY <2>1, <2>2, <2>3
  <1>5. \A k \in Positions(t) : k + 1 \in Positions(s) /\ t[k] = s[k + 1] /\ 1 < k + 1
    <2> SUFFICES ASSUME NEW k \in Positions(t)
                 PROVE  1 < k + 1
      BY <1>2
    <2> QED
      BY DEF Positions
  <1>6. \A k \in Positions(t) : IsFrame(t[k]) => l + 1 < t[k].n /\ t[k].n <= e
    BY <1>2, <1>4, <1>5 DEF Stream
  <1>7. \A n \in l + 2 .. e : \E k \in Positions(t) : IsFrame(t[k]) /\ t[k].n = n
    <2> SUFFICES ASSUME NEW n \in l + 2 .. e
                 PROVE  \E k \in Positions(t) : IsFrame(t[k]) /\ t[k].n = n
      OBVIOUS
    <2>1. PICK k \in Positions(s) : IsFrame(s[k]) /\ s[k].n = n
      BY DEF Stream
    <2>2. k # 1
      BY <1>4, <2>1
    <2> QED
      BY <1>2, <2>1, <2>2
  <1>8. \A j, k \in Positions(t) : IsFrame(t[j]) /\ IsFrame(t[k]) /\ j < k => t[j].n < t[k].n
    <2> SUFFICES ASSUME NEW j \in Positions(t), NEW k \in Positions(t),
                        IsFrame(t[j]), IsFrame(t[k]), j < k
                 PROVE  t[j].n < t[k].n
      OBVIOUS
    <2>1. j + 1 < k + 1
      BY <1>2
    <2> QED
      BY <1>2, <2>1 DEF Stream
  <1>9. l + 1 + 1 = l + 2
    OBVIOUS
  <1> QED
    BY <1>1, <1>2, <1>4, <1>6, <1>7, <1>8, <1>9 DEF Stream

LEMMA TailOther ==
    ASSUME NEW S, NEW s \in Seq(S), s # <<>>
    PROVE  /\ \A l, e : ~ IsFrame(Head(s)) /\ Stream(s, l, e) => Stream(Tail(s), l, e)
           /\ Silent(s) => ~ IsFrame(Head(s)) /\ Silent(Tail(s))
  <1>1. PICK t : t = Tail(s)
    OBVIOUS
  <1>2. /\ 1 \in Positions(s) /\ Head(s) = s[1]
        /\ \A k \in Positions(t) : k \in Nat /\ k + 1 \in Positions(s) /\ t[k] = s[k + 1]
        /\ \A k \in Positions(s) : k = 1 \/ (k - 1 \in Positions(t) /\ t[k - 1] = s[k])
    BY <1>1, TailFacts, Zenon
  <1>3. Silent(s) => ~ IsFrame(Head(s)) /\ Silent(t)
    BY <1>2 DEF Silent
  <1>4. ASSUME NEW l, NEW e, ~ IsFrame(s[1]), Stream(s, l, e)
        PROVE  Stream(t, l, e)
    <2>1. \A k \in Positions(t) : IsFrame(t[k]) => l < t[k].n /\ t[k].n <= e
      BY <1>2, <1>4 DEF Stream
    <2>2. \A n \in l + 1 .. e : \E k \in Positions(t) : IsFrame(t[k]) /\ t[k].n = n
      BY <1>2, <1>4 DEF Stream
    <2>3. \A j, k \in Positions(t) : IsFrame(t[j]) /\ IsFrame(t[k]) /\ j < k => t[j].n < t[k].n
      <3> SUFFICES ASSUME NEW j \in Positions(t), NEW k \in Positions(t),
                          IsFrame(t[j]), IsFrame(t[k]), j < k
                   PROVE  t[j].n < t[k].n
        OBVIOUS
      <3>1. j + 1 < k + 1
        BY <1>2
      <3> QED
        BY <1>2, <1>4, <3>1 DEF Stream
    <2>4. l <= e
      BY <1>4 DEF Stream
    <2> QED
      BY <2>1, <2>2, <2>3, <2>4 DEF Stream
  <1> QED
    BY <1>1, <1>2, <1>3, <1>4, Zenon

-----------------------------------------------------------------------------
(* Type correctness.                                                        *)

\* An element of a sequence is replaced.
LEMMA ReplaceFacts ==
    ASSUME NEW S, NEW q \in Seq(S), NEW k, NEW v, k \in 1 .. Len(q) => v \in S
    PROVE  [q EXCEPT ![k] = v] \in Seq(S) /\ Len([q EXCEPT ![k] = v]) = Len(q)
  <1>1. PICK n \in Nat : n = Len(q) /\ q \in [1 .. n -> S] /\ DOMAIN q = 1 .. n
    OBVIOUS
  <1>2. [q EXCEPT ![k] = v] \in [1 .. n -> S]
    BY <1>1
  <1>3. \A f \in [1 .. n -> S] : f \in Seq(S) /\ Len(f) = n
    BY <1>1
  <1> QED
    BY <1>1, <1>2, <1>3

\* A frame, a request and a removal; what the relay gets it can pass on.
LEMMA Messages ==
    /\ \A n \in 1 .. MaxFrames : Frame(n) \in Frames /\ IsFrame(Frame(n)) /\ Frame(n).n = n
    /\ \A c \in Subscriber : \A i \in Islands : AddCURL(c, i) \in Additions
    /\ \A n \in Nat : RemoveCURL(n) \in Removals /\ ~ IsFrame(RemoveCURL(n))
    /\ Quit \in Orders /\ ~ IsFrame(Quit)
    /\ \A i \in Islands : QuitMV(i) \in Orders /\ ~ IsFrame(QuitMV(i))
    /\ \A m \in Frames : IsFrame(m) /\ m.n \in 1 .. MaxFrames
    /\ \A m \in Additions : ~ IsFrame(m) /\ m = AddCURL(m.curl, m.isle)
                            /\ m.curl \in Subscriber /\ m.isle \in Islands
    /\ \A m \in Removals : ~ IsFrame(m) /\ m = RemoveCURL(m.id) /\ m.id \in Nat
    /\ \A m \in Orders : ~ IsFrame(m)
    /\ RelayMail \subseteq ForwardMail /\ Frames \subseteq DecoderMail
    /\ Additions \subseteq ForwardMail /\ Removals \subseteq ForwardMail
    /\ Numbered(RelayMail) /\ Numbered(ForwardMail) /\ Numbered(DecoderMail)
  <1>1. /\ \A n \in 1 .. MaxFrames : Frame(n) \in Frames /\ IsFrame(Frame(n)) /\ Frame(n).n = n
        /\ \A m \in Frames : IsFrame(m) /\ m.n \in 1 .. MaxFrames
    BY DEF Frame, Frames, IsFrame
  <1>2. /\ \A c \in Subscriber : \A i \in Islands : AddCURL(c, i) \in Additions
        /\ \A m \in Additions : ~ IsFrame(m) /\ m = AddCURL(m.curl, m.isle)
                                /\ m.curl \in Subscriber /\ m.isle \in Islands
    BY DEF AddCURL, Additions, IsFrame
  <1>3. /\ \A n \in Nat : RemoveCURL(n) \in Removals /\ ~ IsFrame(RemoveCURL(n))
        /\ \A m \in Removals : ~ IsFrame(m) /\ m = RemoveCURL(m.id) /\ m.id \in Nat
    BY DEF RemoveCURL, Removals, IsFrame
  <1>4. /\ Quit \in Orders /\ ~ IsFrame(Quit)
        /\ \A i \in Islands : QuitMV(i) \in Orders /\ ~ IsFrame(QuitMV(i))
        /\ \A m \in Orders : ~ IsFrame(m)
    BY DEF Quit, QuitMV, Orders, IsFrame
  <1>5. /\ RelayMail \subseteq ForwardMail /\ Frames \subseteq DecoderMail
        /\ Additions \subseteq ForwardMail /\ Removals \subseteq ForwardMail
    BY DEF RelayMail, ForwardMail, DecoderMail
  <1>6. 1 .. MaxFrames \subseteq Nat
    OBVIOUS
  <1>7. Numbered(RelayMail) /\ Numbered(ForwardMail) /\ Numbered(DecoderMail)
    BY <1>1, <1>2, <1>3, <1>4, <1>6, Zenon DEF Numbered, RelayMail, ForwardMail, DecoderMail
  <1> QED
    BY <1>1, <1>2, <1>3, <1>4, <1>5, <1>7, Zenon

LEMMA InitTypes == Init => Types
  <1> SUFFICES ASSUME Init PROVE Types
    OBVIOUS
  <1>1. encoded \in 0 .. MaxFrames
    BY CoastcastAssumption DEF Init
  <1>2. RelayType
    BY DEF Init, RelayType
  <1>3. ForwardType
    BY DEF Init, ForwardType, ForwardRelay, NewForward
  <1>4. DecoderType
    <2>1. \A i \in Islands : [NewDecoder(i, 1) EXCEPT !.state = "unborn"] \in ADecoder
      <3>1. <<>> \in Seq(DecoderMail) /\ 0 \in 0 .. MaxFrames
        BY CoastcastAssumption
      <3> QED
        BY <3>1 DEF ADecoder, DecoderStates, NewDecoder
    <2> QED
      BY <2>1 DEF Init, DecoderType
  <1>5. GuiType
    <2>1. \A k \in DOMAIN Starts : NewGui(Starts[k]) \in AGui
      BY CoastcastAssumption DEF NewGui, AGui
    <2>2. PICK n \in Nat : DOMAIN Starts = 1 .. n
      BY CoastcastAssumption
    <2>3. gui \in [1 .. n -> AGui]
      BY <2>1, <2>2 DEF Init
    <2> QED
      BY <2>3 DEF GuiType
  <1>6. RegistryType
    <2>1. <<0>> \in Seq(Nat)
      OBVIOUS
    <2>2. current = [i \in Islands |-> None] /\ readlock = [i \in Islands |-> <<0>>]
      BY DEF Init
    <2> QED
      BY <2>1, <2>2 DEF RegistryType
  <1> QED
    BY <1>1, <1>2, <1>3, <1>4, <1>5, <1>6 DEF Types

\* What the relay sends to the forward relays.
LEMMA SendTypes ==
    ASSUME ForwardType, NEW S, NEW m \in ForwardMail, SendForward(S, m)
    PROVE  ForwardType'
  <1>1. \A i \in Islands : forward[i] \in ForwardRelay
                           /\ Append(forward[i].mail, m) \in Seq(ForwardMail)
    BY DEF ForwardType, ForwardRelay
  <1>2. \A i \in Islands : [forward[i] EXCEPT !.mail = Append(@, m)] \in ForwardRelay
    BY <1>1 DEF ForwardRelay
  <1> QED
    BY <1>1, <1>2 DEF SendForward, ForwardType

\* What is put into the mailbox of the relay.
LEMMA PublishTypes ==
    ASSUME RelayType, NEW m \in RelayMail, Publish(m)
    PROVE  RelayType'
  <1>1. Append(relay.mail, m) \in Seq(RelayMail)
    BY DEF RelayType
  <1> QED
    BY <1>1 DEF Publish, RelayType

\* No step takes a GUI away: the decoders and the registry refer to it for ever.
LEMMA GuisGrow ==
    ASSUME Len(gui) \in Nat, Len(gui') \in Nat, Len(gui') >= Len(gui)
    PROVE  /\ DecoderType => decoder \in [Decoders -> ADecoder']
           /\ RegistryType => current \in [Islands -> (Guis \cup {None})']
           /\ ADecoder \subseteq ADecoder' /\ (Guis \cup {None}) \subseteq (Guis \cup {None})'
  <1>1. Guis \subseteq Guis'
    BY DEF Guis
  <1>2. ADecoder \subseteq ADecoder'
    BY <1>1 DEF ADecoder
  <1> QED
    BY <1>1, <1>2 DEF DecoderType, RegistryType

LEMMA RelayTypes ==
    ASSUME Types, RelayInv, Encode \/ RelayStep \/ DeployFails
    PROVE  Types'
  <1> USE DEF Types
  <1>1. /\ RelayType /\ ForwardType /\ encoded \in Nat /\ MaxFrames \in Nat
        /\ relay.mail \in Seq(RelayMail)
    BY CoastcastAssumption DEF RelayType
  <1>2. relay.mail # <<>> => Head(relay.mail) \in RelayMail /\ Tail(relay.mail) \in Seq(RelayMail)
    BY <1>1
  <1>3. UNCHANGED <<decoder, gui, registry>> => DecoderType' /\ GuiType' /\ RegistryType'
    BY DEF DecoderType, GuiType, RegistryType, ADecoder, Guis, registry
  <1>4. RelayMail \subseteq ForwardMail /\ Additions \subseteq RelayMail
        /\ \A m \in RelayMail : m.body = "AddCURL" => m \in Additions /\ m.isle \in Islands
    BY DEF RelayMail, ForwardMail, Frames, Additions
  <1>5. CASE Encode
    <2>1. Frame(encoded + 1) \in RelayMail /\ encoded' \in 0 .. MaxFrames
      BY <1>1, <1>5 DEF Encode, RelayMail, Frames, Frame
    <2>2. RelayType'
      BY <1>1, <1>5, <2>1, PublishTypes DEF Encode
    <2> QED
      BY <1>1, <1>3, <1>5, <2>1, <2>2 DEF Encode, ForwardType
  <1>6. CASE RelayFrame
    <2>1. ForwardType'
      BY <1>1, <1>2, <1>4, <1>6, SendTypes DEF RelayFrame, Received
    <2>2. RelayType'
      BY <1>1, <1>2, <1>6 DEF RelayFrame, Received, RelayType
    <2> QED
      BY <1>3, <1>6, <2>1, <2>2 DEF RelayFrame
  <1>7. CASE RelayAdd
    <2>1. ForwardType'
      BY <1>1, <1>2, <1>4, <1>7, SendTypes DEF RelayAdd, Received
    <2>2. RelayType'
      BY <1>1, <1>2, <1>7 DEF RelayAdd, Received, RelayType
    <2> QED
      BY <1>3, <1>7, <2>1, <2>2 DEF RelayAdd
  <1>8. CASE DeployForward
    <2>1. ForwardType'
      BY <1>1, <1>8 DEF DeployForward, ForwardType, ForwardRelay
    <2>2. RelayType'
      BY <1>1, <1>2, <1>4, <1>8 DEF DeployForward, Received, RelayType
    <2> QED
      BY <1>3, <1>8, <2>1, <2>2 DEF DeployForward
  <1>9. CASE Deployed
    <2>1. relay.request \in Additions /\ relay.request \in ForwardMail
          /\ relay.request.isle \in Islands
      BY <1>4, <1>9 DEF Deployed, RelayInv, Additions
    <2>2. ForwardType'
      BY <1>1, <1>9, <2>1, SendTypes DEF Deployed
    <2>3. RelayType'
      BY <1>1, <1>9, <2>1 DEF Deployed, RelayType
    <2> QED
      BY <1>3, <1>9, <2>2, <2>3 DEF Deployed
  <1>10. CASE DeployFails
    <2>1. RelayType'
      <3>1. <<>> \in Seq(RelayMail)
        OBVIOUS
      <3> QED
        BY <1>1, <1>10, <3>1 DEF DeployFails, RelayType
    <2>2. ForwardType' /\ encoded' \in 0 .. MaxFrames
      BY <1>1, <1>10 DEF DeployFails, ForwardType
    <2>3. DecoderType' /\ GuiType' /\ RegistryType'
      BY <1>3, <1>10 DEF DeployFails
    <2> QED
      BY <2>1, <2>2, <2>3
  <1> QED
    BY <1>5, <1>6, <1>7, <1>8, <1>9, <1>10 DEF RelayStep

\* What a step of a forward relay changes, for each of its messages: subscription k
\* is added, which has the CURL c of decoder w, or subscription n is removed.
Same == encoded' = encoded /\ relay' = relay /\ gui' = gui /\ UNCHANGED registry

Expected(c, w) == Self(w) = c /\ decoder[w].state = "subscribe"

Adds(i, c, w, k) ==
    /\ Heard(i, "AddCURL") /\ Same
    /\ c = Head(forward[i].mail).curl /\ w = c.who /\ k = forward[i].ids + 1
    /\ forward' = [forward EXCEPT ![i] = [forward[i] EXCEPT
                     !.mail = Tail(@), !.ids = k, !.curls = @ \cup {[id |-> k, curl |-> c]}]]
    /\ Expected(c, w) =>
          decoder' = [decoder EXCEPT ![w] = [decoder[w] EXCEPT !.state = "loop", !.ctrl = k]]
    /\ ~ Expected(c, w) => decoder' = decoder

Drops(i, n) ==
    /\ Heard(i, "RemoveCURL") /\ Same /\ decoder' = decoder
    /\ n = Head(forward[i].mail).id
    /\ forward' = [forward EXCEPT ![i] = [forward[i] EXCEPT
                     !.mail = Tail(@), !.curls = {s \in @ : s.id # n}]]

LEMMA AddFacts ==
    ASSUME Types, NEW i \in Islands, ForwardAdd(i)
    PROVE  \E c, w, k : Adds(i, c, w, k)
  <1>1. PICK c, w, k : c = Head(forward[i].mail).curl /\ w = c.who /\ k = forward[i].ids + 1
    OBVIOUS
  <1>2. /\ Heard(i, "AddCURL") /\ Same
        /\ forward' = [forward EXCEPT ![i].mail = Tail(@), ![i].ids = k,
                                      ![i].curls = @ \cup {[id |-> k, curl |-> c]}]
        /\ Expected(c, w) => decoder' = [decoder EXCEPT ![w].state = "loop", ![w].ctrl = k]
        /\ ~ Expected(c, w) => decoder' = decoder
    BY <1>1, Zenon DEF ForwardAdd, Same, Expected, registry
  <1>3. forward' = [forward EXCEPT ![i] = [forward[i] EXCEPT
                      !.mail = Tail(@), !.ids = k, !.curls = @ \cup {[id |-> k, curl |-> c]}]]
    BY <1>2 DEF Types, ForwardType, ForwardRelay
  <1>4. [decoder EXCEPT ![w].state = "loop", ![w].ctrl = k]
           = [decoder EXCEPT ![w] = [decoder[w] EXCEPT !.state = "loop", !.ctrl = k]]
    BY DEF Types, DecoderType, ADecoder
  <1>5. Adds(i, c, w, k)
    BY <1>1, <1>2, <1>3, <1>4, Zenon DEF Adds
  <1> QED
    BY <1>5

LEMMA RemoveFacts ==
    ASSUME Types, NEW i \in Islands, ForwardRemove(i)
    PROVE  \E n : Drops(i, n)
  <1>1. PICK n : n = Head(forward[i].mail).id
    OBVIOUS
  <1>2. /\ Heard(i, "RemoveCURL") /\ Same /\ decoder' = decoder
        /\ forward' = [forward EXCEPT ![i].mail = Tail(@), ![i].curls = {s \in @ : s.id # n}]
    BY <1>1, Zenon DEF ForwardRemove, Same, registry
  <1>3. forward' = [forward EXCEPT ![i] = [forward[i] EXCEPT
                      !.mail = Tail(@), !.curls = {s \in @ : s.id # n}]]
    BY <1>2 DEF Types, ForwardType, ForwardRelay
  <1>4. Drops(i, n)
    BY <1>1, <1>2, <1>3, Zenon DEF Drops
  <1> QED
    BY <1>4

\* A forward relay takes one message at a time, and changes no other relay.
LEMMA TakenFacts ==
    ASSUME Types, NEW i \in Islands, ForwardFrame(i) \/ ForwardAdd(i) \/ ForwardRemove(i)
    PROVE  /\ Same /\ \E body : Heard(i, body)
           /\ forward'[i].mail = Tail(forward[i].mail)
           /\ \A j \in Islands \ {i} : forward'[j] = forward[j]
  <1>1. forward \in [Islands -> ForwardRelay]
    BY DEF Types, ForwardType
  <1>2. forward[i] \in ForwardRelay
    BY <1>1
  <1>3. CASE ForwardFrame(i)
    <2>1. Same /\ Heard(i, "Frame") /\ forward' = [forward EXCEPT ![i].mail = Tail(@)]
      BY <1>3, Zenon DEF ForwardFrame, Same, registry
    <2> QED
      BY <1>1, <1>2, <2>1 DEF ForwardRelay
  <1>4. CASE ForwardAdd(i)
    <2>1. PICK c, w, k : Adds(i, c, w, k)
      BY <1>4, AddFacts
    <2> QED
      BY <1>1, <1>2, <2>1 DEF Adds, ForwardRelay
  <1>5. CASE ForwardRemove(i)
    <2>1. PICK n : Drops(i, n)
      BY <1>5, RemoveFacts
    <2> QED
      BY <1>1, <1>2, <2>1 DEF Drops, ForwardRelay
  <1> QED
    BY <1>3, <1>4, <1>5

LEMMA ForwardTypes ==
    ASSUME Types, RelayInv, NEW i \in Islands, ForwardStep(i)
    PROVE  Types'
  <1> USE DEF Types
  <1>1. /\ forward[i] \in ForwardRelay /\ forward[i].mail \in Seq(ForwardMail)
        /\ forward[i].curls \subseteq Subscription /\ forward[i].ids \in Nat
        /\ forward[i].state = "live" \/ forward[i].state = "spawn" \/ forward[i].state = "none"
    BY DEF ForwardType, ForwardRelay
  <1>2. forward[i].mail # <<>> =>
           Head(forward[i].mail) \in ForwardMail /\ Tail(forward[i].mail) \in Seq(ForwardMail)
    BY <1>1
  <1>3. /\ encoded' = encoded /\ relay' = relay /\ gui' = gui /\ UNCHANGED registry
        /\ RelayType' /\ GuiType' /\ RegistryType' /\ Guis' = Guis /\ ADecoder' = ADecoder
    <2>1. Same
      BY TakenFacts DEF ForwardStep, Spawned, Same, registry
    <2> QED
      BY <2>1 DEF Same, RelayType, GuiType, RegistryType, registry, Guis, ADecoder
  <1>4. \A g \in ForwardRelay : [forward EXCEPT ![i] = g] \in [Islands -> ForwardRelay]
    BY DEF ForwardType
  <1>5. \A m \in ForwardMail : /\ m.body = "AddCURL" => m.curl \in Subscriber
                               /\ m.body = "Frame" => m \in Frames
    BY DEF ForwardMail, Frames, Additions, Removals
  <1>6. CASE Spawned(i)
    <2>1. ForwardType'
      BY <1>1, <1>6 DEF Spawned, ForwardType, ForwardRelay
    <2> QED
      BY <1>3, <1>6, <2>1 DEF Spawned, DecoderType
  <1>7. CASE ForwardFrame(i)
    <2>1. ForwardType'
      BY <1>1, <1>2, <1>7 DEF ForwardFrame, Heard, ForwardType, ForwardRelay
    <2>2. PICK m : m = Head(forward[i].mail) /\ m \in DecoderMail
      BY <1>2, <1>5, <1>7 DEF ForwardFrame, Heard, DecoderMail
    <2>3. ASSUME NEW d \in Decoders
          PROVE  decoder'[d] \in ADecoder
      <3> DEFINE mine == {s \in forward[i].curls : s.curl = Self(d) /\ Alive(d)}
      <3>1. PICK n : n = Cardinality(mine)
        OBVIOUS
      <3>2. PICK q : q = [k \in 1 .. n |-> m]
        OBVIOUS
      <3>3. decoder'[d] = [decoder[d] EXCEPT !.mail = @ \o q]
        BY <1>7, <2>2, <3>1, <3>2 DEF ForwardFrame
      <3>4. n \in Nat
        BY <3>1, FS_Subset, FS_CardinalityType DEF RelayInv
      <3>5. decoder[d] \in ADecoder
        BY DEF DecoderType
      <3> HIDE DEF mine
      <3>6. q \in Seq(DecoderMail)
        BY <2>2, <3>2, <3>4
      <3>7. decoder[d].mail \o q \in Seq(DecoderMail)
        BY <3>5, <3>6 DEF ADecoder
      <3> QED
        BY <3>3, <3>5, <3>7 DEF ADecoder
    <2> QED
      BY <1>3, <1>7, <2>1, <2>3 DEF ForwardFrame, DecoderType
  <1>8. CASE ForwardAdd(i)
    <2>1. PICK c, w, k : Adds(i, c, w, k)
      BY <1>8, AddFacts
    <2>2. Head(forward[i].mail) \in ForwardMail /\ Head(forward[i].mail).body = "AddCURL"
          /\ Tail(forward[i].mail) \in Seq(ForwardMail)
      BY <1>2, <2>1 DEF Adds, Heard
    <2>3. c \in Subscriber /\ w \in Decoders /\ k \in Nat
      BY <1>1, <1>5, <2>1, <2>2 DEF Adds, Subscriber
    <2>4. PICK g : g = [forward[i] EXCEPT !.mail = Tail(@), !.ids = k,
                                          !.curls = @ \cup {[id |-> k, curl |-> c]}]
      OBVIOUS
    <2>5. g \in ForwardRelay
      <3>1. [id |-> k, curl |-> c] \in Subscription
        BY <2>3 DEF Subscription
      <3> QED
        BY <1>1, <2>2, <2>3, <2>4, <3>1 DEF ForwardRelay
    <2>6. ForwardType'
      BY <1>4, <2>1, <2>4, <2>5 DEF Adds, ForwardType
    <2>7. decoder' \in [Decoders -> ADecoder]
      <3>1. decoder \in [Decoders -> ADecoder] /\ decoder[w] \in ADecoder
        BY <2>3 DEF DecoderType
      <3>2. [decoder[w] EXCEPT !.state = "loop", !.ctrl = k] \in ADecoder
        BY <2>3, <3>1 DEF ADecoder, DecoderStates
      <3> QED
        BY <2>1, <2>3, <3>1, <3>2 DEF Adds
    <2> QED
      BY <1>3, <2>6, <2>7 DEF DecoderType
  <1>9. CASE ForwardRemove(i)
    <2>1. ForwardType'
      BY <1>1, <1>2, <1>9 DEF ForwardRemove, Heard, ForwardType, ForwardRelay
    <2> QED
      BY <1>3, <1>9, <2>1 DEF ForwardRemove, DecoderType
  <1> QED
    BY <1>6, <1>7, <1>8, <1>9 DEF ForwardStep

LEMMA DecoderTypes ==
    ASSUME Types, NEW d \in Decoders, Spawn(d) \/ DecoderStep(d)
    PROVE  Types'
  <1> USE DEF Types
  <1>1. /\ DecoderType /\ RegistryType /\ ForwardType /\ RelayType
        /\ decoder[d] \in ADecoder /\ decoder[d].isle \in Islands
        /\ readlock[decoder[d].isle] \in Seq(Nat) /\ current[decoder[d].isle] \in Guis \cup {None}
    BY DEF DecoderType, ADecoder, RegistryType
  <1>2. /\ encoded' = encoded /\ gui' = gui
        /\ GuiType' /\ Guis' = Guis /\ ADecoder' = ADecoder
        /\ forward' = forward => ForwardType'
        /\ relay' = relay => RelayType'
        /\ UNCHANGED registry => RegistryType'
    BY <1>1 DEF Spawn, DecoderStep, Enter, Take, Read, Subscribe, GiveUp, Decode, Leave, GuiType,
                ForwardType, RelayType, RegistryType, registry, Guis, ADecoder
  <1>3. decoder[d].mail # <<>> =>
           Head(decoder[d].mail) \in DecoderMail /\ Tail(decoder[d].mail) \in Seq(DecoderMail)
    BY <1>1 DEF ADecoder
  <1>4. Self(d) \in Subscriber
    BY <1>1 DEF Self, Subscriber, ADecoder
  <1>5. <<>> \in Seq(DecoderMail)
    OBVIOUS
  <1>6. \A x \in ADecoder : [decoder EXCEPT ![d] = x] \in [Decoders -> ADecoder]
    BY <1>1 DEF DecoderType
  <1>7. \A k \in Nat : \A v : (k \in 1 .. Len(readlock[decoder[d].isle]) => v \in Nat) =>
           LET i == decoder[d].isle
           IN  [readlock EXCEPT ![i] = [@ EXCEPT ![k] = v]] \in [Islands -> Seq(Nat)]
    <2> SUFFICES ASSUME NEW k \in Nat, NEW v, k \in 1 .. Len(readlock[decoder[d].isle]) => v \in Nat
                 PROVE  LET i == decoder[d].isle
                        IN  [readlock EXCEPT ![i] = [@ EXCEPT ![k] = v]] \in [Islands -> Seq(Nat)]
      OBVIOUS
    <2>1. [readlock[decoder[d].isle] EXCEPT ![k] = v] \in Seq(Nat)
      BY <1>1, ReplaceFacts
    <2> QED
      BY <1>1, <2>1 DEF RegistryType
  <1>8. CASE Spawn(d)
    <2>1. decoder' \in [Decoders -> ADecoder]
      BY <1>1, <1>8 DEF Spawn, DecoderType, ADecoder, DecoderStates
    <2> QED
      BY <1>2, <1>8, <2>1 DEF Spawn, DecoderType
  <1>9. CASE Enter(d)
    <2>1. Len(readlock[decoder[d].isle]) \in Nat
      BY <1>1
    <2>2. decoder' \in [Decoders -> ADecoder]
      BY <1>1, <1>9, <2>1 DEF Enter, DecoderType, ADecoder, DecoderStates
    <2> QED
      BY <1>2, <1>9, <2>2 DEF Enter, DecoderType
  <1>10. CASE Take(d)
    <2>1. decoder' \in [Decoders -> ADecoder]
      BY <1>1, <1>10 DEF Take, DecoderType, ADecoder, DecoderStates
    <2>2. PICK i, k, v : /\ i = decoder[d].isle /\ k = decoder[d].lock
                         /\ v = readlock[i][k] - 1 /\ readlock[i][k] > 0
      BY <1>10 DEF Take
    <2>3. k \in Nat
      BY <1>1, <2>2 DEF ADecoder
    <2>4. k \in 1 .. Len(readlock[i]) => v \in Nat
      <3>1. \A q \in Seq(Nat) : k \in 1 .. Len(q) => q[k] \in Nat
        OBVIOUS
      <3>2. readlock[i] \in Seq(Nat)
        BY <1>1, <2>2
      <3>3. k \in 1 .. Len(readlock[i]) => readlock[i][k] \in Nat
        BY <3>1, <3>2
      <3> QED
        BY <2>2, <3>3
    <2>5. readlock' = [readlock EXCEPT ![i] = [@ EXCEPT ![k] = v]]
      BY <1>10, <2>2 DEF Take
    <2>6. readlock' \in [Islands -> Seq(Nat)]
      BY <1>7, <2>2, <2>3, <2>4, <2>5
    <2>7. RegistryType'
      BY <1>1, <1>2, <1>10, <2>6 DEF Take, RegistryType
    <2> QED
      BY <1>2, <1>10, <2>1, <2>7 DEF Take, DecoderType
  <1>11. CASE Read(d)
    <2>1. decoder' \in [Decoders -> ADecoder]
      BY <1>1, <1>11 DEF Read, DecoderType, ADecoder, DecoderStates
    <2>2. PICK i, k, v : /\ i = decoder[d].isle /\ k = decoder[d].lock
                         /\ v = readlock[i][k] + 1
      OBVIOUS
    <2>3. k \in Nat
      BY <1>1, <2>2 DEF ADecoder
    <2>4. k \in 1 .. Len(readlock[i]) => v \in Nat
      <3>1. \A q \in Seq(Nat) : k \in 1 .. Len(q) => q[k] \in Nat
        OBVIOUS
      <3>2. readlock[i] \in Seq(Nat)
        BY <1>1, <2>2
      <3>3. k \in 1 .. Len(readlock[i]) => readlock[i][k] \in Nat
        BY <3>1, <3>2
      <3> QED
        BY <2>2, <3>3
    <2>5. readlock' = [readlock EXCEPT ![i] = [@ EXCEPT ![k] = v]]
      BY <1>11, <2>2 DEF Read
    <2>6. readlock' \in [Islands -> Seq(Nat)]
      BY <1>7, <2>2, <2>3, <2>4, <2>5
    <2>7. RegistryType'
      BY <1>1, <1>2, <1>11, <2>6 DEF Read, RegistryType
    <2> QED
      BY <1>2, <1>11, <2>1, <2>7 DEF Read, DecoderType
  <1>12. CASE Subscribe(d)
    <2>1. decoder' \in [Decoders -> ADecoder]
      BY <1>1, <1>12 DEF Subscribe, DecoderType, ADecoder, DecoderStates
    <2>2. AddCURL(Self(d), decoder[d].isle) \in RelayMail
      BY <1>1, <1>4, Messages DEF RelayMail
    <2>3. RelayType'
      BY <1>1, <1>12, <2>2, PublishTypes DEF Subscribe
    <2> QED
      BY <1>2, <1>12, <2>1, <2>3 DEF Subscribe, DecoderType
  <1>13. CASE GiveUp(d)
    <2>1. decoder' \in [Decoders -> ADecoder]
      BY <1>1, <1>5, <1>13 DEF GiveUp, DecoderType, ADecoder, DecoderStates
    <2> QED
      BY <1>2, <1>13, <2>1 DEF GiveUp, DecoderType
  <1>14. CASE Decode(d)
    <2>1. PICK m : /\ m = Head(decoder[d].mail) /\ m.n \in 0 .. MaxFrames
                   /\ Tail(decoder[d].mail) \in Seq(DecoderMail)
      <3>1. Head(decoder[d].mail) \in Frames /\ Tail(decoder[d].mail) \in Seq(DecoderMail)
        BY <1>3, <1>14 DEF Decode, Finds, DecoderMail, Frames, Orders, Quit
      <3>2. Head(decoder[d].mail).n \in 0 .. MaxFrames
        BY <3>1, CoastcastAssumption DEF Frames
      <3> QED
        BY <3>1, <3>2
    <2>2. decoder' \in [Decoders -> ADecoder]
      BY <1>1, <1>14, <2>1 DEF Decode, DecoderType, ADecoder
    <2> QED
      BY <1>2, <1>14, <2>2 DEF Decode, DecoderType
  <1>15. CASE Leave(d)
    <2>1. RemoveCURL(decoder[d].ctrl) \in ForwardMail
      BY <1>1, Messages DEF ADecoder
    <2>2. ForwardType'
      BY <1>1, <1>15, <2>1, SendTypes DEF Leave
    <2>3. [decoder[d] EXCEPT !.state = "dead", !.mail = <<>>] \in ADecoder
      BY <1>1, <1>5 DEF ADecoder, DecoderStates
    <2>4. \A i \in Islands : NewDecoder(i, decoder[d].life + 1) \in ADecoder
      BY <1>1, <1>5, CoastcastAssumption DEF ADecoder, DecoderStates, NewDecoder
    <2>5. Finds(d, "Quit/MV") => Head(decoder[d].mail).host \in Islands
      BY <1>3 DEF Finds, DecoderMail, Frames, Orders, Quit
    <2>6. decoder' \in [Decoders -> ADecoder]
      BY <1>1, <1>6, <1>15, <2>3, <2>4, <2>5 DEF Leave
    <2> QED
      BY <1>2, <1>15, <2>2, <2>6 DEF Leave, DecoderType
  <1> QED
    BY <1>8, <1>9, <1>10, <1>11, <1>12, <1>13, <1>14, <1>15 DEF DecoderStep

LEMMA GuiTypes ==
    ASSUME Types, NEW g \in Guis, GuiStep(g) \/ UserStep(g)
    PROVE  Types' /\ Len(gui') >= Len(gui)
  <1> USE DEF Types
  <1>1. /\ DecoderType /\ RegistryType /\ ForwardType /\ RelayType /\ gui \in Seq(AGui)
        /\ gui[g] \in AGui /\ gui[g].isle \in Islands /\ g \in 1 .. Len(gui)
        /\ readlock[gui[g].isle] \in Seq(Nat)
    <2>1. gui \in Seq(AGui) /\ g \in 1 .. Len(gui)
      BY DEF GuiType, Guis
    <2>2. gui[g] \in AGui
      BY <2>1
    <2> QED
      BY <2>1, <2>2 DEF RegistryType, AGui
  <1>2. encoded' = encoded /\ ForwardType' /\ RelayType'
    BY <1>1 DEF GuiStep, UserStep, Register, Post, Reset, Display, Clear, Dismiss, ForwardType,
                RelayType
  <1>3. /\ \A x \in AGui : [gui EXCEPT ![g] = x] \in Seq(AGui)
                           /\ Len([gui EXCEPT ![g] = x]) = Len(gui)
        /\ Len(gui) \in Nat
    BY <1>1, ReplaceFacts
  <1>4. \A s \in {"start", "post", "loop", "leave", "quit"} :
           [gui[g] EXCEPT !.state = s] \in AGui
    BY <1>1 DEF AGui
  <1>5. gui' \in Seq(AGui) /\ Len(gui') = Len(gui) =>
           GuiType' /\ Guis' = Guis /\ ADecoder' = ADecoder
    BY DEF GuiType, Guis, ADecoder
  <1>6. CASE Register(g)
    <2>1. gui' \in Seq(AGui) /\ Len(gui') = Len(gui)
      BY <1>3, <1>4, <1>6 DEF Register, Set
    <2>2. RegistryType'
      BY <1>1, <1>5, <1>6, <2>1 DEF Register, RegistryType
    <2> QED
      BY <1>2, <1>3, <1>5, <1>6, <2>1, <2>2 DEF Register, DecoderType
  <1>7. CASE Post(g)
    <2>1. gui' \in Seq(AGui) /\ Len(gui') = Len(gui)
      BY <1>3, <1>4, <1>7 DEF Post, Set
    <2>2. PICK i, k, v : /\ i = gui[g].isle /\ k = Len(readlock[i])
                         /\ v = readlock[i][k] + 1
      OBVIOUS
    <2>3. k \in 1 .. Len(readlock[i]) => v \in Nat
      <3>1. \A q \in Seq(Nat) : k \in 1 .. Len(q) => q[k] \in Nat
        OBVIOUS
      <3>2. readlock[i] \in Seq(Nat)
        BY <1>1, <2>2
      <3>3. k \in 1 .. Len(readlock[i]) => readlock[i][k] \in Nat
        BY <3>1, <3>2
      <3> QED
        BY <2>2, <3>3
    <2>4. [readlock[i] EXCEPT ![k] = v] \in Seq(Nat)
      BY <1>1, <2>2, <2>3, ReplaceFacts
    <2>5. readlock' = [readlock EXCEPT ![i] = [@ EXCEPT ![k] = v]]
      BY <1>7, <2>2 DEF Post
    <2>6. RegistryType'
      BY <1>1, <1>5, <1>7, <2>1, <2>4, <2>5 DEF Post, RegistryType
    <2> QED
      BY <1>2, <1>3, <1>5, <1>7, <2>1, <2>6 DEF Post, DecoderType
  <1>8. ASSUME NEW d \in Decoders, Display(g, d)
        PROVE  Types' /\ Len(gui') >= Len(gui)
    <2>1. decoder[d] \in ADecoder
      BY <1>1 DEF DecoderType
    <2>2. Self(d) \in Subscriber
      BY <2>1 DEF Self, Subscriber, ADecoder
    <2>3. [gui[g] EXCEPT !.decoders = @ \cup {Self(d)}] \in AGui
      BY <1>1, <2>2 DEF AGui
    <2>4. gui' \in Seq(AGui) /\ Len(gui') = Len(gui)
      BY <1>3, <1>8, <2>3 DEF Display
    <2>5. decoder' \in [Decoders -> ADecoder]
      BY <1>1, <1>8, <2>1 DEF Display, DecoderType, ADecoder, DecoderStates
    <2>6. RegistryType'
      BY <1>1, <1>5, <1>8, <2>4 DEF Display, RegistryType, registry
    <2> QED
      BY <1>2, <1>3, <1>5, <2>4, <2>5, <2>6 DEF DecoderType
  <1>9. ASSUME NEW to \in Islands \cup {None}, Clear(g, to)
        PROVE  Types' /\ Len(gui') >= Len(gui)
    <2>1. PICK x \in AGui : x = [gui[g] EXCEPT !.state = "leave", !.to = to]
      BY <1>1 DEF AGui
    <2>2. /\ gui' = [gui EXCEPT ![g] = x]
          /\ current' = [current EXCEPT ![gui[g].isle] = None]
          /\ decoder' = decoder /\ readlock' = readlock
      <3>1. /\ gui' = [gui EXCEPT ![g].state = "leave", ![g].to = to]
            /\ current' = [current EXCEPT ![gui[g].isle] = None]
            /\ decoder' = decoder /\ readlock' = readlock
        BY <1>9, Zenon DEF Clear
      <3>2. [gui EXCEPT ![g].state = "leave", ![g].to = to] = [gui EXCEPT ![g] = x]
        BY <1>1, <2>1 DEF AGui
      <3> QED
        BY <3>1, <3>2, Zenon
    <2>3. gui' \in Seq(AGui) /\ Len(gui') = Len(gui)
      BY <1>3, <2>2
    <2>4. RegistryType'
      BY <1>1, <1>5, <2>2, <2>3 DEF RegistryType
    <2> QED
      BY <1>2, <1>3, <1>5, <2>2, <2>3, <2>4 DEF DecoderType
  <1>10. CASE Reset(g)
    <2>1. PICK q, to : q = [gui EXCEPT ![g].state = "quit"] /\ to = gui[g].to
      OBVIOUS
    <2>2. q \in Seq(AGui) /\ Len(q) = Len(gui) /\ to \in Islands \cup {None}
      BY <1>1, <1>3, <1>4, <2>1 DEF AGui
    <2>3. \A i \in Islands : NewGui(i) \in AGui
      BY DEF NewGui, AGui
    <2>4. gui' = IF to = None THEN q ELSE Append(q, NewGui(to))
      BY <1>10, <2>1 DEF Reset
    <2>5. gui' \in Seq(AGui) /\ Len(gui') \in Nat /\ Len(gui') >= Len(gui)
      <3>1. CASE to = None
        BY <1>3, <2>2, <2>4, <3>1
      <3>2. CASE to # None
        <4>1. to \in Islands /\ gui' = Append(q, NewGui(to))
          BY <2>2, <2>4, <3>2
        <4>2. PICK x \in AGui : gui' = Append(q, x)
          BY <2>3, <4>1
        <4> QED
          BY <1>3, <2>2, <4>2
      <3> QED
        BY <3>1, <3>2
    <2>6. /\ decoder \in [Decoders -> ADecoder']
          /\ current \in [Islands -> (Guis \cup {None})']
      BY <1>1, <1>3, <2>5, GuisGrow
    <2>7. \A d \in Decoders : decoder'[d] \in ADecoder'
      <3> SUFFICES ASSUME NEW d \in Decoders
                   PROVE  decoder'[d] \in ADecoder'
        OBVIOUS
      <3>1. PICK m : m = IF to = None THEN Quit ELSE QuitMV(to)
        OBVIOUS
      <3>2. m \in DecoderMail
        BY <2>2, <3>1, Messages DEF DecoderMail
      <3>3. \/ decoder'[d] = decoder[d]
            \/ decoder'[d] = [decoder[d] EXCEPT !.mail = Append(@, m)]
        BY <1>10, <2>1, <3>1 DEF Reset
      <3>4. decoder[d] \in ADecoder'
        BY <2>6
      <3>5. PICK A : A = ADecoder' /\ decoder[d].mail \in Seq(DecoderMail)
        BY <1>1 DEF DecoderType, ADecoder
      <3>6. Append(decoder[d].mail, m) \in Seq(DecoderMail)
        BY <3>2, <3>5
      <3>7. [decoder[d] EXCEPT !.mail = Append(@, m)] \in ADecoder'
        BY <3>4, <3>6 DEF ADecoder
      <3> QED
        BY <3>3, <3>4, <3>7
    <2>8. DecoderType'
      BY <1>10, <2>7 DEF Reset, DecoderType
    <2>9. RegistryType'
      <3>1. Append(readlock[gui[g].isle], 0) \in Seq(Nat)
        BY <1>1
      <3>2. readlock' \in [Islands -> Seq(Nat)]
        BY <1>1, <1>10, <3>1 DEF Reset, RegistryType
      <3> QED
        BY <1>10, <2>6, <3>2 DEF Reset, RegistryType
    <2> QED
      BY <1>2, <2>5, <2>8, <2>9 DEF GuiType
  <1>11. ASSUME NEW d \in Decoders, Dismiss(g, d)
         PROVE  Types' /\ Len(gui') >= Len(gui)
    <2>1. decoder[d] \in ADecoder /\ decoder[d].mail \in Seq(DecoderMail)
      BY <1>1 DEF DecoderType, ADecoder
    <2>2. Append(decoder[d].mail, Quit) \in Seq(DecoderMail)
      BY <2>1, Messages DEF DecoderMail
    <2>3. [gui[g] EXCEPT !.decoders = @ \ {Self(d)}] \in AGui
      BY <1>1 DEF AGui
    <2>4. gui' \in Seq(AGui) /\ Len(gui') = Len(gui)
      BY <1>3, <1>11, <2>3 DEF Dismiss
    <2>5. decoder' \in [Decoders -> ADecoder]
      BY <1>1, <1>11, <2>1, <2>2 DEF Dismiss, DecoderType, ADecoder
    <2>6. RegistryType'
      BY <1>1, <1>5, <1>11, <2>4 DEF Dismiss, RegistryType, registry
    <2> QED
      BY <1>2, <1>3, <1>5, <2>4, <2>5, <2>6 DEF DecoderType
  <1> QED
    BY <1>6, <1>7, <1>8, <1>9, <1>10, <1>11 DEF GuiStep, UserStep

-----------------------------------------------------------------------------
(* The other parts hold initially.                                          *)

LEMMA InitRest == Init => RelayInv /\ AskInv /\ HoldInv /\ StreamInv
  <1> SUFFICES ASSUME Init PROVE RelayInv /\ AskInv /\ HoldInv /\ StreamInv
    OBVIOUS
  <1>1. /\ encoded = 0 /\ relay.state = "loop" /\ relay.mail = <<>> /\ relay.relays = {}
        /\ \A i \in Islands : forward[i].mail = <<>> /\ forward[i].curls = {}
        /\ \A d \in Decoders : /\ decoder[d].state = "unborn" /\ decoder[d].mail = <<>>
                               /\ decoder[d].last = 0
    <2>1. \A d \in Decoders : \E i \in Islands :
             decoder[d] = [NewDecoder(i, 1) EXCEPT !.state = "unborn"]
      BY DEF Init
    <2>2. \A i \in Islands : forward[i] = NewForward
      BY DEF Init
    <2>3. \A d \in Decoders : /\ decoder[d].state = "unborn" /\ decoder[d].mail = <<>>
                              /\ decoder[d].last = 0
      BY <2>1 DEF NewDecoder
    <2>4. \A i \in Islands : forward[i].mail = <<>> /\ forward[i].curls = {}
      BY <2>2 DEF NewForward
    <2> QED
      BY <2>3, <2>4 DEF Init
  <1>2. Positions(<<>>) = {}
    BY DEF Positions
  <1>3. RelayInv
    BY <1>1, FS_EmptySet DEF RelayInv
  <1>4. AskInv
    BY <1>1, <1>2 DEF AskInv, Asks, AsksOnce
  <1>5. HoldInv
    BY <1>1, <1>2 DEF HoldInv, Removes, Is
  <1>6. StreamInv
    <2>1. Stream(<<>>, 0, 0)
      BY <1>2 DEF Stream
    <2>2. RelayStream(0)
      BY <1>1, <2>1 DEF RelayStream
    <2>3. ForwardStream(0, [i \in Islands |-> 0])
      BY <1>1 DEF ForwardStream
    <2>4. DecoderStream([i \in Islands |-> 0], [d \in Decoders |-> 0])
      BY <1>1 DEF DecoderStream, Is
    <2>5. SilentInv
      BY <1>1, <1>2 DEF SilentInv, Silent
    <2> QED
      BY <2>2, <2>3, <2>4, <2>5 DEF StreamInv, Streams
  <1> QED
    BY <1>3, <1>4, <1>5, <1>6

-----------------------------------------------------------------------------
(* The relays.                                                              *)

\* What a message to the forward relays changes.
LEMMA SendFacts ==
    ASSUME ForwardType, NEW S, NEW m \in ForwardMail, SendForward(S, m)
    PROVE  \A i \in Islands :
              /\ forward[i].mail \in Seq(ForwardMail)
              /\ forward'[i].curls = forward[i].curls /\ forward'[i].ids = forward[i].ids
              /\ i \in S => forward'[i].mail = Append(forward[i].mail, m)
              /\ i \notin S => forward'[i].mail = forward[i].mail
  BY DEF ForwardType, ForwardRelay, SendForward

\* What taking the message at the head of a forward relay's mailbox tells.
LEMMA HeardFacts ==
    ASSUME Types, RelayInv, NEW i \in Islands, NEW body, Heard(i, body)
    PROVE  /\ forward[i].mail \in Seq(ForwardMail) /\ forward[i].mail # <<>>
           /\ Head(forward[i].mail) \in ForwardMail /\ Head(forward[i].mail).body = body
           /\ i \in relay.relays /\ forward[i].ids \in Nat
           /\ forward[i].curls \subseteq Subscription
           /\ body = "Frame" => Head(forward[i].mail) \in Frames
           /\ body = "AddCURL" => Head(forward[i].mail) \in Additions
           /\ body = "RemoveCURL" => Head(forward[i].mail) \in Removals
  <1>1. /\ forward[i].mail \in Seq(ForwardMail) /\ forward[i].ids \in Nat
        /\ forward[i].curls \subseteq Subscription
    BY DEF Types, ForwardType, ForwardRelay
  <1>2. forward[i].mail # <<>> /\ Head(forward[i].mail).body = body
    BY DEF Heard
  <1>3. Head(forward[i].mail) \in ForwardMail
    BY <1>1, <1>2
  <1>4. i \in relay.relays
    BY <1>2 DEF RelayInv
  <1>5. \A m \in ForwardMail : /\ m.body = "Frame" => m \in Frames
                               /\ m.body = "AddCURL" => m \in Additions
                               /\ m.body = "RemoveCURL" => m \in Removals
    BY DEF ForwardMail, Frames, Additions, Removals
  <1> QED
    BY <1>1, <1>2, <1>3, <1>4, <1>5

LEMMA ReceivedFacts ==
    ASSUME Types, NEW body, Received(body)
    PROVE  /\ relay.state = "loop" /\ relay.mail \in Seq(RelayMail) /\ relay.mail # <<>>
           /\ Head(relay.mail) \in RelayMail /\ Head(relay.mail).body = body
           /\ relay.relays \subseteq Islands
           /\ body = "Frame" => Head(relay.mail) \in Frames
           /\ body = "AddCURL" => Head(relay.mail) \in Additions
  <1>1. relay.mail \in Seq(RelayMail) /\ relay.relays \subseteq Islands
    BY DEF Types, RelayType
  <1>2. relay.state = "loop" /\ relay.mail # <<>> /\ Head(relay.mail).body = body
    BY DEF Received
  <1>3. Head(relay.mail) \in RelayMail
    BY <1>1, <1>2
  <1>4. \A m \in RelayMail : /\ m.body = "Frame" => m \in Frames
                             /\ m.body = "AddCURL" => m \in Additions
    BY DEF RelayMail, Frames, Additions
  <1> QED
    BY <1>1, <1>2, <1>3, <1>4

\* A subscribed decoder's island has a forward relay.
LEMMA LoopRelays ==
    ASSUME Types, RelayInv, HoldInv, NEW d \in Decoders, Is(d, "loop")
    PROVE  decoder[d].isle \in relay.relays
  <1>1. decoder[d].isle \in Islands
    BY DEF Types, DecoderType, ADecoder
  <1>2. forward[decoder[d].isle].curls # {}
    BY DEF HoldInv
  <1> QED
    BY <1>1, <1>2 DEF RelayInv

\* No forward relay that is not deployed is told or keeps anything.
LEMMA RelayInvRelay ==
    ASSUME Types, RelayInv, Encode \/ RelayStep \/ DeployFails
    PROVE  RelayInv'
  <1>1. CASE Encode
    BY <1>1 DEF Encode, Publish, RelayInv
  <1>2. CASE RelayFrame
    <2>1. /\ SendForward(relay.relays, Head(relay.mail)) /\ Head(relay.mail) \in ForwardMail
          /\ relay.state = "loop"
      BY <1>2, ReceivedFacts, Messages DEF RelayFrame
    <2>2. \A i \in Islands : /\ forward'[i].curls = forward[i].curls
                             /\ i \notin relay.relays => forward'[i].mail = forward[i].mail
      BY <2>1, SendFacts DEF Types
    <2>3. relay'.state = relay.state /\ relay'.relays = relay.relays
      BY <1>2 DEF RelayFrame, Types, RelayType
    <2> QED
      BY <2>1, <2>2, <2>3 DEF RelayInv
  <1>3. CASE RelayAdd
    <2>1. PICK m : /\ m = Head(relay.mail) /\ m.isle \in relay.relays /\ m \in ForwardMail
                   /\ SendForward({m.isle}, m)
      BY <1>3, ReceivedFacts, Messages DEF RelayAdd
    <2>2. relay.state = "loop" /\ relay'.state = relay.state /\ relay'.relays = relay.relays
      BY <1>3, ReceivedFacts DEF RelayAdd, Types, RelayType
    <2>3. \A i \in Islands : /\ forward'[i].curls = forward[i].curls
                             /\ i \notin relay.relays => forward'[i].mail = forward[i].mail
      BY <2>1, SendFacts DEF Types
    <2> QED
      BY <2>2, <2>3 DEF RelayInv
  <1>4. CASE DeployForward
    <2>1. PICK m : m = Head(relay.mail) /\ m.isle \notin relay.relays /\ m \in Additions
      BY <1>4, ReceivedFacts DEF DeployForward
    <2>2. /\ relay'.state = "wait" /\ relay'.relays = relay.relays /\ relay'.request = m
          /\ forward' = [forward EXCEPT ![m.isle].state = "spawn"]
      BY <1>4, <2>1 DEF DeployForward, Types, RelayType
    <2>3. \A i \in Islands : /\ forward'[i].mail = forward[i].mail
                             /\ forward'[i].curls = forward[i].curls
      BY <2>2 DEF Types, ForwardType, ForwardRelay
    <2> QED
      BY <2>1, <2>2, <2>3 DEF RelayInv
  <1>5. CASE Deployed
    <2>1. PICK m : m = relay.request /\ m \in Additions /\ m \in ForwardMail
      BY <1>5, Messages DEF Deployed, RelayInv
    <2>2. /\ relay'.state = "loop" /\ relay'.relays = relay.relays \cup {m.isle}
          /\ SendForward({m.isle}, m)
      BY <1>5, <2>1 DEF Deployed, Types, RelayType
    <2>3. \A i \in Islands : /\ forward'[i].curls = forward[i].curls
                             /\ i \notin {m.isle} => forward'[i].mail = forward[i].mail
      BY <2>1, <2>2, SendFacts DEF Types
    <2> QED
      BY <2>2, <2>3 DEF RelayInv
  <1>6. CASE DeployFails
    <2>1. /\ relay'.state = "dead" /\ relay'.mail = <<>> /\ relay'.relays = relay.relays
          /\ forward' = forward
      BY <1>6 DEF DeployFails, Types, RelayType
    <2> QED
      BY <2>1 DEF RelayInv
  <1> QED
    BY <1>1, <1>2, <1>3, <1>4, <1>5, <1>6 DEF RelayStep

LEMMA RelayInvForward ==
    ASSUME Types, RelayInv, NEW i \in Islands, ForwardStep(i)
    PROVE  RelayInv'
  <1>1. CASE Spawned(i)
    <2>1. relay' = relay /\ \A j \in Islands : /\ forward'[j].mail = forward[j].mail
                                               /\ forward'[j].curls = forward[j].curls
      BY <1>1 DEF Spawned, Types, ForwardType, ForwardRelay
    <2> QED
      BY <2>1 DEF RelayInv
  <1>2. CASE ForwardFrame(i)
    <2>1. i \in relay.relays
      BY <1>2, HeardFacts DEF ForwardFrame
    <2>2. relay' = relay /\ \A j \in Islands : /\ j # i => forward'[j] = forward[j]
                                               /\ forward'[j].curls = forward[j].curls
      BY <1>2 DEF ForwardFrame, Types, ForwardType, ForwardRelay
    <2> QED
      BY <2>1, <2>2 DEF RelayInv
  <1>3. CASE ForwardAdd(i)
    <2>1. PICK c, w, k : Adds(i, c, w, k)
      BY <1>3, AddFacts
    <2>2. i \in relay.relays /\ forward[i] \in ForwardRelay
      <3>1. Heard(i, "AddCURL")
        BY <2>1 DEF Adds
      <3> QED
        BY <3>1, HeardFacts DEF Types, ForwardType
    <2>3. PICK s : /\ relay' = relay /\ \A j \in Islands : j # i => forward'[j] = forward[j]
                   /\ forward'[i].curls = forward[i].curls \cup {s}
      <3>1. PICK s : s = [id |-> k, curl |-> c]
        OBVIOUS
      <3> QED
        BY <2>1, <2>2, <3>1 DEF Adds, Same, Types, ForwardType, ForwardRelay
    <2>4. IsFiniteSet(forward'[i].curls)
      BY <2>3, FS_AddElement DEF RelayInv
    <2> QED
      BY <2>2, <2>3, <2>4 DEF RelayInv
  <1>4. CASE ForwardRemove(i)
    <2>1. i \in relay.relays
      BY <1>4, HeardFacts DEF ForwardRemove
    <2>2. /\ relay' = relay /\ \A j \in Islands : j # i => forward'[j] = forward[j]
          /\ forward'[i].curls \subseteq forward[i].curls
      BY <1>4 DEF ForwardRemove, Types, ForwardType, ForwardRelay
    <2>3. IsFiniteSet(forward'[i].curls)
      BY <2>2, FS_Subset DEF RelayInv
    <2> QED
      BY <2>1, <2>2, <2>3 DEF RelayInv
  <1> QED
    BY <1>1, <1>2, <1>3, <1>4 DEF ForwardStep

LEMMA RelayInvDecoder ==
    ASSUME Types, RelayInv, HoldInv, NEW d \in Decoders, Spawn(d) \/ DecoderStep(d)
    PROVE  RelayInv'
  <1>1. CASE Subscribe(d)
    BY <1>1 DEF Subscribe, Publish, RelayInv
  <1>2. CASE Leave(d)
    <2>1. PICK m : m = RemoveCURL(decoder[d].ctrl) /\ m \in ForwardMail
      BY Messages DEF Types, DecoderType, ADecoder
    <2>2. decoder[d].isle \in relay.relays
      BY <1>2, LoopRelays DEF Leave, Finds
    <2>3. relay' = relay /\ \A i \in Islands :
             /\ forward'[i].curls = forward[i].curls
             /\ i # decoder[d].isle => forward'[i].mail = forward[i].mail
      BY <1>2, <2>1, SendFacts DEF Leave, Types
    <2> QED
      BY <2>2, <2>3 DEF RelayInv
  <1>3. CASE Spawn(d) \/ Enter(d) \/ Take(d) \/ Read(d) \/ GiveUp(d) \/ Decode(d)
    <2>1. relay' = relay /\ forward' = forward
      BY <1>3 DEF Spawn, Enter, Take, Read, GiveUp, Decode
    <2> QED
      BY <2>1 DEF RelayInv
  <1> QED
    BY <1>1, <1>2, <1>3 DEF DecoderStep

-----------------------------------------------------------------------------
(* The requests.                                                            *)

\* A request that is somewhere.
Pending(c, i) ==
    \/ Asks(relay.mail, c, i) \/ \E j \in Islands : Asks(forward[j].mail, c, i)
    \/ relay.state = "wait" /\ relay.request.curl = c /\ relay.request.isle = i

\* Messages are taken, no request is put anywhere, and who still asks waits.
LEMMA AsksFewer ==
    ASSUME Types, RelayInv, AskInv,
           AsksOnce(relay.mail) => AsksOnce(relay'.mail),
           \A c, i : Asks(relay'.mail, c, i) => Asks(relay.mail, c, i),
           \A j \in Islands :
              /\ AsksOnce(forward[j].mail) => AsksOnce(forward'[j].mail)
              /\ \A c, i : Asks(forward'[j].mail, c, i) => Asks(forward[j].mail, c, i),
           relay'.state = "wait" => relay.state = "wait" /\ relay'.request = relay.request,
           \A c \in Subscriber : \A i \in Islands :
              Waits(c, i) /\ Pending(c, i)' => Waits(c, i)'
    PROVE  AskInv'
  <1>1. AsksOnce(relay'.mail) /\ \A i \in Islands : AsksOnce(forward'[i].mail)
    BY DEF AskInv
  <1>2. ASSUME NEW c \in Subscriber, NEW i \in Islands, Asks(relay'.mail, c, i)
        PROVE  Waits(c, i)'
    BY <1>2 DEF AskInv, Pending
  <1>3. ASSUME NEW c \in Subscriber, NEW i \in Islands, NEW j \in Islands,
               Asks(forward'[j].mail, c, i)
        PROVE  i = j /\ Waits(c, i)' /\ ~ Asks(relay'.mail, c, i)
    <2>1. i = j /\ Waits(c, i) /\ ~ Asks(relay.mail, c, i)
      BY <1>3 DEF AskInv
    <2>2. Pending(c, i)'
      BY <1>3 DEF Pending
    <2> QED
      BY <2>1, <2>2
  <1>4. ASSUME relay'.state = "wait", NEW c, NEW i,
               c = relay'.request.curl, i = relay'.request.isle
        PROVE  Waits(c, i)' /\ ~ Asks(relay'.mail, c, i) /\ ~ Asks(forward'[i].mail, c, i)
    <2>1. c \in Subscriber /\ i \in Islands
      BY <1>4 DEF RelayInv, Additions
    <2>2. Waits(c, i) /\ ~ Asks(relay.mail, c, i) /\ ~ Asks(forward[i].mail, c, i)
      BY <1>4 DEF AskInv
    <2>3. Pending(c, i)'
      BY <1>4 DEF Pending
    <2> QED
      BY <2>1, <2>2, <2>3
  <1> QED
    BY <1>1, <1>2, <1>3, <1>4 DEF AskInv

LEMMA AskInvRelay ==
    ASSUME Types, RelayInv, AskInv, Encode \/ RelayStep \/ DeployFails
    PROVE  AskInv'
  <1>1. decoder' = decoder
    BY DEF Encode, RelayStep, RelayFrame, RelayAdd, DeployForward, Deployed, DeployFails
  <1>2. \A c \in Subscriber : \A i \in Islands : Waits(c, i) => Waits(c, i)'
    BY <1>1 DEF Waits, Self
  <1>3. \A c, i : Waits(c, i)' <=> Waits(c, i)
    BY <1>1 DEF Waits, Self
  <1>4. relay.mail \in Seq(RelayMail)
    BY DEF Types, RelayType
  <1>5. CASE Encode
    <2>1. PICK m : m = Frame(encoded + 1) /\ m \in RelayMail /\ Publish(m)
      <3>1. encoded + 1 \in 1 .. MaxFrames
        BY <1>5, CoastcastAssumption DEF Encode, Types
      <3> QED
        BY <1>5, <3>1, Messages DEF Encode, RelayMail
    <2>2. \A c, i : m # AddCURL(c, i)
      BY <2>1 DEF Frame, AddCURL
    <2>3. m.body # "AddCURL"
      BY <2>1 DEF Frame
    <2>4. /\ AsksOnce(relay.mail) => AsksOnce(relay'.mail)
          /\ \A c, i : Asks(relay'.mail, c, i) => Asks(relay.mail, c, i)
      <3>1. CASE relay' = relay
        BY <3>1
      <3>2. CASE relay'.mail = Append(relay.mail, m)
        BY <1>4, <2>1, <2>2, <2>3, <3>2, AppendAsks
      <3> QED
        BY <2>1, <3>1, <3>2 DEF Publish, Types, RelayType
    <2>5. relay'.state = relay.state /\ relay'.request = relay.request
      BY <2>1 DEF Publish, Types, RelayType
    <2> QED
      BY <1>2, <1>5, <2>4, <2>5, AsksFewer DEF Encode
  <1>6. CASE RelayFrame
    <2>1. PICK m : /\ m = Head(relay.mail) /\ m \in ForwardMail /\ m \in Frames
                   /\ relay.mail # <<>> /\ SendForward(relay.relays, m)
                   /\ relay'.mail = Tail(relay.mail) /\ relay'.state = "loop"
      BY <1>6, ReceivedFacts, Messages DEF RelayFrame, Types, RelayType
    <2>2. \A c, i : m # AddCURL(c, i)
      BY <2>1 DEF Frames, AddCURL
    <2>3. m.body # "AddCURL"
      BY <2>1 DEF Frames
    <2>4. /\ AsksOnce(relay.mail) => AsksOnce(relay'.mail)
          /\ \A c, i : Asks(relay'.mail, c, i) => Asks(relay.mail, c, i)
      BY <1>4, <2>1, TailAsks
    <2>5. \A j \in Islands :
             /\ AsksOnce(forward[j].mail) => AsksOnce(forward'[j].mail)
             /\ \A c, i : Asks(forward'[j].mail, c, i) => Asks(forward[j].mail, c, i)
      <3> SUFFICES ASSUME NEW j \in Islands
                   PROVE  /\ AsksOnce(forward[j].mail) => AsksOnce(forward'[j].mail)
                          /\ \A c, i : Asks(forward'[j].mail, c, i) => Asks(forward[j].mail, c, i)
        OBVIOUS
      <3>1. /\ forward[j].mail \in Seq(ForwardMail)
            /\ \/ forward'[j].mail = forward[j].mail
               \/ forward'[j].mail = Append(forward[j].mail, m)
        BY <2>1, SendFacts DEF Types
      <3>2. PICK s \in Seq(ForwardMail) : s = forward[j].mail
        BY <3>1
      <3>3. m \in ForwardMail
        BY <2>1
      <3>4. /\ \A c, i : Asks(Append(s, m), c, i) <=> Asks(s, c, i) \/ m = AddCURL(c, i)
            /\ AsksOnce(s) /\ m.body # "AddCURL" => AsksOnce(Append(s, m))
        BY <3>3, AppendAsks
      <3> QED
        BY <2>2, <2>3, <3>1, <3>2, <3>4
    <2> QED
      BY <1>2, <2>1, <2>4, <2>5, AsksFewer
  <1>7. CASE RelayAdd
    <2>1. PICK m : /\ m = Head(relay.mail) /\ m \in ForwardMail /\ m \in Additions
                   /\ relay.mail # <<>> /\ SendForward({m.isle}, m)
                   /\ relay'.mail = Tail(relay.mail) /\ relay'.state = "loop"
      BY <1>7, ReceivedFacts, Messages DEF RelayAdd, Types, RelayType
    <2>2. PICK a, b : m = AddCURL(a, b) /\ a = m.curl /\ b = m.isle
                      /\ a \in Subscriber /\ b \in Islands
      BY <2>1, Messages
    <2>3. /\ AsksOnce(relay'.mail) /\ Asks(relay.mail, a, b)
          /\ \A c, i : Asks(relay'.mail, c, i) => Asks(relay.mail, c, i)
          /\ \A i : ~ Asks(relay'.mail, a, i)
      <3>1. /\ \A c, i : Asks(Tail(relay.mail), c, i) => Asks(relay.mail, c, i)
            /\ \A c, i : Head(relay.mail) = AddCURL(c, i) => Asks(relay.mail, c, i)
            /\ AsksOnce(relay.mail) => AsksOnce(Tail(relay.mail))
            /\ AsksOnce(relay.mail) =>
                  \A c, i, j : Head(relay.mail) = AddCURL(c, i) => ~ Asks(Tail(relay.mail), c, j)
        BY <1>4, <2>1, TailAsks, Zenon
      <3> QED
        BY <2>1, <2>2, <3>1 DEF AskInv
    <2>4. Waits(a, b)
      BY <2>2, <2>3 DEF AskInv
    <2>5. \A j \in Islands : \A i \in Islands : ~ Asks(forward[j].mail, a, i)
      <3> SUFFICES ASSUME NEW j \in Islands, NEW i \in Islands, Asks(forward[j].mail, a, i)
                   PROVE  FALSE
        OBVIOUS
      <3>1. Waits(a, i) /\ ~ Asks(relay.mail, a, i)
        BY <2>2 DEF AskInv
      <3>2. i = b
        BY <2>4, <3>1 DEF Waits
      <3> QED
        BY <2>3, <3>1, <3>2
    <2>6. \A j \in Islands :
             /\ forward[j].mail \in Seq(ForwardMail)
             /\ j = b => forward'[j].mail = Append(forward[j].mail, m)
             /\ j # b => forward'[j].mail = forward[j].mail
      <3>1. \A j \in Islands :
               /\ forward[j].mail \in Seq(ForwardMail)
               /\ j \in {m.isle} => forward'[j].mail = Append(forward[j].mail, m)
               /\ j \notin {m.isle} => forward'[j].mail = forward[j].mail
        BY <2>1, SendFacts DEF Types
      <3> QED
        BY <2>2, <3>1
    <2>7. \A j \in Islands : AsksOnce(forward'[j].mail)
      <3> SUFFICES ASSUME NEW j \in Islands PROVE AsksOnce(forward'[j].mail)
        OBVIOUS
      <3>1. CASE j # b
        BY <2>6, <3>1 DEF AskInv
      <3>2. CASE j = b
        <4>1. \A k \in Positions(forward[j].mail) : forward[j].mail[k].body = "AddCURL" =>
                 forward[j].mail[k].curl # m.curl
          <5> SUFFICES ASSUME NEW k \in Positions(forward[j].mail),
                              forward[j].mail[k].body = "AddCURL", forward[j].mail[k].curl = a
                       PROVE  FALSE
            BY <2>2
          <5>1. forward[j].mail[k] \in ForwardMail
            BY <2>6 DEF Positions
          <5>2. forward[j].mail[k] \in Additions
            BY <5>1 DEF ForwardMail, Frames, Removals
          <5>3. PICK i \in Islands : forward[j].mail[k] = AddCURL(a, i)
            BY <5>2, Messages
          <5> QED
            BY <2>5, <5>3 DEF Asks
        <4>2. AsksOnce(forward[j].mail)
          BY DEF AskInv
        <4> QED
          BY <2>1, <2>6, <3>2, <4>1, <4>2, AppendAsks
      <3> QED
        BY <3>1, <3>2
    <2>8. \A j \in Islands : \A c, i :
             Asks(forward'[j].mail, c, i) => Asks(forward[j].mail, c, i) \/ (j = b /\ c = a /\ i = b)
      <3> SUFFICES ASSUME NEW j \in Islands, NEW c, NEW i, Asks(forward'[j].mail, c, i)
                   PROVE  Asks(forward[j].mail, c, i) \/ (j = b /\ c = a /\ i = b)
        OBVIOUS
      <3>1. CASE j # b
        BY <2>6, <3>1
      <3>2. CASE j = b
        <4>1. Asks(forward[j].mail, c, i) \/ m = AddCURL(c, i)
          <5>1. PICK s \in Seq(ForwardMail) : s = forward[j].mail
            BY <2>6
          <5>2. m \in ForwardMail
            BY <2>1
          <5>3. Asks(Append(s, m), c, i) <=> Asks(s, c, i) \/ m = AddCURL(c, i)
            BY <5>2, AppendAsks
          <5>4. forward'[j].mail = Append(s, m)
            BY <2>6, <3>2, <5>1
          <5> QED
            BY <3>2, <5>1, <5>3, <5>4
        <4>2. m = AddCURL(c, i) => c = a /\ i = b
          BY <2>2 DEF AddCURL
        <4> QED
          BY <3>2, <4>1, <4>2
      <3> QED
        BY <3>1, <3>2
    <2>9. ASSUME NEW c \in Subscriber, NEW i \in Islands, Asks(relay'.mail, c, i)
          PROVE  Waits(c, i)'
      BY <1>3, <2>3, <2>9 DEF AskInv
    <2>10. ASSUME NEW c \in Subscriber, NEW i \in Islands, NEW j \in Islands,
                  Asks(forward'[j].mail, c, i)
           PROVE  i = j /\ Waits(c, i)' /\ ~ Asks(relay'.mail, c, i)
      <3>1. CASE Asks(forward[j].mail, c, i)
        BY <1>3, <2>3, <3>1 DEF AskInv
      <3>2. CASE j = b /\ c = a /\ i = b
        BY <1>3, <2>3, <2>4, <3>2
      <3> QED
        BY <2>8, <2>10, <3>1, <3>2
    <2> QED
      BY <2>1, <2>3, <2>7, <2>9, <2>10 DEF AskInv
  <1>8. CASE DeployForward
    <2>1. PICK m : /\ m = Head(relay.mail) /\ m \in Additions /\ relay.mail # <<>>
                   /\ relay'.mail = Tail(relay.mail) /\ relay'.request = m
                   /\ m.isle \notin relay.relays
      BY <1>8, ReceivedFacts DEF DeployForward, Types, RelayType
    <2>2. PICK a, b : m = AddCURL(a, b) /\ a = m.curl /\ b = m.isle
                      /\ a \in Subscriber /\ b \in Islands
      BY <2>1, Messages
    <2>3. /\ AsksOnce(relay'.mail) /\ Asks(relay.mail, a, b)
          /\ \A c, i : Asks(relay'.mail, c, i) => Asks(relay.mail, c, i)
          /\ \A i : ~ Asks(relay'.mail, a, i)
      <3>1. /\ \A c, i : Asks(Tail(relay.mail), c, i) => Asks(relay.mail, c, i)
            /\ \A c, i : Head(relay.mail) = AddCURL(c, i) => Asks(relay.mail, c, i)
            /\ AsksOnce(relay.mail) => AsksOnce(Tail(relay.mail))
            /\ AsksOnce(relay.mail) =>
                  \A c, i, j : Head(relay.mail) = AddCURL(c, i) => ~ Asks(Tail(relay.mail), c, j)
        BY <1>4, <2>1, TailAsks, Zenon
      <3> QED
        BY <2>1, <2>2, <3>1 DEF AskInv
    <2>4. Waits(a, b) /\ forward[b].mail = <<>>
      BY <2>1, <2>2, <2>3 DEF AskInv, RelayInv
    <2>5. ~ Asks(forward[b].mail, a, b)
      BY <2>4 DEF Asks, Positions
    <2>6. \A j \in Islands : forward'[j].mail = forward[j].mail
      BY <1>8 DEF DeployForward, Types, ForwardType, ForwardRelay
    <2>7. ASSUME NEW c \in Subscriber, NEW i \in Islands, Asks(relay'.mail, c, i)
          PROVE  Waits(c, i)'
      BY <1>3, <2>3, <2>7 DEF AskInv
    <2>8. ASSUME NEW c \in Subscriber, NEW i \in Islands, NEW j \in Islands,
                 Asks(forward'[j].mail, c, i)
          PROVE  i = j /\ Waits(c, i)' /\ ~ Asks(relay'.mail, c, i)
      BY <1>3, <2>3, <2>6, <2>8 DEF AskInv
    <2>9. Waits(a, b)' /\ ~ Asks(relay'.mail, a, b) /\ ~ Asks(forward'[b].mail, a, b)
      BY <1>3, <2>2, <2>3, <2>4, <2>5, <2>6
    <2>10. \A j \in Islands : AsksOnce(forward'[j].mail)
      BY <2>6 DEF AskInv
    <2> QED
      BY <2>1, <2>2, <2>3, <2>7, <2>8, <2>9, <2>10 DEF AskInv
  <1>9. CASE Deployed
    <2>1. PICK m : /\ m = relay.request /\ m \in Additions /\ m \in ForwardMail
                   /\ relay.state = "wait" /\ m.isle \notin relay.relays
                   /\ SendForward({m.isle}, m)
                   /\ relay'.mail = relay.mail /\ relay'.state = "loop"
      BY <1>9, Messages DEF Deployed, RelayInv, Types, RelayType
    <2>2. PICK a, b : m = AddCURL(a, b) /\ a = m.curl /\ b = m.isle
                      /\ a \in Subscriber /\ b \in Islands
      BY <2>1, Messages
    <2>3. /\ Waits(a, b) /\ ~ Asks(relay.mail, a, b) /\ forward[b].mail = <<>>
      BY <2>1, <2>2 DEF AskInv, RelayInv
    <2>4. \A j \in Islands :
             /\ forward[j].mail \in Seq(ForwardMail)
             /\ j = b => forward'[j].mail = Append(forward[j].mail, m)
             /\ j # b => forward'[j].mail = forward[j].mail
      <3>1. \A j \in Islands :
               /\ forward[j].mail \in Seq(ForwardMail)
               /\ j \in {m.isle} => forward'[j].mail = Append(forward[j].mail, m)
               /\ j \notin {m.isle} => forward'[j].mail = forward[j].mail
        BY <2>1, SendFacts DEF Types
      <3> QED
        BY <2>2, <3>1
    <2>5. forward'[b].mail = <<m>>
      BY <2>1, <2>2, <2>3, <2>4
    <2>6. AsksOnce(<<m>>) /\ \A c, i : Asks(<<m>>, c, i) => c = a /\ i = b
      BY <2>2 DEF AsksOnce, Asks, Positions, AddCURL
    <2>7. \A j \in Islands : AsksOnce(forward'[j].mail)
      BY <2>4, <2>5, <2>6 DEF AskInv
    <2>8. ASSUME NEW c \in Subscriber, NEW i \in Islands, Asks(relay'.mail, c, i)
          PROVE  Waits(c, i)'
      BY <1>3, <2>1, <2>8 DEF AskInv
    <2>9. ASSUME NEW c \in Subscriber, NEW i \in Islands, NEW j \in Islands,
                 Asks(forward'[j].mail, c, i)
          PROVE  i = j /\ Waits(c, i)' /\ ~ Asks(relay'.mail, c, i)
      <3>1. CASE j = b
        BY <1>3, <2>1, <2>3, <2>5, <2>6, <2>9, <3>1
      <3>2. CASE j # b
        BY <1>3, <2>1, <2>4, <2>9, <3>2 DEF AskInv
      <3> QED
        BY <3>1, <3>2
    <2>10. AsksOnce(relay'.mail)
      BY <2>1 DEF AskInv
    <2> QED
      BY <2>1, <2>7, <2>8, <2>9, <2>10 DEF AskInv
  <1>10. CASE DeployFails
    <2>1. relay'.mail = <<>> /\ relay'.state = "dead" /\ forward' = forward
      BY <1>10 DEF DeployFails, Types, RelayType
    <2>2. AsksOnce(<<>>) /\ \A c, i : ~ Asks(<<>>, c, i)
      BY DEF AsksOnce, Asks, Positions
    <2> QED
      BY <1>2, <2>1, <2>2, AsksFewer
  <1> QED
    BY <1>5, <1>6, <1>7, <1>8, <1>9, <1>10 DEF RelayStep

LEMMA AskInvForward ==
    ASSUME Types, RelayInv, AskInv, NEW i \in Islands, ForwardStep(i)
    PROVE  AskInv'
  <1>1. relay' = relay
    BY TakenFacts DEF ForwardStep, Spawned, Same
  <1>2. CASE Spawned(i)
    <2>1. /\ decoder' = decoder
          /\ \A j \in Islands : forward'[j].mail = forward[j].mail
      BY <1>2 DEF Spawned, Types, ForwardType, ForwardRelay
    <2>2. \A c \in Subscriber : \A k \in Islands : Waits(c, k) => Waits(c, k)'
      BY <2>1 DEF Waits, Self
    <2> QED
      BY <1>1, <2>1, <2>2, AsksFewer
  <1>3. CASE ForwardFrame(i) \/ ForwardAdd(i) \/ ForwardRemove(i)
    <2>1. /\ forward[i].mail \in Seq(ForwardMail) /\ forward[i].mail # <<>>
          /\ Head(forward[i].mail) \in ForwardMail
      BY <1>3, TakenFacts, HeardFacts
    <2>2. /\ forward'[i].mail = Tail(forward[i].mail)
          /\ \A j \in Islands \ {i} : forward'[j].mail = forward[j].mail
      BY <1>3, TakenFacts
    <2>3. PICK s \in Seq(ForwardMail) : s = forward[i].mail /\ s # <<>>
      BY <2>1
    <2>4. /\ \A c, k : Asks(Tail(s), c, k) => Asks(s, c, k)
          /\ \A c, k : Head(s) = AddCURL(c, k) => Asks(s, c, k)
          /\ AsksOnce(s) => AsksOnce(Tail(s))
          /\ AsksOnce(s) => \A c, k, j : Head(s) = AddCURL(c, k) => ~ Asks(Tail(s), c, j)
      BY <2>3, TailAsks, Zenon
    <2>5. \A j \in Islands :
             /\ AsksOnce(forward[j].mail) => AsksOnce(forward'[j].mail)
             /\ \A c, k : Asks(forward'[j].mail, c, k) => Asks(forward[j].mail, c, k)
      BY <2>2, <2>3, <2>4
    <2>6. ASSUME NEW c \in Subscriber, NEW k \in Islands, Waits(c, k), Pending(c, k)'
          PROVE  Waits(c, k)'
      <3>1. CASE ForwardFrame(i)
        <4>1. \A d \in Decoders : /\ decoder'[d].state = decoder[d].state
                                  /\ decoder'[d].life = decoder[d].life
                                  /\ decoder'[d].isle = decoder[d].isle
          BY <3>1 DEF ForwardFrame, Types, DecoderType, ADecoder
        <4> QED
          BY <2>6, <4>1 DEF Waits, Self, Subscriber
      <3>2. CASE ForwardRemove(i)
        <4>1. decoder' = decoder
          BY <3>2 DEF ForwardRemove
        <4> QED
          BY <2>6, <4>1 DEF Waits, Self
      <3>3. CASE ForwardAdd(i)
        <4> PICK a, w, n : Adds(i, a, w, n)
          BY <3>3, AddFacts
        <4>1. PICK m \in Additions : m = Head(forward[i].mail)
          BY HeardFacts DEF Adds
        <4>2. /\ a = m.curl /\ a \in Subscriber /\ w = a.who
              /\ \E x \in Islands : m = AddCURL(a, x)
          BY <4>1, Messages DEF Adds
        <4>3. \E x \in Islands : Asks(forward[i].mail, a, x)
          BY <2>3, <2>4, <4>1, <4>2
        <4>4. Asks(forward[i].mail, a, i) /\ Waits(a, i) /\ ~ Asks(relay.mail, a, i)
          BY <4>2, <4>3 DEF AskInv
        <4>5. \A j \in Islands : Waits(a, j) => j = i
          BY <4>4 DEF Waits
        <4>6. c # a
          <5> SUFFICES ASSUME c = a PROVE FALSE
            OBVIOUS
          <5>1. k = i
            BY <2>6, <4>5
          <5>2. ~ Asks(forward'[i].mail, a, i)
            <6>1. AsksOnce(s)
              BY <2>3 DEF AskInv
            <6> QED
              BY <2>2, <2>3, <2>4, <4>1, <4>2, <6>1
          <5>3. \A j \in Islands \ {i} : ~ Asks(forward[j].mail, a, i)
            BY <4>2 DEF AskInv
          <5>4. ~ (relay.state = "wait" /\ relay.request.curl = a /\ relay.request.isle = i)
            BY <4>4 DEF AskInv
          <5> QED
            BY <1>1, <2>2, <2>6, <4>4, <5>1, <5>2, <5>3, <5>4 DEF Pending
        <4>7. c.who # a.who
          BY <2>6, <4>4, <4>6 DEF Waits
        <4>8. decoder'[c.who] = decoder[c.who]
          BY <4>2, <4>7 DEF Adds, Subscriber, Types, DecoderType
        <4> QED
          BY <2>6, <4>8 DEF Waits, Self
      <3> QED
        BY <1>3, <3>1, <3>2, <3>3
    <2> QED
      BY <1>1, <2>5, <2>6, AsksFewer
  <1> QED
    BY <1>2, <1>3 DEF ForwardStep

LEMMA AskInvDecoder ==
    ASSUME Types, RelayInv, AskInv, NEW d \in Decoders, Spawn(d) \/ DecoderStep(d)
    PROVE  AskInv'
  <1>1. \A e \in Decoders \ {d} : decoder'[e] = decoder[e]
    BY DEF Spawn, DecoderStep, Enter, Take, Read, Subscribe, GiveUp, Decode, Leave, Types,
           DecoderType
  <1>2. \A c \in Subscriber : \A i \in Islands : c.who # d /\ Waits(c, i) => Waits(c, i)'
    BY <1>1 DEF Waits, Self, Subscriber
  <1>3. CASE ~ Is(d, "subscribe") /\ ~ Subscribe(d)
    <2>1. \A c \in Subscriber : \A i \in Islands : Waits(c, i) => Waits(c, i)'
      BY <1>2, <1>3 DEF Waits, Is
    <2>2. relay' = relay
      BY <1>3 DEF Spawn, DecoderStep, Enter, Take, Read, GiveUp, Decode, Leave
    <2>3. \A j \in Islands :
             /\ AsksOnce(forward[j].mail) => AsksOnce(forward'[j].mail)
             /\ \A c, i : Asks(forward'[j].mail, c, i) => Asks(forward[j].mail, c, i)
      <3>1. CASE forward' = forward
        BY <3>1
      <3>2. CASE Leave(d)
        <4> SUFFICES ASSUME NEW j \in Islands
                     PROVE  /\ AsksOnce(forward[j].mail) => AsksOnce(forward'[j].mail)
                            /\ \A c, i : Asks(forward'[j].mail, c, i) => Asks(forward[j].mail, c, i)
          OBVIOUS
        <4>1. PICK m \in ForwardMail : m = RemoveCURL(decoder[d].ctrl)
          BY Messages DEF Types, DecoderType, ADecoder
        <4>2. PICK s \in Seq(ForwardMail) :
                 /\ s = forward[j].mail
                 /\ forward'[j].mail = s \/ forward'[j].mail = Append(s, m)
          BY <3>2, <4>1, SendFacts DEF Leave, Types
        <4>3. m.body # "AddCURL" /\ \A c, i : m # AddCURL(c, i)
          BY <4>1 DEF RemoveCURL, AddCURL
        <4>4. /\ \A c, i : Asks(Append(s, m), c, i) <=> Asks(s, c, i) \/ m = AddCURL(c, i)
              /\ AsksOnce(s) /\ m.body # "AddCURL" => AsksOnce(Append(s, m))
          BY AppendAsks
        <4> QED
          BY <4>2, <4>3, <4>4
      <3> QED
        BY <1>3, <3>1, <3>2 DEF Spawn, DecoderStep, Enter, Take, Read, GiveUp, Decode
    <2> QED
      BY <2>1, <2>2, <2>3, AsksFewer
  <1>4. CASE Is(d, "subscribe")
    <2>1. GiveUp(d) /\ relay' = relay /\ forward' = forward
      BY <1>4 DEF Spawn, DecoderStep, Enter, Take, Read, Subscribe, GiveUp, Decode, Leave, Finds, Is
    <2>2. /\ relay.state = "dead" /\ relay.mail = <<>>
          /\ \A i \in Islands : \A k \in 1 .. Len(forward[i].mail) :
                forward[i].mail[k] # AddCURL(Self(d), decoder[d].isle)
      BY <1>4, <2>1 DEF GiveUp, Unanswered, Is, RelayInv
    <2>3. ASSUME NEW c \in Subscriber, NEW i \in Islands, Waits(c, i), Pending(c, i)'
          PROVE  Waits(c, i)'
      <3>1. c.who # d
        <4> SUFFICES ASSUME c.who = d PROVE FALSE
          OBVIOUS
        <4>1. c = Self(d) /\ i = decoder[d].isle
          BY <2>3 DEF Waits
        <4>2. ~ Asks(relay.mail, c, i)
          BY <2>2 DEF Asks, Positions
        <4>3. \A j \in Islands : ~ Asks(forward[j].mail, c, i)
          BY <2>2, <4>1 DEF Asks, Positions
        <4> QED
          BY <2>1, <2>2, <2>3, <4>2, <4>3 DEF Pending
      <3> QED
        BY <1>2, <2>3, <3>1
    <2> QED
      BY <2>1, <2>3, AsksFewer
  <1>5. CASE Subscribe(d)
    <2>1. /\ decoder[d].state = "displayed" /\ forward' = forward
          /\ decoder'[d] = [decoder[d] EXCEPT !.state = "subscribe"]
          /\ decoder[d] \in ADecoder
      BY <1>5 DEF Subscribe, Is, Types, DecoderType
    <2>2. PICK c, i : c = Self(d) /\ i = decoder[d].isle
      OBVIOUS
    <2>3. c \in Subscriber /\ i \in Islands /\ c.who = d
      BY <2>1, <2>2 DEF Self, Subscriber, ADecoder
    <2>4. \A x \in Subscriber : \A j \in Islands : Waits(x, j) => x.who # d
      BY <2>1 DEF Waits
    <2>5. \A x \in Subscriber : \A j \in Islands : Waits(x, j) => Waits(x, j)'
      BY <1>2, <2>4
    <2>6. Waits(c, i)'
      BY <2>1, <2>2, <2>3 DEF Waits, Self, ADecoder
    <2>7. PICK m \in RelayMail : m = AddCURL(c, i) /\ m.curl = c /\ m.body = "AddCURL"
      <3>1. AddCURL(c, i) \in RelayMail
        BY <2>3, Messages DEF RelayMail
      <3>2. AddCURL(c, i).curl = c /\ AddCURL(c, i).body = "AddCURL"
        BY DEF AddCURL
      <3> QED
        BY <3>1, <3>2
    <2>8. relay.mail \in Seq(RelayMail)
      BY DEF Types, RelayType
    <2>9. CASE relay' = relay
      BY <2>1, <2>5, <2>9, AsksFewer
    <2>10. CASE relay' = [relay EXCEPT !.mail = Append(@, m)]
      <3>1. /\ relay'.mail = Append(relay.mail, m) /\ relay'.state = relay.state
            /\ relay'.request = relay.request
        BY <2>10 DEF Types, RelayType
      <3>2. PICK s \in Seq(RelayMail) : s = relay.mail
        BY <2>8
      <3>3. /\ \A x, j : Asks(Append(s, m), x, j) <=> Asks(s, x, j) \/ m = AddCURL(x, j)
            /\ AsksOnce(s) /\ (\A k \in Positions(s) : s[k].body = "AddCURL" => s[k].curl # m.curl)
                  => AsksOnce(Append(s, m))
        BY AppendAsks
      <3>4. \A j \in Islands : ~ Asks(s, c, j)
        BY <2>3, <2>4, <3>2 DEF AskInv
      <3>5. ASSUME NEW k \in Positions(s), s[k].body = "AddCURL"
            PROVE  s[k].curl # c
        <4>1. s[k] \in RelayMail
          BY DEF Positions
        <4>2. s[k] \in Additions
          BY <3>5, <4>1 DEF RelayMail, Frames
        <4>3. s[k] = AddCURL(s[k].curl, s[k].isle) /\ s[k].isle \in Islands
          BY <4>2, Messages
        <4> QED
          BY <3>4, <4>3 DEF Asks
      <3>6. AsksOnce(relay'.mail)
        BY <2>7, <3>1, <3>2, <3>3, <3>5 DEF AskInv
      <3>7. \A x, j : Asks(relay'.mail, x, j) => Asks(relay.mail, x, j) \/ (x = c /\ j = i)
        BY <2>7, <3>1, <3>2, <3>3 DEF AddCURL
      <3>8. ASSUME NEW x \in Subscriber, NEW j \in Islands, Asks(relay'.mail, x, j)
            PROVE  Waits(x, j)'
        BY <2>5, <2>6, <3>7, <3>8 DEF AskInv
      <3>9. ASSUME NEW x \in Subscriber, NEW j \in Islands, NEW k \in Islands,
                   Asks(forward'[k].mail, x, j)
            PROVE  j = k /\ Waits(x, j)' /\ ~ Asks(relay'.mail, x, j)
        <4>1. j = k /\ Waits(x, j) /\ ~ Asks(relay.mail, x, j)
          BY <2>1, <3>9 DEF AskInv
        <4>2. x # c
          BY <2>3, <2>4, <4>1
        <4> QED
          BY <2>5, <3>7, <4>1, <4>2
      <3>10. ASSUME relay'.state = "wait", NEW x, NEW j,
                    x = relay'.request.curl, j = relay'.request.isle
             PROVE  Waits(x, j)' /\ ~ Asks(relay'.mail, x, j) /\ ~ Asks(forward'[j].mail, x, j)
        <4>1. x \in Subscriber /\ j \in Islands
          BY <3>1, <3>10 DEF RelayInv, Additions
        <4>2. Waits(x, j) /\ ~ Asks(relay.mail, x, j) /\ ~ Asks(forward[j].mail, x, j)
          BY <3>1, <3>10 DEF AskInv
        <4>3. x # c
          BY <2>3, <2>4, <4>1, <4>2
        <4> QED
          BY <2>1, <2>5, <3>7, <4>1, <4>2, <4>3
      <3>11. \A j \in Islands : AsksOnce(forward'[j].mail)
        BY <2>1 DEF AskInv
      <3> QED
        BY <3>6, <3>8, <3>9, <3>10, <3>11 DEF AskInv
    <2>11. Publish(m)
      BY <1>5, <2>2, <2>7 DEF Subscribe
    <2>12. relay' = relay \/ relay' = [relay EXCEPT !.mail = Append(@, m)]
      BY <2>11 DEF Publish
    <2> QED
      BY <2>9, <2>10, <2>12
  <1> QED
    BY <1>3, <1>4, <1>5

\* Steps of the GUIs leave what the relays and the waiting decoders hold alone.
LEMMA GuiQuiet ==
    ASSUME Types, NEW g \in Guis, GuiStep(g) \/ UserStep(g)
    PROVE  /\ encoded' = encoded /\ relay' = relay /\ forward' = forward
           /\ \A d \in Decoders :
                 /\ decoder'[d].life = decoder[d].life /\ decoder'[d].isle = decoder[d].isle
                 /\ decoder'[d].ctrl = decoder[d].ctrl /\ decoder'[d].last = decoder[d].last
                 /\ Is(d, "loop") <=> decoder'[d].state = "loop"
                 /\ Is(d, "dead") <=> decoder'[d].state = "dead"
                 /\ Is(d, "subscribe") => decoder'[d].state = "subscribe"
                 /\ \/ decoder'[d].mail = decoder[d].mail
                    \/ \E m \in Orders : decoder'[d].mail = Append(decoder[d].mail, m)
  <1>1. encoded' = encoded /\ relay' = relay /\ forward' = forward
    BY DEF GuiStep, UserStep, Register, Post, Reset, Display, Clear, Dismiss
  <1>2. \A d \in Decoders : decoder[d] \in ADecoder
    BY DEF Types, DecoderType
  <1>3. CASE decoder' = decoder
    BY <1>1, <1>3 DEF Is
  <1>4. ASSUME NEW e \in Decoders, Display(g, e)
        PROVE  \A d \in Decoders :
                 /\ decoder'[d].life = decoder[d].life /\ decoder'[d].isle = decoder[d].isle
                 /\ decoder'[d].ctrl = decoder[d].ctrl /\ decoder'[d].last = decoder[d].last
                 /\ Is(d, "loop") <=> decoder'[d].state = "loop"
                 /\ Is(d, "dead") <=> decoder'[d].state = "dead"
                 /\ Is(d, "subscribe") => decoder'[d].state = "subscribe"
                 /\ decoder'[d].mail = decoder[d].mail
    BY <1>2, <1>4 DEF Display, Is, Types, DecoderType, ADecoder
  <1>5. ASSUME Reset(g), NEW d \in Decoders
        PROVE  /\ decoder'[d].life = decoder[d].life /\ decoder'[d].isle = decoder[d].isle
               /\ decoder'[d].ctrl = decoder[d].ctrl /\ decoder'[d].last = decoder[d].last
               /\ decoder'[d].state = decoder[d].state
               /\ \/ decoder'[d].mail = decoder[d].mail
                  \/ \E m \in Orders : decoder'[d].mail = Append(decoder[d].mail, m)
    <2>1. PICK m : m = IF gui[g].to = None THEN Quit ELSE QuitMV(gui[g].to)
      OBVIOUS
    <2>2. gui[g] \in AGui
      BY DEF Types, GuiType, Guis
    <2>3. m \in Orders
      BY <2>1, <2>2, Messages DEF AGui
    <2>4. \/ decoder'[d] = decoder[d]
          \/ decoder'[d] = [decoder[d] EXCEPT !.mail = Append(@, m)]
      BY <1>5, <2>1 DEF Reset
    <2> QED
      BY <1>2, <2>3, <2>4 DEF ADecoder
  <1>6. ASSUME NEW e \in Decoders, Dismiss(g, e), NEW d \in Decoders
        PROVE  /\ decoder'[d].life = decoder[d].life /\ decoder'[d].isle = decoder[d].isle
               /\ decoder'[d].ctrl = decoder[d].ctrl /\ decoder'[d].last = decoder[d].last
               /\ decoder'[d].state = decoder[d].state
               /\ \/ decoder'[d].mail = decoder[d].mail
                  \/ decoder'[d].mail = Append(decoder[d].mail, Quit)
    BY <1>2, <1>6 DEF Dismiss, Types, DecoderType, ADecoder
  <1>7. Quit \in Orders
    BY DEF Orders
  <1>8. \/ decoder' = decoder \/ Reset(g)
        \/ \E d \in Decoders : Display(g, d) \/ Dismiss(g, d)
    BY DEF GuiStep, UserStep, Register, Post, Clear
  <1> QED
    BY <1>1, <1>3, <1>4, <1>5, <1>6, <1>7, <1>8 DEF Is

LEMMA AskInvGui ==
    ASSUME Types, RelayInv, AskInv, NEW g \in Guis,
           GuiStep(g) \/ UserStep(g)
    PROVE  AskInv'
  <1>1. \A c \in Subscriber : \A i \in Islands : Waits(c, i) => Waits(c, i)'
    BY GuiQuiet DEF Waits, Self, Subscriber, Is
  <1> QED
    BY <1>1, GuiQuiet, AsksFewer

-----------------------------------------------------------------------------
(* The subscriptions.                                                       *)

\* A step that moves no decoder, subscribes none and ends none's subscription.
Unmoved ==
    \A d \in Decoders :
        /\ decoder'[d].life = decoder[d].life /\ decoder'[d].isle = decoder[d].isle
        /\ decoder'[d].ctrl = decoder[d].ctrl
        /\ Is(d, "loop") <=> decoder'[d].state = "loop"
        /\ Is(d, "dead") => decoder'[d].state = "dead"

LEMMA HoldStill ==
    ASSUME HoldInv, Unmoved, ForwardType, DecoderType,
           \A i \in Islands :
              /\ forward'[i].curls = forward[i].curls /\ forward'[i].ids = forward[i].ids
              /\ \A n : Removes(forward'[i].mail, n) => Removes(forward[i].mail, n)
    PROVE  HoldInv'
  <1>1. \A i \in Islands : forward[i].curls \subseteq Subscription
    BY DEF ForwardType, ForwardRelay
  <1>2. \A d \in Decoders : Self(d)' = Self(d)
    BY DEF Unmoved, Self
  <1>3. \A i \in Islands : \A s \in forward'[i].curls :
           /\ s \in forward[i].curls /\ s.curl.who \in Decoders
           /\ Self(s.curl.who)' = Self(s.curl.who)
    BY <1>1, <1>2 DEF Subscription, Subscriber
  <1>4. ASSUME NEW i \in Islands, NEW s \in forward'[i].curls
        PROVE  /\ s.id <= forward'[i].ids
               /\ s.curl.life <= decoder'[s.curl.who].life
               /\ s.curl = Self(s.curl.who)' =>
                     \/ decoder'[s.curl.who].state = "dead"
                     \/ /\ decoder'[s.curl.who].state = "loop"
                        /\ decoder'[s.curl.who].isle = i /\ decoder'[s.curl.who].ctrl = s.id
               /\ \A t \in forward'[i].curls : s.id = t.id => s = t
    BY <1>3 DEF HoldInv, Unmoved, Is
  <1>5. ASSUME NEW d \in Decoders, Is(d, "loop")'
        PROVE  [id |-> decoder'[d].ctrl, curl |-> Self(d)'] \in forward'[decoder'[d].isle].curls
    <2>1. [id |-> decoder[d].ctrl, curl |-> Self(d)] \in forward[decoder[d].isle].curls
      BY <1>5 DEF HoldInv, Unmoved, Is
    <2>2. /\ decoder'[d].ctrl = decoder[d].ctrl /\ decoder'[d].isle = decoder[d].isle
          /\ Self(d)' = Self(d)
      BY <1>2 DEF Unmoved
    <2>3. decoder[d].isle \in Islands
      BY DEF DecoderType, ADecoder
    <2> QED
      BY <2>1, <2>2, <2>3
  <1>6. ASSUME NEW i \in Islands, NEW n \in Nat, Removes(forward'[i].mail, n)
        PROVE  /\ n <= forward'[i].ids
               /\ \A d \in Decoders : Is(d, "loop")' /\ decoder'[d].isle = i => decoder'[d].ctrl # n
    BY <1>6 DEF HoldInv, Unmoved, Is
  <1> QED
    BY <1>4, <1>5, <1>6 DEF HoldInv

LEMMA HoldInvRelay ==
    ASSUME Types, RelayInv, HoldInv, Encode \/ RelayStep \/ DeployFails
    PROVE  HoldInv'
  <1>1. decoder' = decoder
    BY DEF Encode, RelayStep, RelayFrame, RelayAdd, DeployForward, Deployed, DeployFails
  <1>2. Unmoved
    BY <1>1 DEF Unmoved, Is
  <1>3. CASE RelayFrame \/ RelayAdd \/ Deployed
    <2>1. PICK S, m : SendForward(S, m) /\ m \in RelayMail
      <3>1. CASE RelayFrame
        BY <3>1, ReceivedFacts DEF RelayFrame
      <3>2. CASE RelayAdd
        BY <3>2, ReceivedFacts DEF RelayAdd
      <3>3. CASE Deployed
        BY <3>3 DEF Deployed, RelayInv, RelayMail
      <3> QED
        BY <1>3, <3>1, <3>2, <3>3
    <2>2. m \in ForwardMail /\ \A n : m # RemoveCURL(n)
      BY <2>1, Messages DEF RelayMail, Frames, Additions, RemoveCURL
    <2>3. ASSUME NEW i \in Islands
          PROVE  /\ forward'[i].curls = forward[i].curls /\ forward'[i].ids = forward[i].ids
                 /\ \A n : Removes(forward'[i].mail, n) => Removes(forward[i].mail, n)
      <3>1. PICK s \in Seq(ForwardMail) :
               /\ s = forward[i].mail
               /\ forward'[i].mail = s \/ forward'[i].mail = Append(s, m)
               /\ forward'[i].curls = forward[i].curls /\ forward'[i].ids = forward[i].ids
        BY <2>1, <2>2, SendFacts DEF Types
      <3>2. \A n : Removes(Append(s, m), n) <=> Removes(s, n) \/ m = RemoveCURL(n)
        BY <2>2, AppendAsks
      <3> QED
        BY <2>2, <3>1, <3>2
    <2> QED
      BY <1>2, <2>3, HoldStill DEF Types
  <1>4. CASE Encode \/ DeployForward \/ DeployFails
    <2>1. \A i \in Islands : /\ forward'[i].curls = forward[i].curls
                             /\ forward'[i].ids = forward[i].ids
                             /\ forward'[i].mail = forward[i].mail
      <3>1. CASE Encode \/ DeployFails
        BY <3>1 DEF Encode, DeployFails
      <3>2. CASE DeployForward
        <4>1. PICK k : forward' = [forward EXCEPT ![k].state = "spawn"]
          BY <3>2 DEF DeployForward
        <4> QED
          BY <4>1 DEF Types, ForwardType, ForwardRelay
      <3> QED
        BY <1>4, <3>1, <3>2
    <2> QED
      BY <1>2, <2>1, HoldStill DEF Types
  <1> QED
    BY <1>3, <1>4 DEF RelayStep

LEMMA HoldInvGui ==
    ASSUME Types, HoldInv, NEW g \in Guis,
           GuiStep(g) \/ UserStep(g)
    PROVE  HoldInv'
  <1>1. Unmoved
    BY GuiQuiet DEF Unmoved
  <1>2. forward' = forward
    BY GuiQuiet
  <1> QED
    BY <1>1, <1>2, HoldStill DEF Types

LEMMA HoldInvForward ==
    ASSUME Types, RelayInv, AskInv, HoldInv, NEW i \in Islands, ForwardStep(i)
    PROVE  HoldInv'
  <1>1. \A j \in Islands : forward[j] \in ForwardRelay
    BY DEF Types, ForwardType
  <1>2. \A d \in Decoders : decoder[d] \in ADecoder
    BY DEF Types, DecoderType
  <1>3. CASE Spawned(i)
    <2>1. Unmoved
      BY <1>3 DEF Spawned, Unmoved, Is
    <2>2. \A j \in Islands : /\ forward'[j].curls = forward[j].curls
                             /\ forward'[j].ids = forward[j].ids
                             /\ forward'[j].mail = forward[j].mail
      BY <1>3 DEF Spawned, Types, ForwardType, ForwardRelay
    <2> QED
      BY <2>1, <2>2, HoldStill DEF Types
  <1>4. CASE ForwardFrame(i) \/ ForwardAdd(i) \/ ForwardRemove(i)
    <2>1. PICK s \in Seq(ForwardMail) : s = forward[i].mail /\ s # <<>>
      BY <1>4, TakenFacts, HeardFacts
    <2>2. /\ forward'[i].mail = Tail(s)
          /\ \A j \in Islands \ {i} : forward'[j] = forward[j]
      BY <1>4, <2>1, TakenFacts
    <2>3. /\ \A n : Removes(Tail(s), n) => Removes(s, n)
          /\ \A n : Head(s) = RemoveCURL(n) => Removes(s, n)
          /\ \A c, k : Head(s) = AddCURL(c, k) => Asks(s, c, k)
      BY <2>1, TailAsks, Zenon
    <2>4. \A j \in Islands : \A n : Removes(forward'[j].mail, n) => Removes(forward[j].mail, n)
      BY <2>1, <2>2, <2>3
    <2>5. CASE ForwardFrame(i)
      <3>1. Unmoved
        <4>1. \A d \in Decoders : \E q : decoder'[d] = [decoder[d] EXCEPT !.mail = @ \o q]
          BY <2>5 DEF ForwardFrame
        <4> QED
          BY <1>2, <4>1 DEF Unmoved, Is, ADecoder
      <3>2. forward'[i].curls = forward[i].curls /\ forward'[i].ids = forward[i].ids
        BY <1>1, <2>5 DEF ForwardFrame, Types, ForwardType, ForwardRelay
      <3> QED
        BY <2>2, <2>4, <3>1, <3>2, HoldStill DEF Types
    <2>6. CASE ForwardRemove(i)
      <3>1. PICK m \in Removals : m = Head(s)
        BY <2>1, <2>6, HeardFacts DEF ForwardRemove
      <3>2. PICK n \in Nat : m = RemoveCURL(n) /\ n = m.id
        BY <3>1, Messages
      <3>3. /\ decoder' = decoder /\ forward'[i].ids = forward[i].ids
            /\ forward'[i].curls = {t \in forward[i].curls : t.id # n}
        BY <2>1, <2>6, <3>1, <3>2 DEF ForwardRemove, Types, ForwardType, ForwardRelay
      <3>4. \A d \in Decoders : Is(d, "loop") /\ decoder[d].isle = i => decoder[d].ctrl # n
        BY <2>1, <2>3, <3>1, <3>2 DEF HoldInv
      <3>5. /\ \A d \in Decoders : Self(d)' = Self(d)
            /\ \A d, x : Is(d, x)' <=> Is(d, x)
            /\ \A t \in forward[i].curls : Self(t.curl.who)' = Self(t.curl.who)
        BY <3>3 DEF Self, Is
      <3>6. \A j \in Islands : /\ forward'[j].curls \subseteq forward[j].curls
                               /\ forward'[j].ids = forward[j].ids
        BY <2>2, <3>3
      <3>7. ASSUME NEW j \in Islands, NEW t \in forward'[j].curls
            PROVE  /\ t.id <= forward'[j].ids
                   /\ t.curl.life <= decoder'[t.curl.who].life
                   /\ t.curl = Self(t.curl.who)' =>
                         \/ decoder'[t.curl.who].state = "dead"
                         \/ /\ decoder'[t.curl.who].state = "loop"
                            /\ decoder'[t.curl.who].isle = j /\ decoder'[t.curl.who].ctrl = t.id
                   /\ \A u \in forward'[j].curls : t.id = u.id => t = u
        <4>1. Self(t.curl.who)' = Self(t.curl.who)
          BY <3>3 DEF Self
        <4> QED
          BY <3>3, <3>6, <4>1 DEF HoldInv
      <3>8. ASSUME NEW d \in Decoders, Is(d, "loop")'
            PROVE  [id |-> decoder'[d].ctrl, curl |-> Self(d)'] \in forward'[decoder'[d].isle].curls
        <4>1. PICK t : t = [id |-> decoder[d].ctrl, curl |-> Self(d)]
          OBVIOUS
        <4>2. t \in forward[decoder[d].isle].curls /\ t.id = decoder[d].ctrl
          BY <3>5, <3>8, <4>1 DEF HoldInv
        <4>3. t \in forward'[decoder[d].isle].curls
          <5>1. CASE decoder[d].isle = i
            BY <3>3, <3>4, <3>5, <3>8, <4>2, <5>1
          <5>2. CASE decoder[d].isle # i
            BY <1>2, <2>2, <4>2, <5>2 DEF ADecoder
          <5> QED
            BY <5>1, <5>2
        <4> QED
          BY <3>3, <3>5, <4>1, <4>3
      <3>9. ASSUME NEW j \in Islands, NEW k \in Nat, Removes(forward'[j].mail, k)
            PROVE  /\ k <= forward'[j].ids
                   /\ \A d \in Decoders :
                         Is(d, "loop")' /\ decoder'[d].isle = j => decoder'[d].ctrl # k
        <4>1. Removes(forward[j].mail, k)
          BY <2>4, <3>9
        <4> QED
          BY <3>3, <3>5, <3>6, <4>1 DEF HoldInv
      <3> QED
        BY <3>7, <3>8, <3>9 DEF HoldInv
    <2>7. CASE ForwardAdd(i)
      <3>1. \A j \in Islands : \A n \in Nat : Removes(forward[j].mail, n) =>
               /\ n <= forward[j].ids
               /\ \A d \in Decoders : Is(d, "loop") /\ decoder[d].isle = j => decoder[d].ctrl # n
        BY DEF HoldInv
      <3> PICK c, v, y : Adds(i, c, v, y)
        BY <2>7, AddFacts
      <3>2. PICK m \in Additions : m = Head(s)
        BY <2>1, HeardFacts DEF Adds
      <3>3. PICK a, b : m = AddCURL(a, b) /\ a = m.curl /\ a \in Subscriber /\ b \in Islands
        BY <3>2, Messages
      <3>4. Waits(a, i)
        BY <2>1, <2>3, <3>2, <3>3 DEF AskInv
      <3>5. PICK w, k, new : /\ w = a.who /\ k = forward[i].ids + 1
                             /\ new = [id |-> k, curl |-> a]
        OBVIOUS
      <3>6. /\ w \in Decoders /\ decoder[w].state = "subscribe" /\ Self(w) = a
            /\ decoder[w].isle = i /\ k \in Nat /\ forward[i].ids \in Nat
        BY <1>1, <3>3, <3>4, <3>5 DEF Waits, Subscriber, ForwardRelay
      <3>7. /\ forward'[i].curls = forward[i].curls \cup {new} /\ forward'[i].ids = k
            /\ decoder' = [decoder EXCEPT ![w] = [decoder[w] EXCEPT !.state = "loop",
                                                                 !.ctrl = k]]
        <4>1. Head(forward[i].mail).curl = a
          BY <2>1, <3>2, <3>3
        <4>2. Adds(i, a, w, k)
          <5>1. c = a /\ v = w /\ y = k
            BY <3>5, <4>1 DEF Adds
          <5> QED
            BY <5>1
        <4>3. Expected(a, w)
          BY <3>6 DEF Expected
        <4>4. /\ forward' = [forward EXCEPT ![i] = [forward[i] EXCEPT
                               !.mail = Tail(@), !.ids = k, !.curls = @ \cup {new}]]
              /\ decoder' = [decoder EXCEPT ![w] = [decoder[w] EXCEPT !.state = "loop",
                                                                   !.ctrl = k]]
          BY <3>5, <4>2, <4>3 DEF Adds
        <4> QED
          BY <4>4 DEF Types, ForwardType, ForwardRelay
      <3>8. /\ \A d \in Decoders \ {w} : decoder'[d] = decoder[d]
            /\ decoder'[w].state = "loop" /\ decoder'[w].ctrl = k
            /\ decoder'[w].isle = i /\ decoder'[w].life = decoder[w].life
        BY <1>2, <3>6, <3>7 DEF ADecoder, Types, DecoderType
      <3>9. \A d \in Decoders : Self(d)' = Self(d)
        BY <3>8 DEF Self
      <3>10. \A j \in Islands : \A t \in forward[j].curls : /\ t.curl.who \in Decoders
                                                         /\ t.id \in Nat
        BY <1>1 DEF ForwardRelay, Subscription, Subscriber
      <3>11. new.id = k /\ new.curl = a
        BY <3>5
      <3>12. \A j \in Islands : \A t \in forward[j].curls : t.curl # a
        BY <3>5, <3>6 DEF HoldInv
      <3>13. \A t \in forward[i].curls : t.id <= forward[i].ids /\ t.id < k
        BY <3>5, <3>6, <3>10 DEF HoldInv
      <3>14. ASSUME NEW j \in Islands, NEW t \in forward[j].curls
             PROVE  /\ t.id <= forward'[j].ids
                    /\ t.curl.life <= decoder'[t.curl.who].life
                    /\ t.curl = Self(t.curl.who)' =>
                          \/ decoder'[t.curl.who].state = "dead"
                          \/ /\ decoder'[t.curl.who].state = "loop"
                             /\ decoder'[t.curl.who].isle = j /\ decoder'[t.curl.who].ctrl = t.id
                    /\ \A u \in forward'[j].curls : t.id = u.id => t = u
        <4>1. t.id <= forward'[j].ids
          <5>1. CASE j = i
            BY <3>5, <3>6, <3>7, <3>10, <3>13, <5>1
          <5>2. CASE j # i
            BY <2>2, <5>2 DEF HoldInv
          <5> QED
            BY <5>1, <5>2
        <4>2. t.curl.life <= decoder'[t.curl.who].life
          BY <3>8, <3>10 DEF HoldInv
        <4>3. ASSUME t.curl = Self(t.curl.who)'
              PROVE  \/ decoder'[t.curl.who].state = "dead"
                     \/ /\ decoder'[t.curl.who].state = "loop"
                        /\ decoder'[t.curl.who].isle = j /\ decoder'[t.curl.who].ctrl = t.id
          <5>1. t.curl = Self(t.curl.who) /\ t.curl.who # w
            BY <3>6, <3>9, <3>10, <3>12, <4>3
          <5> QED
            BY <3>8, <3>10, <5>1 DEF HoldInv
        <4>4. \A u \in forward'[j].curls : t.id = u.id => t = u
          <5>1. CASE j = i
            BY <3>7, <3>10, <3>11, <3>13, <5>1 DEF HoldInv
          <5>2. CASE j # i
            BY <2>2, <5>2 DEF HoldInv
          <5> QED
            BY <5>1, <5>2
        <4> QED
          BY <4>1, <4>2, <4>3, <4>4
      <3>15. /\ new.id <= forward'[i].ids
             /\ new.curl.life <= decoder'[new.curl.who].life
             /\ decoder'[new.curl.who].state = "loop"
             /\ decoder'[new.curl.who].isle = i /\ decoder'[new.curl.who].ctrl = new.id
             /\ \A u \in forward'[i].curls : new.id = u.id => new = u
        <4>1. a.life = decoder[w].life /\ decoder[w].life \in Nat
          BY <1>2, <3>6 DEF Self, ADecoder
        <4> QED
          BY <3>5, <3>6, <3>7, <3>8, <3>10, <3>11, <3>13, <4>1
      <3>16. ASSUME NEW j \in Islands, NEW t \in forward'[j].curls
             PROVE  /\ t.id <= forward'[j].ids
                    /\ t.curl.life <= decoder'[t.curl.who].life
                    /\ t.curl = Self(t.curl.who)' =>
                          \/ decoder'[t.curl.who].state = "dead"
                          \/ /\ decoder'[t.curl.who].state = "loop"
                             /\ decoder'[t.curl.who].isle = j /\ decoder'[t.curl.who].ctrl = t.id
                    /\ \A u \in forward'[j].curls : t.id = u.id => t = u
        <4>1. CASE t \in forward[j].curls
          BY <3>14, <4>1
        <4>2. CASE t \notin forward[j].curls
          <5>1. j = i /\ t = new
            BY <2>2, <3>7, <4>2
          <5> QED
            BY <3>15, <5>1
        <4> QED
          BY <4>1, <4>2
      <3>17. ASSUME NEW d \in Decoders, Is(d, "loop")'
             PROVE  [id |-> decoder'[d].ctrl, curl |-> Self(d)'] \in forward'[decoder'[d].isle].curls
        <4>1. CASE d = w
          BY <3>5, <3>6, <3>7, <3>8, <3>9, <4>1
        <4>2. CASE d # w
          <5>1. Is(d, "loop") /\ decoder'[d] = decoder[d] /\ decoder[d].isle \in Islands
            BY <1>2, <3>8, <3>17, <4>2 DEF Is, ADecoder
          <5>2. [id |-> decoder[d].ctrl, curl |-> Self(d)] \in forward[decoder[d].isle].curls
            BY <5>1 DEF HoldInv
          <5>3. forward[decoder[d].isle].curls \subseteq forward'[decoder[d].isle].curls
            BY <2>2, <3>7, <5>1
          <5> QED
            BY <3>9, <5>1, <5>2, <5>3
        <4> QED
          BY <4>1, <4>2
      <3>18. ASSUME NEW j \in Islands, NEW n \in Nat, Removes(forward'[j].mail, n)
             PROVE  /\ n <= forward'[j].ids
                    /\ \A d \in Decoders :
                          Is(d, "loop")' /\ decoder'[d].isle = j => decoder'[d].ctrl # n
        <4>1. /\ n <= forward[j].ids
              /\ \A d \in Decoders : Is(d, "loop") /\ decoder[d].isle = j => decoder[d].ctrl # n
          <5>1. Removes(forward[j].mail, n)
            BY <2>4, <3>18
          <5> QED
            BY <3>1, <5>1, Zenon
        <4>2. n <= forward'[j].ids
          <5>1. CASE j = i
            <6>1. \A x \in Nat : n <= x => n <= x + 1
              OBVIOUS
            <6> QED
              BY <3>5, <3>6, <3>7, <4>1, <5>1, <6>1
          <5>2. CASE j # i
            BY <2>2, <4>1, <5>2
          <5> QED
            BY <5>1, <5>2
        <4>3. ASSUME NEW d \in Decoders, Is(d, "loop")', decoder'[d].isle = j
              PROVE  decoder'[d].ctrl # n
          <5>1. CASE d = w
            BY <3>5, <3>6, <3>8, <4>1, <4>3, <5>1
          <5>2. CASE d # w
            BY <3>8, <4>1, <4>3, <5>2 DEF Is
          <5> QED
            BY <5>1, <5>2
        <4> QED
          BY <4>2, <4>3
      <3> QED
        BY <3>16, <3>17, <3>18 DEF HoldInv
    <2> QED
      BY <1>4, <2>5, <2>6, <2>7
  <1> QED
    BY <1>3, <1>4 DEF ForwardStep

LEMMA HoldInvDecoder ==
    ASSUME Types, RelayInv, HoldInv, NEW d \in Decoders, Spawn(d) \/ DecoderStep(d)
    PROVE  HoldInv'
  <1>1. \A e \in Decoders : decoder[e] \in ADecoder
    BY DEF Types, DecoderType
  <1>2. \A e \in Decoders \ {d} : decoder'[e] = decoder[e]
    BY DEF Spawn, DecoderStep, Enter, Take, Read, Subscribe, GiveUp, Decode, Leave, Types,
           DecoderType
  <1>3. CASE ~ Leave(d)
    <2>1. forward' = forward
      BY <1>3 DEF Spawn, DecoderStep, Enter, Take, Read, Subscribe, GiveUp, Decode
    <2>2. /\ decoder'[d].life = decoder[d].life /\ decoder'[d].isle = decoder[d].isle
          /\ decoder'[d].ctrl = decoder[d].ctrl
          /\ Is(d, "loop") <=> decoder'[d].state = "loop"
          /\ Is(d, "dead") => decoder'[d].state = "dead"
      <3>1. CASE Spawn(d) \/ Enter(d) \/ Take(d) \/ Read(d) \/ Subscribe(d) \/ Decode(d)
        BY <1>1, <3>1 DEF Spawn, Enter, Take, Read, Subscribe, Decode, Finds, Is, Types,
                          DecoderType, ADecoder
      <3>2. CASE GiveUp(d)
        BY <1>1, <3>2 DEF GiveUp, Unanswered, Is, Types, DecoderType, ADecoder
      <3> QED
        BY <1>3, <3>1, <3>2 DEF DecoderStep
    <2>3. Unmoved
      BY <1>2, <2>2 DEF Unmoved, Is
    <2> QED
      BY <2>1, <2>3, HoldStill DEF Types
  <1>4. CASE Leave(d)
    <2>1. PICK i, k, m : i = decoder[d].isle /\ k = decoder[d].ctrl /\ m = RemoveCURL(k)
      OBVIOUS
    <2>2. /\ i \in Islands /\ k \in Nat /\ m \in ForwardMail /\ Is(d, "loop")
          /\ SendForward({i}, m)
      BY <1>1, <1>4, <2>1, Messages DEF ADecoder, Leave, Finds
    <2>3. \/ decoder'[d].state = "dead"
          \/ decoder'[d].state = "start" /\ decoder'[d].life = decoder[d].life + 1
      BY <1>4 DEF Leave, NewDecoder, Types, DecoderType, ADecoder
    <2>4. decoder[d].life \in Nat /\ decoder[d].life <= decoder'[d].life
      BY <1>1, <1>4 DEF Leave, NewDecoder, Types, DecoderType, ADecoder
    <2>5. decoder'[d].life = decoder[d].life \/ decoder'[d].life = decoder[d].life + 1
      BY <1>4 DEF Leave, NewDecoder, Types, DecoderType, ADecoder
    <2>6. \A e \in Decoders \ {d} : Self(e)' = Self(e)
      BY <1>2 DEF Self
    <2>7. \A j \in Islands : forward'[j].curls = forward[j].curls /\ forward'[j].ids = forward[j].ids
      BY <2>2, SendFacts DEF Types
    <2>8. \A j \in Islands : \A n :
             Removes(forward'[j].mail, n) => Removes(forward[j].mail, n) \/ (j = i /\ n = k)
      <3> SUFFICES ASSUME NEW j \in Islands, NEW n, Removes(forward'[j].mail, n)
                   PROVE  Removes(forward[j].mail, n) \/ (j = i /\ n = k)
        OBVIOUS
      <3>1. PICK s \in Seq(ForwardMail) :
               /\ s = forward[j].mail
               /\ forward'[j].mail = s \/ (j = i /\ forward'[j].mail = Append(s, m))
        BY <2>2, SendFacts DEF Types
      <3>2. Removes(Append(s, m), n) <=> Removes(s, n) \/ m = RemoveCURL(n)
        BY <2>2, AppendAsks
      <3>3. m = RemoveCURL(n) => n = k
        BY <2>1 DEF RemoveCURL
      <3> QED
        BY <3>1, <3>2, <3>3
    <2>9. \A j \in Islands : \A t \in forward[j].curls :
             /\ t.curl.who \in Decoders /\ t.curl.life \in Nat /\ t.id \in Nat
      BY DEF Types, ForwardType, ForwardRelay, Subscription, Subscriber
    <2>10. PICK own : /\ own = [id |-> k, curl |-> Self(d)] /\ own \in forward[i].curls
                     /\ own.id = k /\ own.curl = Self(d)
      <3>1. [id |-> decoder[d].ctrl, curl |-> Self(d)] \in forward[decoder[d].isle].curls
        BY <2>2 DEF HoldInv
      <3> QED
        BY <2>1, <3>1
    <2>11. ASSUME NEW j \in Islands, NEW t \in forward'[j].curls
           PROVE  /\ t.id <= forward'[j].ids
                  /\ t.curl.life <= decoder'[t.curl.who].life
                  /\ t.curl = Self(t.curl.who)' =>
                        \/ decoder'[t.curl.who].state = "dead"
                        \/ /\ decoder'[t.curl.who].state = "loop"
                           /\ decoder'[t.curl.who].isle = j /\ decoder'[t.curl.who].ctrl = t.id
                  /\ \A u \in forward'[j].curls : t.id = u.id => t = u
      <3>1. /\ t \in forward[j].curls /\ t.id <= forward[j].ids
            /\ t.curl.life <= decoder[t.curl.who].life
            /\ \A u \in forward[j].curls : t.id = u.id => t = u
        BY <2>7 DEF HoldInv
      <3>2. CASE t.curl.who = d
        <4>1. t.curl.life <= decoder'[d].life
          <5>1. \A x, y \in Nat : x <= y /\ (decoder'[d].life = y \/ decoder'[d].life = y + 1)
                                 => x <= decoder'[d].life
            OBVIOUS
          <5> QED
            BY <2>4, <2>9, <2>5, <3>1, <3>2, <5>1
        <4>2. t.curl = Self(d)' => decoder'[d].state = "dead"
          <5> SUFFICES ASSUME t.curl = Self(d)', decoder'[d].life = decoder[d].life + 1
                       PROVE  FALSE
            BY <2>3
          <5>1. t.curl.life = decoder'[d].life
            BY DEF Self
          <5> QED
            BY <2>4, <2>9, <3>1, <3>2, <5>1
        <4> QED
          BY <2>7, <3>1, <3>2, <4>1, <4>2
      <3>3. CASE t.curl.who # d
        <4>1. decoder'[t.curl.who] = decoder[t.curl.who] /\ Self(t.curl.who)' = Self(t.curl.who)
          BY <1>2, <2>6, <2>9, <3>1, <3>3
        <4>2. t.curl = Self(t.curl.who) =>
                 \/ decoder[t.curl.who].state = "dead"
                 \/ /\ decoder[t.curl.who].state = "loop"
                    /\ decoder[t.curl.who].isle = j /\ decoder[t.curl.who].ctrl = t.id
          BY <3>1 DEF HoldInv
        <4> QED
          BY <2>7, <3>1, <4>1, <4>2
      <3> QED
        BY <3>2, <3>3
    <2>12. ASSUME NEW e \in Decoders, Is(e, "loop")'
           PROVE  e # d /\ Is(e, "loop") /\ decoder'[e] = decoder[e]
      <3>1. decoder'[e].state = "loop"
        BY <2>12 DEF Is
      <3>2. e # d
        BY <2>3, <3>1
      <3> QED
        BY <1>2, <3>1, <3>2 DEF Is
    <2>13. ASSUME NEW e \in Decoders, Is(e, "loop")'
           PROVE  [id |-> decoder'[e].ctrl, curl |-> Self(e)'] \in forward'[decoder'[e].isle].curls
      <3>1. [id |-> decoder[e].ctrl, curl |-> Self(e)] \in forward[decoder[e].isle].curls
        BY <2>12, <2>13 DEF HoldInv
      <3>2. decoder[e].isle \in Islands
        BY <1>1 DEF ADecoder
      <3> QED
        BY <2>6, <2>7, <2>12, <2>13, <3>1, <3>2
    <2>14. ASSUME NEW j \in Islands, NEW n \in Nat, Removes(forward'[j].mail, n)
           PROVE  /\ n <= forward'[j].ids
                  /\ \A e \in Decoders :
                        Is(e, "loop")' /\ decoder'[e].isle = j => decoder'[e].ctrl # n
      <3>1. CASE Removes(forward[j].mail, n)
        BY <2>7, <2>12, <3>1 DEF HoldInv
      <3>2. CASE j = i /\ n = k
        <4>1. n <= forward'[j].ids
          <5>1. own.id <= forward[i].ids
            BY <2>2, <2>10 DEF HoldInv
          <5> QED
            BY <2>2, <2>7, <2>10, <3>2, <5>1
        <4>2. ASSUME NEW e \in Decoders, Is(e, "loop")', decoder'[e].isle = j, decoder'[e].ctrl = n
              PROVE  FALSE
          <5>1. e # d /\ Is(e, "loop") /\ decoder[e].isle = i /\ decoder[e].ctrl = k
            BY <2>12, <3>2, <4>2
          <5>2. [id |-> k, curl |-> Self(e)] \in forward[i].curls
            BY <5>1 DEF HoldInv
          <5>3. [id |-> k, curl |-> Self(e)] = own
            BY <2>2, <2>10, <5>2 DEF HoldInv
          <5>4. Self(e) = Self(d)
            BY <2>10, <5>3
          <5> QED
            BY <5>1, <5>4 DEF Self
        <4> QED
          BY <4>1, <4>2
      <3> QED
        BY <2>8, <2>14, <3>1, <3>2
    <2> QED
      BY <2>11, <2>13, <2>14 DEF HoldInv
  <1> QED
    BY <1>3, <1>4

-----------------------------------------------------------------------------
(* The frames.                                                              *)

\* Messages other than frames are put or taken, and no decoder is subscribed.
LEMMA StreamStill ==
    ASSUME Types, StreamInv, SilentInv', encoded' = encoded, relay'.relays = relay.relays,
           relay'.state # "dead" =>
              /\ relay.state # "dead"
              /\ \A l, e : Stream(relay.mail, l, e) => Stream(relay'.mail, l, e),
           \A i \in Islands : \A l, e :
              Stream(forward[i].mail, l, e) => Stream(forward'[i].mail, l, e),
           \A d \in Decoders : decoder'[d].state = "loop" =>
              /\ Is(d, "loop") /\ decoder'[d].isle = decoder[d].isle
              /\ decoder'[d].last = decoder[d].last
              /\ \A l, e : Stream(decoder[d].mail, l, e) => Stream(decoder'[d].mail, l, e)
    PROVE  StreamInv'
  <1>1. PICK r \in Nat, f \in [Islands -> Nat], l \in [Decoders -> Nat] : Streams(r, f, l)
    BY DEF StreamInv
  <1>2. RelayStream(r)'
    BY <1>1 DEF Streams, RelayStream
  <1>3. relay.relays \subseteq Islands
    BY DEF Types, RelayType
  <1>4. ForwardStream(r, f)'
    BY <1>1, <1>3 DEF Streams, ForwardStream
  <1>5. DecoderStream(f, l)'
    BY <1>1 DEF Streams, DecoderStream, Is
  <1> QED
    BY <1>2, <1>4, <1>5 DEF StreamInv, Streams

LEMMA StreamInvRelay ==
    ASSUME Types, RelayInv, HoldInv, StreamInv, Encode \/ RelayStep \/ DeployFails
    PROVE  StreamInv'
  <1>1. /\ decoder' = decoder /\ relay.mail \in Seq(RelayMail) /\ relay.relays \subseteq Islands
        /\ \A i \in Islands : forward[i].mail \in Seq(ForwardMail)
    BY DEF Encode, RelayStep, RelayFrame, RelayAdd, DeployForward, Deployed, DeployFails, Types,
           RelayType, ForwardType, ForwardRelay
  <1>2. SilentInv'
    BY <1>1 DEF StreamInv, SilentInv, Is
  <1>3. \A d \in Decoders : decoder'[d].state = "loop" =>
           /\ Is(d, "loop") /\ decoder'[d].isle = decoder[d].isle
           /\ decoder'[d].last = decoder[d].last
           /\ \A l, e : Stream(decoder[d].mail, l, e) => Stream(decoder'[d].mail, l, e)
    BY <1>1 DEF Is
  <1>4. \A f, l : DecoderStream(f, l) => DecoderStream(f, l)'
    BY <1>1 DEF DecoderStream, Is
  <1>5. PICK r \in Nat, f \in [Islands -> Nat], l \in [Decoders -> Nat] : Streams(r, f, l)
    BY DEF StreamInv
  <1>6. CASE Encode
    <2>1. PICK e, m : e = encoded /\ m = Frame(e + 1) /\ e \in Nat /\ e + 1 \in 1 .. MaxFrames
      BY <1>6, CoastcastAssumption DEF Encode, Types
    <2>2. m \in RelayMail /\ IsFrame(m) /\ m.n = e + 1
      BY <2>1, Messages DEF RelayMail
    <2>3. encoded' = e + 1 /\ Publish(m) /\ forward' = forward
      BY <1>6, <2>1 DEF Encode
    <2>4. RelayStream(r)'
      <3>1. CASE relay.state = "dead"
        BY <2>3, <3>1 DEF RelayStream, Publish
      <3>2. CASE relay.state # "dead"
        <4>1. relay'.mail = Append(relay.mail, m)
          BY <2>3, <3>2 DEF Publish, Types, RelayType
        <4>2. PICK s \in Seq(RelayMail) : s = relay.mail /\ Stream(s, r, e)
          BY <1>1, <1>5, <2>1, <3>2 DEF Streams, RelayStream
        <4>3. Stream(Append(s, m), r, e + 1)
          BY <2>1, <2>2, <4>2, AppendFrame, Messages
        <4> QED
          BY <2>3, <4>1, <4>2, <4>3 DEF RelayStream
      <3> QED
        BY <3>1, <3>2
    <2>5. relay'.relays = relay.relays
      BY <2>3 DEF Publish, Types, RelayType
    <2>6. ForwardStream(r, f)'
      BY <1>5, <2>3, <2>5 DEF Streams, ForwardStream
    <2>7. DecoderStream(f, l)'
      BY <1>4, <1>5 DEF Streams
    <2> QED
      BY <1>2, <2>4, <2>6, <2>7 DEF StreamInv, Streams
  <1>7. CASE RelayFrame
    <2>1. PICK m : /\ m = Head(relay.mail) /\ m \in ForwardMail /\ m \in Frames
                   /\ relay.mail # <<>> /\ relay.state = "loop" /\ SendForward(relay.relays, m)
                   /\ relay'.mail = Tail(relay.mail) /\ relay'.relays = relay.relays
                   /\ encoded' = encoded
      BY <1>7, ReceivedFacts, Messages DEF RelayFrame, Types, RelayType
    <2>2. PICK s \in Seq(RelayMail), e \in Nat :
             s = relay.mail /\ e = encoded /\ s # <<>> /\ Stream(s, r, e)
      BY <1>1, <1>5, <2>1, CoastcastAssumption DEF Streams, RelayStream, Types
    <2>3. IsFrame(m)
      BY <2>1, Messages
    <2>4. m.n = r + 1 /\ Stream(Tail(s), r + 1, e)
      BY <2>1, <2>2, <2>3, TailFrame, Messages
    <2>5. RelayStream(r + 1)'
      BY <2>1, <2>2, <2>4 DEF RelayStream
    <2>6. ForwardStream(r + 1, f)'
      <3>1. ASSUME NEW i \in relay.relays
            PROVE  Stream(forward'[i].mail, f[i], r + 1)
        <4>1. PICK q \in Seq(ForwardMail) :
                 /\ q = forward[i].mail /\ forward'[i].mail = Append(q, m)
                 /\ Stream(q, f[i], r)
          BY <1>1, <1>5, <2>1, SendFacts DEF Types, Streams, ForwardStream
        <4>2. f[i] \in Nat
          BY <1>1
        <4>3. Stream(Append(q, m), f[i], r + 1)
          BY <2>1, <2>3, <2>4, <4>1, <4>2, AppendFrame, Messages
        <4> QED
          BY <4>1, <4>3
      <3> QED
        BY <2>1, <3>1 DEF ForwardStream
    <2>7. DecoderStream(f, l)'
      BY <1>4, <1>5 DEF Streams
    <2>8. r + 1 \in Nat
      OBVIOUS
    <2> QED
      BY <1>2, <2>5, <2>6, <2>7, <2>8 DEF StreamInv, Streams
  <1>8. CASE RelayAdd
    <2>1. PICK m : /\ m = Head(relay.mail) /\ m \in ForwardMail /\ m \in Additions
                   /\ relay.mail # <<>> /\ relay.state = "loop" /\ SendForward({m.isle}, m)
                   /\ relay'.mail = Tail(relay.mail) /\ relay'.relays = relay.relays
                   /\ encoded' = encoded
      BY <1>8, ReceivedFacts, Messages DEF RelayAdd, Types, RelayType
    <2>2. ~ IsFrame(m)
      BY <2>1, Messages
    <2>3. \A a, e : Stream(relay.mail, a, e) => Stream(relay'.mail, a, e)
      BY <1>1, <2>1, <2>2, TailOther
    <2>4. ASSUME NEW i \in Islands, NEW a, NEW e, Stream(forward[i].mail, a, e)
          PROVE  Stream(forward'[i].mail, a, e)
      <3>1. PICK q \in Seq(ForwardMail) :
               /\ q = forward[i].mail
               /\ forward'[i].mail = q \/ forward'[i].mail = Append(q, m)
        BY <2>1, SendFacts DEF Types
      <3>2. Stream(Append(q, m), a, e)
        BY <2>1, <2>2, <2>4, <3>1, AppendOther
      <3> QED
        BY <2>4, <3>1, <3>2
    <2> QED
      BY <1>2, <1>3, <2>1, <2>3, <2>4, StreamStill
  <1>9. CASE DeployForward
    <2>1. PICK m : /\ m = Head(relay.mail) /\ m \in Additions
                   /\ relay.mail # <<>> /\ relay.state = "loop"
                   /\ relay'.mail = Tail(relay.mail) /\ relay'.relays = relay.relays
                   /\ encoded' = encoded
      BY <1>9, ReceivedFacts DEF DeployForward, Types, RelayType
    <2>2. ~ IsFrame(m)
      BY <2>1, Messages
    <2>3. \A a, e : Stream(relay.mail, a, e) => Stream(relay'.mail, a, e)
      BY <1>1, <2>1, <2>2, TailOther
    <2>4. \A i \in Islands : forward'[i].mail = forward[i].mail
      <3>1. PICK k : forward' = [forward EXCEPT ![k].state = "spawn"]
        BY <1>9 DEF DeployForward
      <3> QED
        BY <3>1 DEF Types, ForwardType, ForwardRelay
    <2> QED
      BY <1>2, <1>3, <2>1, <2>3, <2>4, StreamStill
  <1>10. CASE Deployed
    <2>1. PICK m : /\ m = relay.request /\ m \in Additions /\ m \in ForwardMail
                   /\ relay.state = "wait" /\ SendForward({m.isle}, m)
                   /\ relay'.mail = relay.mail /\ encoded' = encoded
                   /\ relay'.relays = relay.relays \cup {m.isle}
      BY <1>10, Messages DEF Deployed, RelayInv, Types, RelayType
    <2>2. PICK b \in Islands : b = m.isle /\ b \notin relay.relays /\ forward[b].mail = <<>>
      BY <2>1 DEF RelayInv, Additions
    <2>3. RelayStream(r)'
      BY <1>5, <2>1 DEF Streams, RelayStream
    <2>4. PICK g \in [Islands -> Nat] : g = [f EXCEPT ![b] = r]
      BY <1>5
    <2>5. ForwardStream(r, g)'
      <3>1. ASSUME NEW i \in relay.relays
            PROVE  Stream(forward'[i].mail, g[i], r)
        <4>1. i \in Islands /\ i # b /\ g[i] = f[i]
          BY <1>1, <2>2, <2>4
        <4>2. forward'[i].mail = forward[i].mail
          BY <2>1, <2>2, <4>1, SendFacts DEF Types
        <4> QED
          BY <1>5, <4>1, <4>2 DEF Streams, ForwardStream
      <3>2. Stream(forward'[b].mail, g[b], r)
        <4>1. forward'[b].mail = Append(<<>>, m)
          BY <2>1, <2>2, SendFacts DEF Types
        <4>2. Stream(<<>>, r, r)
          BY DEF Stream, Positions
        <4>3. ~ IsFrame(m) /\ <<>> \in Seq(ForwardMail)
          BY <2>1, Messages
        <4>4. Stream(Append(<<>>, m), r, r)
          BY <2>1, <4>2, <4>3, AppendOther
        <4> QED
          BY <2>4, <4>1, <4>4
      <3> QED
        BY <2>1, <2>2, <3>1, <3>2 DEF ForwardStream
    <2>6. DecoderStream(g, l)
      <3>1. \A d \in Decoders : Is(d, "loop") => decoder[d].isle \in relay.relays
        BY LoopRelays
      <3>2. \A i \in relay.relays : g[i] = f[i]
        BY <1>1, <2>2, <2>4
      <3> QED
        BY <1>5, <3>1, <3>2 DEF Streams, DecoderStream
    <2> QED
      BY <1>2, <1>4, <2>3, <2>4, <2>5, <2>6 DEF StreamInv, Streams
  <1>11. CASE DeployFails
    <2>1. /\ relay'.state = "dead" /\ relay'.relays = relay.relays
          /\ encoded' = encoded /\ forward' = forward
      BY <1>11 DEF DeployFails, Types, RelayType
    <2> QED
      BY <1>2, <1>3, <2>1, StreamStill
  <1> QED
    BY <1>6, <1>7, <1>8, <1>9, <1>10, <1>11 DEF RelayStep

\* A forward relay sends a frame once to the decoders in their loops on its
\* island, and to nobody else.
LEMMA FrameSent ==
    ASSUME Types, RelayInv, HoldInv, NEW i \in Islands, ForwardFrame(i), NEW d \in Decoders
    PROVE  /\ decoder'[d].state = decoder[d].state /\ decoder'[d].isle = decoder[d].isle
           /\ decoder'[d].last = decoder[d].last
           /\ Is(d, "loop") /\ decoder[d].isle = i =>
                 decoder'[d].mail = Append(decoder[d].mail, Head(forward[i].mail))
           /\ ~ (Is(d, "loop") /\ decoder[d].isle = i) => decoder'[d].mail = decoder[d].mail
  <1> DEFINE mine == {s \in forward[i].curls : s.curl = Self(d) /\ Alive(d)}
  <1>1. PICK m \in Frames : m = Head(forward[i].mail)
    BY HeardFacts DEF ForwardFrame
  <1>2. PICK n : n = Cardinality(mine)
    OBVIOUS
  <1>3. PICK q : q = [k \in 1 .. n |-> m]
    OBVIOUS
  <1>4. decoder'[d] = [decoder[d] EXCEPT !.mail = @ \o q]
    BY <1>1, <1>2, <1>3 DEF ForwardFrame
  <1>5. decoder[d] \in ADecoder /\ decoder[d].mail \in Seq(DecoderMail)
    BY DEF Types, DecoderType, ADecoder
  <1>6. /\ decoder'[d].state = decoder[d].state /\ decoder'[d].isle = decoder[d].isle
        /\ decoder'[d].last = decoder[d].last
        /\ decoder'[d].mail = decoder[d].mail \o q
    BY <1>4, <1>5 DEF ADecoder
  <1>7. Self(d).who = d
    BY DEF Self
  <1>8. \A s \in mine : Is(d, "loop") /\ decoder[d].isle = i /\ decoder[d].ctrl = s.id
    BY <1>7 DEF HoldInv, Alive, Is
  <1>9. CASE Is(d, "loop") /\ decoder[d].isle = i
    <2>1. PICK own : /\ own = [id |-> decoder[d].ctrl, curl |-> Self(d)]
                     /\ own \in forward[i].curls
      BY <1>9 DEF HoldInv
    <2>2. own.id = decoder[d].ctrl /\ own.curl = Self(d)
      BY <2>1
    <2>3. own \in mine
      BY <1>9, <2>1, <2>2 DEF Alive, Is
    <2>4. \A s \in mine : s \in forward[i].curls /\ s.id = own.id
      BY <1>8, <2>2
    <2>5. \A s \in mine : s = own
      BY <2>1, <2>4 DEF HoldInv
    <2>6. mine = {own}
      BY <2>3, <2>5
    <2>7. n = 1
      BY <1>2, <2>6, FS_Singleton
    <2> HIDE DEF mine
    <2>8. \A s \in Seq(DecoderMail), x \in DecoderMail : s \o [k \in 1 .. 1 |-> x] = Append(s, x)
      OBVIOUS
    <2>9. m \in DecoderMail
      BY <1>1, Messages
    <2> QED
      BY <1>1, <1>3, <1>5, <1>6, <1>9, <2>7, <2>8, <2>9
  <1>10. CASE ~ (Is(d, "loop") /\ decoder[d].isle = i)
    <2>1. mine = {}
      BY <1>8, <1>10
    <2>2. n = 0
      BY <1>2, <2>1, FS_EmptySet
    <2> HIDE DEF mine
    <2>3. q = <<>>
      BY <1>3, <2>2
    <2> QED
      BY <1>5, <1>6, <1>10, <2>3
  <1> QED
    BY <1>9, <1>10

LEMMA StreamInvForward ==
    ASSUME Types, RelayInv, AskInv, HoldInv, StreamInv, NEW i \in Islands, ForwardStep(i)
    PROVE  StreamInv'
  <1>1. /\ encoded' = encoded /\ relay' = relay /\ relay.relays \subseteq Islands
        /\ \A j \in Islands : forward[j].mail \in Seq(ForwardMail)
        /\ \A d \in Decoders : decoder[d].mail \in Seq(DecoderMail) /\ decoder[d].isle \in Islands
    <2>1. encoded' = encoded /\ relay' = relay
      BY TakenFacts DEF ForwardStep, Spawned, Same
    <2> QED
      BY <2>1 DEF Types, RelayType, ForwardType, ForwardRelay, DecoderType, ADecoder
  <1>2. PICK r \in Nat, f \in [Islands -> Nat], l \in [Decoders -> Nat] : Streams(r, f, l)
    BY DEF StreamInv
  <1>3. RelayStream(r)'
    BY <1>1, <1>2 DEF Streams, RelayStream
  <1>4. CASE Spawned(i) \/ ForwardRemove(i)
    <2>1. decoder' = decoder
      BY <1>4 DEF Spawned, ForwardRemove
    <2>2. SilentInv'
      BY <2>1 DEF StreamInv, SilentInv, Is
    <2>3. \A j \in Islands : \A a, e : Stream(forward[j].mail, a, e) => Stream(forward'[j].mail, a, e)
      <3>1. CASE Spawned(i)
        BY <3>1 DEF Spawned, Types, ForwardType, ForwardRelay
      <3>2. CASE ForwardRemove(i)
        <4>1. PICK s \in Seq(ForwardMail) : /\ s = forward[i].mail /\ s # <<>>
                                            /\ Head(s) \in Removals
          BY <3>2, HeardFacts DEF ForwardRemove
        <4>2. /\ forward'[i].mail = Tail(s)
              /\ \A j \in Islands \ {i} : forward'[j].mail = forward[j].mail
          BY <3>2, <4>1, TakenFacts
        <4>3. ~ IsFrame(Head(s))
          BY <4>1, Messages
        <4>4. \A a, e : Stream(s, a, e) => Stream(Tail(s), a, e)
          BY <4>1, <4>3, TailOther
        <4> QED
          BY <4>1, <4>2, <4>4
      <3> QED
        BY <1>4, <3>1, <3>2
    <2>4. \A d \in Decoders : decoder'[d].state = "loop" =>
             /\ Is(d, "loop") /\ decoder'[d].isle = decoder[d].isle
             /\ decoder'[d].last = decoder[d].last
             /\ \A a, e : Stream(decoder[d].mail, a, e) => Stream(decoder'[d].mail, a, e)
      BY <2>1 DEF Is
    <2> QED
      BY <1>1, <2>2, <2>3, <2>4, StreamStill
  <1>5. CASE ForwardFrame(i)
    <2>1. PICK s \in Seq(ForwardMail) :
             /\ s = forward[i].mail /\ s # <<>> /\ Head(s) \in Frames /\ i \in relay.relays
      BY <1>5, HeardFacts DEF ForwardFrame
    <2>2. PICK m : m = Head(s) /\ m \in Frames /\ m \in DecoderMail /\ IsFrame(m)
      BY <2>1, Messages
    <2>3. PICK a \in Nat : a = f[i] /\ Stream(s, a, r)
      BY <1>2, <2>1 DEF Streams, ForwardStream
    <2>4. m.n = a + 1 /\ Stream(Tail(s), a + 1, r)
      BY <2>1, <2>2, <2>3, TailFrame, Messages
    <2>5. /\ forward'[i].mail = Tail(s)
          /\ \A j \in Islands \ {i} : forward'[j].mail = forward[j].mail
      BY <1>5, <2>1, TakenFacts
    <2>6. PICK g \in [Islands -> Nat] : g = [f EXCEPT ![i] = a + 1]
      <3>1. a + 1 \in Nat
        OBVIOUS
      <3>2. \A x \in Nat : [f EXCEPT ![i] = x] \in [Islands -> Nat]
        BY <1>2
      <3> QED
        BY <3>1, <3>2
    <2>7. g[i] = a + 1 /\ \A j \in Islands \ {i} : g[j] = f[j]
      BY <2>6
    <2>8. ForwardStream(r, g)'
      <3>1. ASSUME NEW j \in relay.relays
            PROVE  Stream(forward'[j].mail, g[j], r)
        <4>1. CASE j = i
          BY <2>4, <2>5, <2>7, <4>1
        <4>2. CASE j # i
          BY <1>1, <1>2, <2>5, <2>7, <4>2 DEF Streams, ForwardStream
        <4> QED
          BY <4>1, <4>2
      <3> QED
        BY <1>1, <3>1 DEF ForwardStream
    <2>9. DecoderStream(g, l)'
      <3>1. ASSUME NEW d \in Decoders, decoder'[d].state = "loop"
            PROVE  /\ Stream(decoder'[d].mail, l[d], g[decoder'[d].isle])
                   /\ decoder'[d].last # 0 => decoder'[d].last = l[d]
        <4>1. /\ Is(d, "loop") /\ decoder'[d].isle = decoder[d].isle
              /\ decoder'[d].last = decoder[d].last
              /\ decoder[d].isle = i => decoder'[d].mail = Append(decoder[d].mail, m)
              /\ decoder[d].isle # i => decoder'[d].mail = decoder[d].mail
          BY <1>5, <2>1, <2>2, <3>1, FrameSent DEF Is
        <4>2. /\ Stream(decoder[d].mail, l[d], f[decoder[d].isle])
              /\ decoder[d].last # 0 => decoder[d].last = l[d]
          BY <1>2, <4>1 DEF Streams, DecoderStream
        <4>3. CASE decoder[d].isle = i
          <5>1. PICK q \in Seq(DecoderMail), b \in Nat :
                   q = decoder[d].mail /\ b = l[d] /\ Stream(q, b, a)
            BY <1>1, <2>3, <4>2, <4>3
          <5>2. Stream(Append(q, m), b, a + 1)
            BY <2>2, <2>4, <5>1, AppendFrame, Messages
          <5> QED
            BY <2>7, <4>1, <4>2, <4>3, <5>1, <5>2
        <4>4. CASE decoder[d].isle # i
          BY <1>1, <2>7, <4>1, <4>2, <4>4
        <4> QED
          BY <4>3, <4>4
      <3> QED
        BY <3>1 DEF DecoderStream, Is
    <2>10. SilentInv'
      <3>1. \A d \in Decoders : ~ Is(d, "loop") =>
               /\ decoder'[d].state = decoder[d].state /\ decoder'[d].mail = decoder[d].mail
               /\ decoder'[d].last = decoder[d].last
        BY <1>5, FrameSent
      <3>2. \A d \in Decoders : decoder'[d].state = decoder[d].state
        BY <1>5, FrameSent
      <3> QED
        BY <3>1, <3>2 DEF StreamInv, SilentInv, Is
    <2> QED
      BY <1>3, <2>6, <2>8, <2>9, <2>10 DEF StreamInv, Streams
  <1>6. CASE ForwardAdd(i)
    <2> PICK c, v, n : Adds(i, c, v, n)
      BY <1>6, AddFacts
    <2>1. PICK s \in Seq(ForwardMail) :
             /\ s = forward[i].mail /\ s # <<>> /\ Head(s) \in Additions /\ i \in relay.relays
      BY HeardFacts DEF Adds
    <2>2. PICK a, b : Head(s) = AddCURL(a, b) /\ a = Head(s).curl /\ a \in Subscriber /\ b \in Islands
      BY <2>1, Messages
    <2>3. Waits(a, i)
      <3>1. Asks(s, a, b)
        BY <2>1, <2>2, TailAsks
      <3> QED
        BY <2>1, <2>2, <3>1 DEF AskInv
    <2>4. PICK w \in Decoders : /\ w = a.who /\ decoder[w].state = "subscribe"
                                /\ decoder[w].isle = i /\ Self(w) = a
      BY <2>2, <2>3 DEF Waits, Subscriber
    <2>5. PICK k : decoder' = [decoder EXCEPT ![w] = [decoder[w] EXCEPT !.state = "loop",
                                                                      !.ctrl = k]]
      <3>1. c = a /\ v = w
        BY <2>1, <2>2, <2>4 DEF Adds
      <3> QED
        BY <2>4, <3>1, Zenon DEF Adds, Expected
    <2>6. /\ \A d \in Decoders \ {w} : decoder'[d] = decoder[d]
          /\ decoder'[w].state = "loop" /\ decoder'[w].isle = i
          /\ decoder'[w].mail = decoder[w].mail /\ decoder'[w].last = decoder[w].last
      BY <2>4, <2>5 DEF Types, DecoderType, ADecoder
    <2>7. /\ forward'[i].mail = Tail(s)
          /\ \A j \in Islands \ {i} : forward'[j].mail = forward[j].mail
      BY <1>6, <2>1, TakenFacts
    <2>8. ~ IsFrame(Head(s))
      BY <2>1, Messages
    <2>9. \A x, e : Stream(s, x, e) => Stream(Tail(s), x, e)
      BY <2>1, <2>8, TailOther
    <2>10. ForwardStream(r, f)'
      <3>1. ASSUME NEW j \in relay.relays
            PROVE  Stream(forward'[j].mail, f[j], r)
        <4>1. Stream(forward[j].mail, f[j], r)
          BY <1>2 DEF Streams, ForwardStream
        <4> QED
          BY <1>1, <2>1, <2>7, <2>9, <4>1
      <3> QED
        BY <1>1, <3>1 DEF ForwardStream
    <2>11. PICK g \in [Decoders -> Nat] : g = [l EXCEPT ![w] = f[i]]
      BY <1>2
    <2>12. Silent(decoder[w].mail) /\ decoder[w].last = 0
      BY <2>4 DEF StreamInv, SilentInv, Is
    <2>13. Stream(decoder[w].mail, f[i], f[i])
      <3>1. PICK q : q = decoder[w].mail /\ Silent(q)
        BY <2>12
      <3>2. \A x \in Nat : Stream(q, x, x)
        BY <3>1 DEF Stream, Silent
      <3> QED
        BY <1>2, <3>1, <3>2
    <2>14. DecoderStream(f, g)'
      <3>1. ASSUME NEW d \in Decoders, decoder'[d].state = "loop"
            PROVE  /\ Stream(decoder'[d].mail, g[d], f[decoder'[d].isle])
                   /\ decoder'[d].last # 0 => decoder'[d].last = g[d]
        <4>1. CASE d = w
          BY <2>6, <2>11, <2>12, <2>13, <4>1
        <4>2. CASE d # w
          BY <1>2, <2>6, <2>11, <3>1, <4>2 DEF Streams, DecoderStream, Is
        <4> QED
          BY <4>1, <4>2
      <3> QED
        BY <3>1 DEF DecoderStream, Is
    <2>15. SilentInv'
      <3>1. \A d \in Decoders : decoder'[d].state # "loop" => d # w
        BY <2>6
      <3> QED
        BY <2>6, <3>1 DEF StreamInv, SilentInv, Is
    <2> QED
      BY <1>3, <2>10, <2>11, <2>14, <2>15 DEF StreamInv, Streams
  <1> QED
    BY <1>4, <1>5, <1>6 DEF ForwardStep

LEMMA StreamInvDecoder ==
    ASSUME Types, HoldInv, StreamInv, NEW d \in Decoders, Spawn(d) \/ DecoderStep(d)
    PROVE  StreamInv'
  <1>1. \A e \in Decoders \ {d} : decoder'[e] = decoder[e]
    BY DEF Spawn, DecoderStep, Enter, Take, Read, Subscribe, GiveUp, Decode, Leave, Types,
           DecoderType
  <1>2. /\ encoded' = encoded /\ decoder[d] \in ADecoder /\ decoder[d].mail \in Seq(DecoderMail)
        /\ decoder[d].isle \in Islands
    BY DEF Spawn, DecoderStep, Enter, Take, Read, Subscribe, GiveUp, Decode, Leave, Types,
           DecoderType, ADecoder
  <1>3. Silent(<<>>)
    BY DEF Silent, Positions
  <1>4. CASE ~ Decode(d)
    <2>1. relay'.relays = relay.relays /\ (relay'.state # "dead" => relay.state # "dead")
      <3>1. CASE relay' = relay
        BY <3>1
      <3>2. CASE Subscribe(d)
        BY <3>2 DEF Subscribe, Publish, Types, RelayType
      <3> QED
        BY <1>4, <3>1, <3>2 DEF Spawn, DecoderStep, Enter, Take, Read, GiveUp, Leave
    <2>2. \A a, e : Stream(relay.mail, a, e) => Stream(relay'.mail, a, e)
      <3>1. CASE relay' = relay
        BY <3>1
      <3>2. CASE Subscribe(d)
        <4>1. PICK m : m = AddCURL(Self(d), decoder[d].isle)
          OBVIOUS
        <4>2. m \in RelayMail /\ ~ IsFrame(m)
          <5>1. Self(d) \in Subscriber
            BY <1>2 DEF Self, Subscriber, ADecoder
          <5>2. m \in Additions
            BY <1>2, <4>1, <5>1, Messages
          <5> QED
            BY <5>2, Messages DEF RelayMail
        <4>3. PICK s \in Seq(RelayMail) :
                 /\ s = relay.mail
                 /\ relay'.mail = s \/ relay'.mail = Append(s, m)
          BY <3>2, <4>1 DEF Subscribe, Publish, Types, RelayType
        <4>4. \A a, e : Stream(s, a, e) => Stream(Append(s, m), a, e)
          BY <4>2, AppendOther
        <4> QED
          BY <4>3, <4>4
      <3> QED
        BY <1>4, <3>1, <3>2 DEF Spawn, DecoderStep, Enter, Take, Read, GiveUp, Leave
    <2>3. \A i \in Islands : \A a, e : Stream(forward[i].mail, a, e) => Stream(forward'[i].mail, a, e)
      <3>1. CASE forward' = forward
        BY <3>1
      <3>2. CASE Leave(d)
        <4>1. PICK m \in ForwardMail : m = RemoveCURL(decoder[d].ctrl) /\ ~ IsFrame(m)
          BY <1>2, Messages DEF ADecoder
        <4>2. ASSUME NEW i \in Islands, NEW a, NEW e, Stream(forward[i].mail, a, e)
              PROVE  Stream(forward'[i].mail, a, e)
          <5>1. PICK s \in Seq(ForwardMail) :
                   /\ s = forward[i].mail
                   /\ forward'[i].mail = s \/ forward'[i].mail = Append(s, m)
            BY <3>2, <4>1, SendFacts DEF Leave, Types
          <5>2. Stream(Append(s, m), a, e)
            BY <4>1, <4>2, <5>1, AppendOther
          <5> QED
            BY <4>2, <5>1, <5>2
        <4> QED
          BY <4>2
      <3> QED
        BY <1>4, <3>1, <3>2 DEF Spawn, DecoderStep, Enter, Take, Read, Subscribe, GiveUp
    <2>4. decoder'[d].state # "loop"
      <3>1. CASE Spawn(d) \/ Enter(d) \/ Take(d) \/ Read(d) \/ Subscribe(d) \/ GiveUp(d)
        BY <3>1 DEF Spawn, Enter, Take, Read, Subscribe, GiveUp, Types, DecoderType, ADecoder
      <3>2. CASE Leave(d)
        BY <3>2 DEF Leave, NewDecoder, Types, DecoderType, ADecoder
      <3> QED
        BY <1>4, <3>1, <3>2 DEF DecoderStep
    <2>5. Silent(decoder'[d].mail) /\ (decoder'[d].state = "dead" \/ decoder'[d].last = 0)
      <3>1. CASE Spawn(d) \/ Enter(d) \/ Take(d) \/ Read(d) \/ Subscribe(d)
        <4>1. /\ decoder[d].state \notin {"loop", "dead"}
              /\ decoder'[d].mail = decoder[d].mail /\ decoder'[d].last = decoder[d].last
          BY <3>1 DEF Spawn, Enter, Take, Read, Subscribe, Is, Types, DecoderType, ADecoder
        <4> QED
          BY <4>1 DEF StreamInv, SilentInv, Is
      <3>2. CASE GiveUp(d)
        BY <1>3, <3>2 DEF GiveUp, Types, DecoderType, ADecoder
      <3>3. CASE Leave(d)
        BY <1>3, <3>3 DEF Leave, NewDecoder, Types, DecoderType, ADecoder
      <3> QED
        BY <1>4, <3>1, <3>2, <3>3 DEF DecoderStep
    <2>6. SilentInv'
      BY <1>1, <2>5 DEF StreamInv, SilentInv, Is
    <2>7. \A e \in Decoders : decoder'[e].state = "loop" =>
             /\ Is(e, "loop") /\ decoder'[e].isle = decoder[e].isle
             /\ decoder'[e].last = decoder[e].last
             /\ \A a, b : Stream(decoder[e].mail, a, b) => Stream(decoder'[e].mail, a, b)
      <3> SUFFICES ASSUME NEW e \in Decoders, decoder'[e].state = "loop"
                   PROVE  decoder'[e] = decoder[e] /\ Is(e, "loop")
        OBVIOUS
      <3> QED
        BY <1>1, <2>4 DEF Is
    <2> QED
      BY <1>2, <2>1, <2>2, <2>3, <2>6, <2>7, StreamStill
  <1>5. CASE Decode(d)
    <2>1. PICK r \in Nat, f \in [Islands -> Nat], l \in [Decoders -> Nat] : Streams(r, f, l)
      BY DEF StreamInv
    <2>2. RelayStream(r)' /\ ForwardStream(r, f)'
      BY <1>5, <2>1 DEF Decode, Streams, RelayStream, ForwardStream
    <2>3. PICK s \in Seq(DecoderMail) : s = decoder[d].mail /\ s # <<>> /\ IsFrame(Head(s))
                                        /\ Is(d, "loop")
      BY <1>2, <1>5 DEF Decode, Finds, IsFrame
    <2>4. PICK a \in Nat, e \in Nat : a = l[d] /\ e = f[decoder[d].isle] /\ Stream(s, a, e)
      BY <1>2, <2>1, <2>3 DEF Streams, DecoderStream
    <2>5. Head(s).n = a + 1 /\ Stream(Tail(s), a + 1, e)
      BY <2>3, <2>4, TailFrame, Messages
    <2>6. /\ decoder'[d].mail = Tail(s) /\ decoder'[d].last = a + 1
          /\ decoder'[d].isle = decoder[d].isle /\ decoder'[d].state = "loop"
      BY <1>5, <2>3, <2>5 DEF Decode, Is, Types, DecoderType, ADecoder
    <2>7. PICK g \in [Decoders -> Nat] : g = [l EXCEPT ![d] = a + 1]
      <3>1. a + 1 \in Nat
        OBVIOUS
      <3>2. \A x \in Nat : [l EXCEPT ![d] = x] \in [Decoders -> Nat]
        BY <2>1
      <3> QED
        BY <3>1, <3>2
    <2>8. DecoderStream(f, g)'
      <3>1. ASSUME NEW x \in Decoders, decoder'[x].state = "loop"
            PROVE  /\ Stream(decoder'[x].mail, g[x], f[decoder'[x].isle])
                   /\ decoder'[x].last # 0 => decoder'[x].last = g[x]
        <4>1. CASE x = d
          BY <2>4, <2>5, <2>6, <2>7, <4>1
        <4>2. CASE x # d
          BY <1>1, <2>1, <2>7, <3>1, <4>2 DEF Streams, DecoderStream, Is
        <4> QED
          BY <4>1, <4>2
      <3> QED
        BY <3>1 DEF DecoderStream, Is
    <2>9. SilentInv'
      BY <1>1, <2>6 DEF StreamInv, SilentInv, Is
    <2> QED
      BY <2>2, <2>7, <2>8, <2>9 DEF StreamInv, Streams
  <1> QED
    BY <1>4, <1>5

LEMMA StreamInvGui ==
    ASSUME Types, StreamInv, NEW g \in Guis,
           GuiStep(g) \/ UserStep(g)
    PROVE  StreamInv'
  <1>1. ASSUME NEW d \in Decoders
        PROVE  /\ \A l, e : Stream(decoder[d].mail, l, e) => Stream(decoder'[d].mail, l, e)
               /\ Silent(decoder[d].mail) => Silent(decoder'[d].mail)
    <2>1. PICK s \in Seq(DecoderMail) : s = decoder[d].mail
      BY DEF Types, DecoderType, ADecoder
    <2>2. decoder'[d].mail = s \/ \E m \in Orders : decoder'[d].mail = Append(s, m)
      BY <2>1, GuiQuiet
    <2>3. CASE decoder'[d].mail = s
      BY <2>1, <2>3
    <2>4. ASSUME NEW m \in Orders, decoder'[d].mail = Append(s, m)
          PROVE  /\ \A l, e : Stream(s, l, e) => Stream(decoder'[d].mail, l, e)
                 /\ Silent(s) => Silent(decoder'[d].mail)
      <3>1. m \in DecoderMail /\ ~ IsFrame(m)
        BY Messages DEF DecoderMail
      <3> QED
        BY <2>4, <3>1, AppendOther
    <2> QED
      BY <2>1, <2>2, <2>3, <2>4
  <1>2. SilentInv'
    <2>1. ASSUME NEW d \in Decoders, decoder'[d].state # "loop"
          PROVE  Silent(decoder'[d].mail) /\ (decoder'[d].state = "dead" \/ decoder'[d].last = 0)
      <3>1. /\ ~ Is(d, "loop") /\ decoder'[d].last = decoder[d].last
            /\ Is(d, "dead") <=> decoder'[d].state = "dead"
        BY <2>1, GuiQuiet
      <3>2. Silent(decoder[d].mail) /\ (Is(d, "dead") \/ decoder[d].last = 0)
        BY <3>1 DEF StreamInv, SilentInv
      <3> QED
        BY <1>1, <3>1, <3>2
    <2> QED
      BY <2>1 DEF SilentInv, Is
  <1>3. \A d \in Decoders : decoder'[d].state = "loop" =>
           /\ Is(d, "loop") /\ decoder'[d].isle = decoder[d].isle
           /\ decoder'[d].last = decoder[d].last
           /\ \A l, e : Stream(decoder[d].mail, l, e) => Stream(decoder'[d].mail, l, e)
    BY <1>1, GuiQuiet
  <1>4. encoded' = encoded /\ relay' = relay /\ forward' = forward
    BY GuiQuiet
  <1> QED
    BY <1>2, <1>3, <1>4, StreamStill

-----------------------------------------------------------------------------
(* The invariant holds, and what follows from it.                           *)

LEMMA InvInit == Init => Inv
  BY InitTypes, InitRest DEF Inv

LEMMA InvStep == Inv /\ [Next]_vars => Inv'
  <1> SUFFICES ASSUME Inv, [Next]_vars PROVE Inv'
    OBVIOUS
  <1> USE DEF Inv
  <1>1. CASE Encode \/ RelayStep \/ DeployFails
    BY <1>1, RelayTypes, RelayInvRelay, AskInvRelay, HoldInvRelay, StreamInvRelay
  <1>2. ASSUME NEW i \in Islands, ForwardStep(i)
        PROVE  Inv'
    BY <1>2, ForwardTypes, RelayInvForward, AskInvForward, HoldInvForward, StreamInvForward
  <1>3. ASSUME NEW d \in Decoders, Spawn(d) \/ DecoderStep(d)
        PROVE  Inv'
    BY <1>3, DecoderTypes, RelayInvDecoder, AskInvDecoder, HoldInvDecoder, StreamInvDecoder
  <1>4. ASSUME NEW g \in Guis, GuiStep(g) \/ UserStep(g)
        PROVE  Inv'
    <2>1. RelayInv'
      BY <1>4, GuiQuiet DEF RelayInv
    <2> QED
      BY <1>4, <2>1, GuiTypes, AskInvGui, HoldInvGui, StreamInvGui
  <1>5. CASE UNCHANGED vars
    <2>1. Types'
      BY <1>5 DEF vars, registry, Types, RelayType, ForwardType, DecoderType, GuiType,
                  RegistryType, Guis, ADecoder
    <2>2. RelayInv'
      BY <1>5 DEF vars, RelayInv
    <2>3. AskInv'
      BY <1>5 DEF vars, AskInv, Waits, Self
    <2>4. HoldInv'
      BY <1>5 DEF vars, HoldInv, Is, Self
    <2>5. StreamInv'
      BY <1>5 DEF vars, StreamInv, Streams, SilentInv, RelayStream, ForwardStream, DecoderStream, Is
    <2> QED
      BY <2>1, <2>2, <2>3, <2>4, <2>5
  <1> QED
    BY <1>1, <1>2, <1>3, <1>4, <1>5 DEF Next

LEMMA Invariance == Spec => []Inv
  BY InvInit, InvStep, PTL DEF Spec

LEMMA TypesImplyTypeOK == Types => TypeOK
  <1> SUFFICES ASSUME Types PROVE TypeOK
    OBVIOUS
  <1> USE DEF Types
  <1>1. \A i \in Islands :
           /\ forward[i].state \in {"none", "spawn", "live"}
           /\ forward[i].mail \in Seq(Frames \cup Additions \cup Removals)
           /\ forward[i].curls \subseteq Subscription /\ forward[i].ids \in Nat
    BY DEF ForwardType, ForwardRelay, ForwardMail
  <1>2. \A g \in Guis :
           /\ gui[g].state \in {"start", "post", "loop", "leave", "quit"}
           /\ gui[g].isle \in Islands /\ gui[g].to \in Islands \cup {None}
           /\ gui[g].decoders \subseteq Subscriber
    <2> SUFFICES ASSUME NEW g \in Guis
                 PROVE  /\ gui[g].state \in {"start", "post", "loop", "leave", "quit"}
                        /\ gui[g].isle \in Islands /\ gui[g].to \in Islands \cup {None}
                        /\ gui[g].decoders \subseteq Subscriber
      OBVIOUS
    <2>1. gui[g] \in AGui
      BY DEF GuiType, Guis
    <2> QED
      BY <2>1 DEF AGui
  <1> QED
    BY <1>1, <1>2 DEF TypeOK, RelayType, RelayMail, DecoderType, ADecoder, DecoderStates,
                      DecoderMail, RegistryType

\* Every relay, mailbox, decoder, GUI controller and semaphore keeps its type,
\* however many decoders, islands, frames and moves there are.
THEOREM CoastcastTypeCorrect == Spec => []TypeOK
  BY Invariance, TypesImplyTypeOK, PTL DEF Inv

\* A decoder in its loop holds the control CURL of its own subscription, the
\* only one it has on any island, and shared with nobody: subscriptions that are
\* asked for, granted and given back on their own ways never mix.
THEOREM OwnSubscriptionHolds == Spec => []OwnSubscription
  <1>1. Inv => OwnSubscription
    <2> SUFFICES ASSUME Inv, NEW d \in Decoders, Is(d, "loop"), NEW i, i = decoder[d].isle
                 PROVE  /\ Holds(Self(d)) = {<<i, decoder[d].ctrl>>}
                        /\ \A s \in forward[i].curls :
                              s.id = decoder[d].ctrl => s.curl = Self(d)
      BY DEF OwnSubscription
    <2>1. i \in Islands
      BY DEF Inv, Types, DecoderType, ADecoder
    <2>2. PICK own \in forward[i].curls : own.id = decoder[d].ctrl /\ own.curl = Self(d)
      <3>1. [id |-> decoder[d].ctrl, curl |-> Self(d)] \in forward[decoder[d].isle].curls
        BY DEF Inv, HoldInv
      <3> QED
        BY <3>1
    <2>3. \A s \in forward[i].curls : s.id = decoder[d].ctrl => s.curl = Self(d)
      BY <2>1, <2>2 DEF Inv, HoldInv
    <2>4. Self(d).who = d
      BY DEF Self
    <2>5. \A j \in Islands : \A s \in forward[j].curls :
             s.curl = Self(d) => j = i /\ s.id = decoder[d].ctrl
      BY <2>4 DEF Inv, HoldInv, Is
    <2>6. <<i, decoder[d].ctrl>> \in Holds(Self(d))
      BY <2>1, <2>2 DEF Holds
    <2>7. \A x \in Holds(Self(d)) : x = <<i, decoder[d].ctrl>>
      BY <2>5 DEF Holds
    <2> QED
      BY <2>3, <2>6, <2>7
  <1> QED
    BY <1>1, Invariance, PTL

\* The frames in a decoder's mailbox continue the last one it has decoded, one
\* by one: none is lost, repeated or overtaken on the way through the relays.
THEOREM FramesContinuousHolds == Spec => []FramesContinuous
  <1>1. Inv => FramesContinuous
    <2> SUFFICES ASSUME Inv, NEW d \in Decoders, NEW k \in FrameAt(d)
                 PROVE  LET x     == decoder[d].mail[k].n
                            above == {j \in FrameAt(d) : j < k}
                        IN  IF above = {} THEN decoder[d].last # 0 => x = decoder[d].last + 1
                            ELSE \E j \in above :
                                    x = decoder[d].mail[j].n + 1 /\ \A i \in above : i <= j
      BY DEF FramesContinuous
    <2>1. PICK n, earlier : n = decoder[d].mail[k].n /\ earlier = {j \in FrameAt(d) : j < k}
      OBVIOUS
    <2> SUFFICES IF earlier = {} THEN decoder[d].last # 0 => n = decoder[d].last + 1
                 ELSE \E j \in earlier :
                         n = decoder[d].mail[j].n + 1 /\ \A i \in earlier : i <= j
      BY <2>1
    <2>2. PICK s \in Seq(DecoderMail) : s = decoder[d].mail
      BY DEF Inv, Types, DecoderType, ADecoder
    <2>3. FrameAt(d) = {j \in Positions(s) : IsFrame(s[j])}
      BY <2>2 DEF FrameAt, Positions, IsFrame
    <2>4. k \in Positions(s) /\ IsFrame(s[k])
      BY <2>3
    <2>5. Is(d, "loop")
      BY <2>2, <2>4 DEF Inv, StreamInv, SilentInv, Silent
    <2>6. PICK a \in Nat, e \in Nat : /\ Stream(s, a, e)
                                      /\ decoder[d].last # 0 => decoder[d].last = a
      <3>1. PICK r \in Nat, f \in [Islands -> Nat], l \in [Decoders -> Nat] : DecoderStream(f, l)
        BY DEF Inv, StreamInv, Streams
      <3>2. decoder[d].isle \in Islands
        BY DEF Inv, Types, DecoderType, ADecoder
      <3> QED
        BY <2>2, <2>5, <3>1, <3>2 DEF DecoderStream
    <2>7. \A j \in Positions(s) : j \in Nat /\ (IsFrame(s[j]) => s[j].n \in Nat)
      BY Messages DEF Positions, Numbered
    <2>8. n \in Nat /\ n > a /\ n <= e
      BY <2>2, <2>1, <2>4, <2>6, <2>7 DEF Stream
    <2>9. \A j \in earlier : j \in Positions(s) /\ IsFrame(s[j]) /\ j < k /\ s[j].n < n
      BY <2>2, <2>3, <2>4, <2>6, <2>1 DEF Stream
    <2>10. CASE n = a + 1
      <3>1. \A j \in earlier : FALSE
        <4> SUFFICES ASSUME NEW j \in earlier PROVE FALSE
          OBVIOUS
        <4>1. a < s[j].n /\ s[j].n < a + 1 /\ s[j].n \in Nat
          BY <2>6, <2>7, <2>9, <2>10 DEF Stream
        <4> QED
          BY <4>1
      <3> QED
        BY <2>6, <2>10, <3>1
    <2>11. CASE n # a + 1
      <3>1. n - 1 \in a + 1 .. e
        BY <2>8, <2>11
      <3>2. PICK j \in Positions(s) : IsFrame(s[j]) /\ s[j].n = n - 1
        BY <2>6, <3>1 DEF Stream
      <3>3. j < k
        <4>1. j # k
          BY <2>2, <2>8, <2>1, <3>2
        <4>2. ~ (k < j)
          BY <2>2, <2>4, <2>6, <2>8, <2>1, <3>2 DEF Stream
        <4> QED
          BY <2>4, <2>7, <4>1, <4>2
      <3>4. j \in earlier
        BY <2>3, <2>1, <3>2, <3>3
      <3>5. ASSUME NEW i \in earlier
            PROVE  i <= j
        <4> SUFFICES ASSUME ~ (i <= j) PROVE FALSE
          OBVIOUS
        <4>1. i \in Positions(s) /\ IsFrame(s[i]) /\ s[i].n < n /\ j < i
          BY <2>7, <2>9, <3>2
        <4>2. s[j].n < s[i].n /\ s[i].n \in Nat
          BY <2>6, <2>7, <3>2, <4>1 DEF Stream
        <4> QED
          BY <2>8, <3>2, <4>1, <4>2
      <3>6. n = s[j].n + 1
        BY <2>8, <3>2
      <3> QED
        BY <2>2, <3>4, <3>5, <3>6
    <2> QED
      BY <2>10, <2>11
  <1> QED
    BY <1>1, Invariance, PTL
=============================================================================
