# A TLA+ model of the COAST runtime (CRESTaceans)

CRESTaceans implements COAST, a style of decentralised computing in which
*islands* (Racket processes) host *actors* (Racket threads) that exchange
messages, closures included, through *CURLs* (capability URLs). This directory
models the concurrent core of the runtime in TLA+, checks it with TLC and proves
with TLAPS every invariant that the passing runs check, and the refinements. Line numbers refer to the files
under `src/`.

## The system

| part | state | operations | interacts with |
|---|---|---|---|
| Locatives, `Motile/actor/locative.rkt` | tree of locatives (expiration, sends count, sender predicates, revoked flag, prior), semaphore `ATOMIC` | `locative/send`, `locative/cons/any`, `locative/revoke!`, authority lists | mailboxes of actor threads |
| Actors, `Motile/actor/{actor,jumpstart,root}.rkt` | actor records, one thread each, chieftain links | create, jumpstart, end | locatives |
| Promises, `Motile/actor/promise.rkt` | record with value, kept, ruined and a semaphore; a nanny actor | `promise/new`, the nanny's thunk, `promise/wait` | a locative good for one send |
| CURLs and sends, `Motile/actor/{curl,send}.rkt` | CURL records, the inter-island router box | `curl/new`, `curl/send`, `curl/forward` | locatives, network |
| Export table, `Motile/compile/serialize.rkt` | `EXPORTS`, `DURABLES`, `EXPIRATIONS`, `REAPINGS` | CURL cases of serialize and deserialize, reaper thread | CURLs, locatives |
| Connections, `peer/src/net/tcp-peer.rkt` | `connects-o`, connecting/output/input threads, control channels | sendmaster, connect with retries, accept, read, write, exit | TCP, the root's mailbox |
| Framework, `peer/src/api/framework.rkt` | the public locative and CURL | start an island | all of the above |
| Handshakes, `peer/src/net/{encryption,scurls}.rkt`, `scurl/` | keys, certificates, nonces | validation, sessions | TCP |
| Compiler, `Motile/compile`, `Motile/generate` | none at run time | compile, recompile, match | |
| Persistent data, `Motile/persistent`, `misc/datastructs` | immutable values | tries, vectors, queues, heaps | serializer |
| Applications, `apps/` | relays, GUI registry, root loop, tables of the diagram | spawn, publish, subscribe, draw | CURLs, promises, browser |
| Browser interface, `ui/` | sessions, the page's graphs | open a tab, wait for it, send to it | the root and every actor |

The system is written in Racket. Most of the JavaScript in the repository is a copy
of the Dojo toolkit under `old/FeedReader`, and of the browser libraries under
`ui/files`; of the latter the diagram of `dracula_graph.js` is modelled.

What makes each part correct, and what makes that hard:

* Locatives: a derived locative is never stronger than the one it comes from, and
  the sends that a tree grants are conserved, while many threads send and derive
  at once, threads die between the check and the send, and superiors are revoked.
* Promises: one resolution, seen by every waiter, while the nanny's timer, the
  sender, and the waiters' timeouts race.
* Export table: a live exported CURL is found when it returns, a dead one is
  dropped, while serializers and the reaper run without a lock.
* Connections: a message handed to the layer is delivered at most once, and at
  least once while nothing fails, whichever side connects first; a failure of one
  half of a connection closes the other, and the table names live connections.
* Actors and the root: the jumpstart thunk is the first message; the root hears the
  network only once it is running, and passes deliveries on once and in order.
* Relays and decoders: a subscriber gets every frame from its first one, once, while
  relays are deployed, and others subscribe, end and move between islands.
* The diagram: every send ends up as one edge between two nodes of the page, while
  all actors share two tables without a lock and the page comes and goes.

The hazards, each at its line and with the properties that would catch it, are
listed in `PROJECT.json`.

## Modules

| module | models | composed from |
|---|---|---|
| `SendAccounts` | abstract: accounts that spend and lend sends, each step atomic | |
| `Locatives` | `locative.rkt`, thread by thread | refines `SendAccounts` |
| `PromiseCell` | abstract: a write-once cell | |
| `Promises` | `promise.rkt` and the send to the nanny | refines `PromiseCell` |
| `Curls` | CURL creation, export, import and the reaper | |
| `Connections` | `tcp-peer.rkt` on both of two islands | |
| `Root` | the start of an island and the root's loop | |
| `Coastcast` | the video relays, decoders, GUI controllers and the GUI registry | |
| `Diagram` | the diagram of sends, from the actors to the page | |
| `MC*` | small instances for TLC | |
| `LocativesProofs`, `LocativesSafetyProofs` | theorems about `Locatives` | the second extends the first |
| `PromisesProofs`, `CurlsProofs`, `RootProofs`, `ConnectionsProofs`, `DiagramProofs`, `CoastcastProofs` | theorems about the module of that name | extend it |

### Locatives

Every thread has a program counter `pc[t]` and its call in `call[t]`. A call of
`locative/send` (277-290) is `LocativeSend`, `StartAtomic`, the conjuncts of
`locative/sendable?` one action each (`SendRevoked`, `SendExpires`,
`SendBudget`), `SendCharge`, `EndAtomic` and, outside the semaphore, `Deliver`.
`locative/cons/any` (412-469) is `LocativeCons`, `StartAtomic`, `ConsExpires`,
`ConsRevoked`, `ConsBudget`, `ConsDerive`, `EndAtomic`. An exception in between
goes to the label `raised`: `ATOMIC` is a plain semaphore here, `semaphore-post`
is not reached, and the model keeps it taken as the code does. The prior chain is
given by two derived fields, `superiors` and `counter` (the locative whose count
is used), so that no definition recurs; `Attenuation` states that they agree with
the prior links. `ledger` is history: what was granted, lent, spent, delivered or
dropped for each finite count. A sender predicate is the set of actors it admits;
that a restricted predicate refuses everyone, because of its calling convention,
is modelled as the code has it.

### Promises

Behaviours start when `promise/new` returns. The nanny, the senders that hold the
CURL, and the waiters step separately; `promise/keep!` takes three steps in the
order of the code. `value`, `kept`, `ruined` and `semaphore` are the fields of the
promise. The locative's deadline counts from `promise/new` and the nanny's timer
from the start of its thread, so the first is never the later. The send's check
and charge are one step, which `ImplementsAccounts` justifies.

### Curls

Between the tests of a locative and the return of the serializer there are four
steps, `Lookup`, `Insert`, `Notify` and `Return`; the reaper's are `Enroll`,
`Enrolled`, `Timeout`, `Reap` and `Reaped`. `EXPORTS` and `DURABLES` differ only
in the type of key and are one set. `usable` stands for the conditions a locative
loses for good (revoked, exhausted, dead actor). `wire` is history.
`REAPINGS`, which nothing reads, is left out.

### Connections

Both islands run the same actions. A `thread` is a connecting thread that becomes
an output thread, or an output thread of the accepter; a `conn` holds what is
under way to both ends, the two input threads and the two control channels.
`hash-has-key?` and the `hash-ref` that follows are two steps; the section between
`start-atomic` and `end-atomic` is one, since `ffi/unsafe/atomic` stops thread
switches. The start of the accepter's threads and their registration are two
steps. The network refuses attempts (`DialFails`), resets connections (`Reset`)
and loses what is under way; an island may crash and start again (`Crash`).
Encryption and compression do not change any of this and are left out, as is
`connects-i`, which is written and never read.

### Root

`main` follows the main thread through `listen-on/make-root` and
`actor/jumpstart`, `root` the root's thread through `actor/shrinkwrap` and
`my-root-loop` of `apps/coastcast/startup.rkt`. `inbox` is the root's mailbox, a
sequence, `mail` those of the actors. A pass of the loop is one action per clause
of its `match`: `Spawn` and `SpawnFails` (a body that `eval-actor` refuses),
`Forward` and `ForwardPublic`. Nothing else changes what these clauses read while
they run, except that a locative stops being usable or a thread ends just before
or just after the send. A locative that is no longer usable (`Spoil`) stays so;
how that comes about is in `Locatives`. The user interface's channel, whose events
the loop discards, and the metadata are left out; the diagram is in `Diagram`. `sent` and `arrived`
are history.

### Coastcast

`relay` is the encoder-side relay of `motiles.rkt` with its mailbox and the islands
it has forward relays on (`relays`), `forward[i]` the forward relay of island `i`,
`decoder[d]` a decoder with its label, the CURLs it holds and the last frame it has
decoded, `gui` the GUI controllers, `current` and `readlock` the registry of
`envs.rkt`. A clause of a loop is one action, and a wait ends it: the relay's
`AddCURL` clause is `RelayAdd`, or `DeployForward` and then `Deployed` or
`DeployFails`. `get-current-gui-curl` is three steps, because `readlock` is a
variable that `reset-current-gui-curl!` sets: a reader holds on to the semaphore it
found (`Enter`), takes its token (`Take`), and reads and posts (`Read`). The assignment
and the post of `set-current-gui-curl!` are two steps (`Register`, `Post`), as are
those of the reset (`Clear`, `Reset`). `Dismiss` is the `RemoveCURL` clause of the GUI's
controller (286), for a flow whose window the user closes (`gui.rkt:291`). A decoder that moves is a new actor with a new
CURL: `life` tells them apart, and what is sent to an earlier life is dropped. A
send puts its message into the receiver's mailbox at once; `Root` and `Connections`
have the way there. What is kept of a frame is its number.

### Diagram

`nodes` and `edges` are the two tables of `startup.rkt`, `thread[t].pc` what the root
and each actor are doing. An instrumented send is `Aim` (the test for the other
island's node), `NameIsland` (`hash-set!`), `TellIsland` (`ui-send!`), and then the three
steps of `add-new-edge`: `Link` (its tests), `Connect` (it makes the edge of the nodes in
the table and puts it there, 54-58) and `Draw` (`ui-send!` of that edge). The key of an
edge holds its sender, so nobody else writes it in between; the nodes of its ends, and the
pages, may change. `out` and `posts` are the session; `conn[p]`, `mail[p]` the thread that
serves page `p` and its mailbox; `page[p]` what the page's graph holds: nodes with a
label, nodes that came with an edge and have none, and the edges drawn. A node is
identified by its key and its maker, since two actors may make one each for the same
island.

The session's address may be opened in several tabs (`Load`), which are open at the same
time. Each connection's thread looks whether the session is served (`Look`) and takes it
(`Claim`) in two steps, waits for the greeting and posts (`Greet`). `Lose` stands for a
page that is closed and for a connection cut after an hour; a page closed while its thread waits
for the greeting may have sent it before, and is then still reported ready.

## Runs

| run | question | bounds |
|---|---|---|
| `locatives_safety` | attenuation, acceptance while live, every call returns | 2 actors, 3 locatives, one tick, expirations 1 and infinite, counts of 1, restricted senders |
| `locatives_budget` | types, conservation, no amplification in a subtree, refinement of `SendAccounts` | 2 actors, 4 locatives, counts 1, 2 and shared, no expiration |
| `promises` | one resolution, agreeing waiters, refinement of `PromiseCell`, progress | 2 senders, 2 waiters, 2 values, a malformed message, patience 1 and 2 |
| `curls_exports` | live CURLs resolve, none forgotten, expired locatives leave the table | 2 actors, one locative that expires, one that never does |
| `connections_delivered` | everything arrives, entries are live threads | 3 messages from both islands, 2 refusals, 2 tries, no faults |
| `connections_exits` | halves exit together, at most once | a message each way, a refusal, 1 try, a reset or a crash |
| `root_forward` | handled once, in order, and in the end | 3 spawn requests, one of them faulty, 4 messages: two from other islands and one from here for one actor, one for the public CURL |
| `coastcast_flow` | frames in order and once, own subscriptions only, subscriptions removed, requests granted, moves complete, GUIs found | 2 decoders, each of which may be dismissed, 2 islands, a GUI on one, 2 frames, one GUI closed or moved |
| `diagram_shown` | types, blank nodes only by the race, edges once over all pages and in the end, the root goes on | 2 actors and another island both send to, a promise, 2 tabs that may both claim the session, one of which may be closed |

Two actors show every race between two calls, and `ATOMIC` has no other state
than its count. Three locatives make a chain of two derivations and a pair of
siblings; four, in the budget run, make a chain that mixes shared and own counts.
Counts of 1 and 2 reach 0. Two islands are all a table entry is about; two
threads per island are what a simultaneous connect needs, and the bounds on
threads and connections leave room for those that replace them. Two deliveries
for one actor are what an order takes; a message between actors and the delivery
that goes round mix with them. In `coastcast_flow` two decoders on one or two
islands are what makes two subscriptions of one relay, or two relays; one GUI that
moves makes two controllers and two semaphores. Two frames are a pair that can be
out of order; the invariants are proved for any number of frames, decoders, islands and
moves. In `diagram_shown` two actors race
for the node of one island, and two pages for one session. A third tab, two closed ones,
and a send from one actor to the other each make the space too large to check with the
other actor's race in it; they were checked apart, with one actor or one page.

`CHECK_DEADLOCK` is off because all of these systems stop: calls are bounded by
the identities or messages left, actors terminate, and the clock ends.

### Where the code does not do what it says

Each of these runs checks one statement of a comment and finds it violated.

| run | what happens |
|---|---|
| `locatives_noexpiry` | an expiration of #f makes the next use of the locative raise inside `ATOMIC` (213, 384); all sends on the island block |
| `connections_entries` | an unhandled exception in the handshake leaves the entry of a dead thread (`tcp-peer.rkt:114`) |
| `root_deaf` | a delivery that comes in before the root's jumpstart ends the root (`jumpstart.rkt:199`, `framework.rkt:117`) |

The models have more of this kind that no run is spent on. The CURL of a locative
that never expires is exported with an infinite expiration, and `curl/ok?`
(`curl.rkt:195`) refuses it on every island, although the comment at 90 calls it
suitable for serialization. `DeployFails`: the `cond` at `motiles.rkt:109` has one
clause, whose three forms are evaluated in turn; when the forward relay is not up
within a second, `curl/send` raises on what is no CURL and the encoder's relay ends,
although the comment at 116 has the relay go on and tell the subscriber.
`BlankByRace`: the comment at `startup.rkt:105` makes sure that the
other island has a node on the diagram, but an actor that finds it in the table
before the one that made it has sent it draws an edge to a node without a label, and the label
that follows is ignored (`dracula_graph.js:70`). The readiness of a session is
"posted once" (`ws.rkt:325`) unless two tabs find it unserved and both claim it (305): then
each posts it, and `posts` reaches 2. With two GUI controllers on one island, a reset by
either keeps later decoders waiting although the other is up. `RaisesOnSends`: the
recursion of `locative/sends/restrict?` (360) passes one argument where it takes
two, and raises inside `ATOMIC` as an expiration of #f does. `SenderAllowed`: a
sender predicate that has been restricted refuses every sender
(`locative.rkt:378`), although the comments at 328 and 375 promise otherwise.
`Revoke`: the comment at `locative.rkt:546` lets the chieftain of the actor revoke
too, but the code reads the chieftain and the thread from the wrong record, and
only the actor itself can. `EntriesActive` also
fails when the accepter registers an output thread that has died since it started
(`tcp-peer.rkt:172`). Two actors that serialize CURLs on one locative at once
enroll it twice with the reaper (`serialize.rkt:483`), which counts it twice.
`curl/send` does not look at the expiration of a CURL, only at its locative's
(`send.rkt:52`).

The callers in the repository pass numbers as expirations and do not derive from
locatives that share a count, so `locatives_noexpiry` is reached only by new callers;
the passing runs keep #f expirations where the property is about safety and leave
them out of the run on liveness.

## Fairness

Racket time-slices its threads, so every runnable thread gets to run: weak
fairness of a thread's steps. Its semaphores are fair, so a thread blocked on a
semaphore that is posted again and again is released: strong fairness of
`StartAtomic` and of `Take`. Time passes: weak fairness of `Tick` where a timer
matters. The root's thread handles what is in its mailbox: weak fairness of
`Handle`. In `Coastcast` the threads of relays, decoders and controllers run, and a
decoder blocked on a semaphore that is posted again and again gets it (strong
fairness of `Take`); in `Diagram` the root, the actors inside an
instrumented send and the serving threads run, and the browser loads the page it was sent to
once (later tabs are the user's choice). Nothing is assumed of the user interface becoming ready in `Root`, of the
camera, the user (who closes, moves and dismisses), the timeout of a deployment, of the calls that actors are free to make, nor of refusals, resets and crashes.

## Proofs

The theorems hold for all constants that satisfy the module's named assumption, and for
behaviours of every length. The assumptions (`ConstantsAssumption`,
`PromisesAssumption`, `CurlsAssumption`, `ConnectionsAssumption`, `RootAssumption`,
`DiagramAssumption`, `CoastcastAssumption`) say that numbers are natural, that sets
of identities do not overlap and that `None` and `Inf` are in none of them; the
decoders and islands of `Coastcast` and the actors and islands of `Diagram` are finitely
many, and the islands of `Connections` are the two ends of one pair. TLC evaluates each of
them on the runs of its module.

### Locatives

The proofs rest on `Inv` (module `LocativesProofs`), the conjunction of `TypeOK`
and

* `CallInv`: what the label of a thread says about its call;
* `LockInv`: a thread inside `ATOMIC` is alone there, and the count is 0;
* `TreeInv`: every locative has a counter, which has a count of its own;
* `CheckedInv`: what a thread has checked inside `ATOMIC` is true until it acts;
* `AccountInv`: granted = left + lent + spent for each finite count.

`TypeOK` alone is not inductive: that `Charge` and `Rest` stay above zero depends
on checks made some steps before, which stay true only because nobody else is
inside `ATOMIC`. `LockInv` gives that (lemma `SendsKept`), `CheckedInv` records
the checks, and `AccountInv` connects a count with its history.

| theorem | says | beyond `Inv` |
|---|---|---|
| `TypeCorrect` | `Spec => []TypeOK` | |
| `AttenuationHolds` | `Spec => []Attenuation` | inductive with `Inv` |
| `AcceptanceHolds` | `Spec => []AcceptedWhileLive` | `LiveInv`, `Attenuation` |
| `BudgetHolds` | `Spec => []BudgetConserved` | `FlightInv`: spent = delivered + dropped + in flight |
| `SubtreeHolds` | `Spec => []SubtreeWithinGrant` | `Attenuation`, `SubtreeInv` |
| `LocativesImplementAccounts` | `Spec => ImplementsAccounts` | one step of `Locatives` is one of `SendAccounts` or a stutter |

`SubtreeWithinGrant` adds up the sends of any number of locatives. The sum is the
cardinality of a set with one element for each send, and `SubtreeInv` has one token
for each send that a locative of the subtree was granted and has not lent: there are as
many as were granted to its top. Paying changes no token (lemma `LedgerStep`); a
derivation turns tokens of the superior into tokens of the new locative, one by one, and
both are in the same subtrees (`TokensMove` gives the bijection). That no locative below
a finite one is unlimited is part of the invariant.

### Promises

The properties are inductive only with what the label of the nanny says about the
promise (`NannyInv`), and with the whereabouts of the one message: one sender at
most is engaged once `sends` is 0 (`SenderInv`), the message in the mailbox or in
the nanny's hands is that sender's (`LetterInv`), and one that came in time is
still waiting, received, or kept (`EarlyInv`: the timer cannot fire while the
mailbox holds it). `TokenInv` says who has the semaphore's token, without counting,
and `AnswerInv` what a waiter has read but not yet returned.

| theorem | says |
|---|---|
| `PromisesTypeCorrect` | `Spec => []TypeOK` |
| `OneResolverHolds` | `Spec => []OneResolver` |
| `AnswersHold` | `Spec => []AnswersAgree` |
| `EarlyResolutionHolds` | `Spec => []EarlyResolutionStands` |
| `TurnstileHolds` | `Spec => []Turnstile` |
| `PromisesImplementCell` | `Spec => ImplementsCell`: every step is one of `PromiseCell` or a stutter |

### Curls

`TypeOK`, `ResolvesWhileLive` and `NoneForgotten` are inductive together with
`ActorInv`: an actor that has found or inserted its locative still has it in
`EXPORTS`, unless it has expired. Lemma `ExportsKept` is the heart of it: no step
takes an unexpired locative out of the table. The theorems are
`CurlsTypeCorrect`, `ResolutionHolds` and `NoneForgottenHolds`.

### Root

`HandledOnce` counts; `PlaceInv` says the same of positions: no two positions of one
queue hold the same message, no message is in the root's mailbox and an actor's,
and what is in either was sent (so that a fresh message is nowhere). `InOrder` needs
`OrderInv`, which also compares the deliveries that are still in the root's mailbox
with one another and with those that have reached the actor. The deliveries on the
public CURL are left out of it: they go round, and their order is not kept. The
theorems are `RootTypeCorrect`, `HandledOnceHolds` and `InOrderHolds`.

### Connections

`AtMostOnce` speaks of what was received; its invariant, `PlaceInv`, speaks of every
queue a message can be in: sendmaster's mailbox, sendmaster itself, a thread's
mailbox, a wire, and what was received. A message is at one position of one queue,
and a queue holds messages of one source only. It is proved over queues in
general: a step moves the head of one queue to the end of another (`PlacedMove`),
loses messages (`PlacedDrop`) or adds a fresh one (`PlacedAdd`), and there is one
lemma per action that says which. `EntryInv` is needed with it: the entry of an
island is a thread of that island, or a message would leave from the wrong one.

`ActiveUntilFailure` is inductive with `CalmInv`: before the first reset or crash
both ends of every connection are open, for the end of the dialing thread is its
own and the other goes from the backlog to the accepter to an input thread. Hence no
handshake and no i/o thread fails (`NoFailure`), and a thread can only end by giving
up, when it takes its entry away.

| theorem | says |
|---|---|
| `ConnectionsTypeCorrect` | `Spec => []TypeOK` |
| `AtMostOnceHolds` | `Spec => []AtMostOnce` |
| `ActiveUntilFailureHolds` | `Spec => []ActiveUntilFailure` |

### Diagram

`DrawnOnce` compares what the pages have drawn. Its invariant, `OnceInv`, also has the
edges in the mailboxes of the session's threads: an edge is in one place, and it is in the
table; an actor that has passed the tests and not yet written has no edge in the table,
and one that has written and not yet sent finds its edge nowhere.

`BlankByRace` says of a page's graph what `MailOrder` says of its mailbox: the diagram
comes before all else, and a node before the edges that end there, unless another actor
than the one that made the node has sent to that island. It needs to know where a node
is that an actor finds in the table (`ServedInv`: on the page, in its mailbox, or with the
actor that made it), what the label of an actor says about its receiver (`AimInv`), and
who made which node (`NodesInv`). Several pages may have claimed the session, and the
mails go to the thread of the last. So `MailOrder` and `ServedInv` are about a page that gets, or has
got, the diagram; `UnsentInv` says that a page that has not claimed the session has no
mail and shows nothing, and that nothing is sent before the diagram; and `SessionInv`
that `out` is a page that has claimed the session, and that only a lost page's thread ends.

| theorem | says |
|---|---|
| `DiagramTypeCorrect` | `Spec => []TypeOK` |
| `DrawnOnceHolds` | `Spec => []DrawnOnce` |
| `BlankByRaceHolds` | `Spec => []BlankByRace` |

### Coastcast

The invariant follows a subscription and a frame through the relays.

* `RelayInv`: an island without a forward relay has nothing, and subscriptions are
  finitely many (a frame is copied once for each).
* `AskInv`: a request to subscribe is in one mailbox, or with the relay that waits for a
  deployment, and the decoder that made it waits for the answer.
* `HoldInv`: identifiers are not used twice on an island; a decoder in its loop has its
  own subscription there and no other; a removal that is under way is not of one that a
  decoder still holds.
* `StreamInv`: there are numbers `r`, `f[i]` and `l[d]`, the last frames that the relay
  has passed on, that the forward relay of island `i` has, and that decoder `d` has
  decoded, such that each mailbox holds the frames between the number of its receiver and
  that of its sender, each once and in order; a decoder that is not in its loop has none.

`StreamInv` alone is not inductive: a frame sent twice to one decoder, or to one whose
subscription is not its own, breaks it, and `HoldInv` excludes that, for which `AskInv`
says that a decoder is subscribed once. The lemmas are per action and per part
(`AskInvForward`, `HoldInvDecoder`, ...), over lemmas about what appending to a mailbox or taking
from it does (`AppendFrame`, `TailFrame`, `TailAsks`, ...).

| theorem | says |
|---|---|
| `CoastcastTypeCorrect` | `Spec => []TypeOK` |
| `OwnSubscriptionHolds` | `Spec => []OwnSubscription` |
| `FramesContinuousHolds` | `Spec => []FramesContinuous` |

### Only model-checked

Everything about liveness: `CallsReturn`, `Resolved`, `WaitersReturn`, `ExportsDrain`,
`Delivered`, `ExitTogether`, `Served`, `Cancelled`, `Granted`, `MovesComplete`, `Found`,
and `SendsShown` hold under fairness, which is beyond the provers. The
statements of comments that the code violates are refuted by TLC alone.

## Plan

Written, in this order: `Locatives` with its proofs, `Promises`, `Curls`,
`Connections`, `Root`, `Diagram`, `Coastcast`. Next:

1. `Actors`: chieftains, the whitelists of `locative/cons` and `curl/new`.
2. The persistent data structures as functions against reference definitions.
3. `Islands`: `Curls`, `Connections` and `Root` composed, a message from an actor of one
   island to an actor of the other and the reply.

## Not modelled

The compiler and the code generator (they compute values, and nothing changes
state at run time), the wire format of values other than CURLs, signatures and
cryptography, foreign bindings, the windows, and `old/`.
The protocols of `peer/src/net/scurl` (peer validation, revocation, secure sessions) and
their lists of programs are used by their own tests only; the handshake that
connections do use, in `encryption.rkt`, is one exchange of keys, and
`Connections` has its success and its failures.
Of coastcast, what controls the encoder and the effects is passed on from hand to
hand and left out, with copies of decoders and picture-in-picture; of the browser interface, charts,
buttons, menus and canvases, which only `ui/example.rkt` sends, and the framing of WebSocket messages.
Killing threads and waiters that die between `semaphore-wait` and
`semaphore-post` are left out: no code under `Motile` and `peer` does either.
A peer that connects and then neither answers nor fails is left out as well.
