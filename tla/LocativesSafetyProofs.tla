------------------------ MODULE LocativesSafetyProofs ------------------------
(****************************************************************************)
(* The safety properties of Locatives, from the invariant Inv of            *)
(* LocativesProofs: attenuation; acceptance of live locatives only;         *)
(* conservation of the sends granted to a finite count, which are held,     *)
(* lent, delivered, dropped at a dead thread or on their way; and that the  *)
(* step-by-step handling of these counts under ATOMIC has the behaviours of *)
(* SendAccounts' atomic accounts only.                                      *)
(****************************************************************************)
EXTENDS LocativesProofs

-----------------------------------------------------------------------------
(* Attenuation.                                                             *)

\* Expiring no later is transitive, for #f, times and +inf.0.
LEMMA NoLaterTransitive ==
    ASSUME NEW e \in Deadline, NEW f \in Deadline, NEW g \in Deadline,
           NoLater(e, f), NoLater(f, g)
    PROVE  NoLater(e, g)
  BY ConstantsAssumption DEF NoLater, Leq, Deadline

\* Expiring no later is reflexive.
LEMMA NoLaterReflexive ==
    ASSUME NEW e \in Deadline
    PROVE  NoLater(e, e)
  BY ConstantsAssumption DEF NoLater, Leq, Deadline

\* The primal locatives have nothing above them (locative/unrestricted/new).
LEMMA AttenuationInit == Init => Attenuation
  BY ConstantsAssumption DEF Init, Attenuation, Unrestricted, Made, PrimalOwner,
     PrimalLocatives

\* A new locative is below its prior, and the fields that attenuation is about
\* never change afterwards (locative/cons/any).
LEMMA AttenuationStep ==
    ASSUME Inv, Attenuation, [Next]_vars
    PROVE  Attenuation'
  <1>0. /\ Frame /\ CheckedInv
        /\ loc \in [Made -> Locative]
        /\ \A x \in Made : loc[x] \in Locative /\ loc[x].expires \in Deadline
    BY FrameStep DEF Inv, TypeOK, Locative
  <1> DEFINE Below(x) ==
        /\ loc'[x].prior = None =>
              loc'[x].superiors = {} /\ loc'[x].counter = x
        /\ loc'[x].prior # None =>
              /\ loc'[x].prior \in Made'
              /\ loc'[x].superiors =
                    {loc'[x].prior} \cup loc'[loc'[x].prior].superiors
        /\ \A y \in loc'[x].superiors :
              /\ y \in Made'
              /\ loc'[x].actor = loc'[y].actor
              /\ NoLater(loc'[x].expires, loc'[y].expires)
              /\ loc'[x].senders \subseteq loc'[y].senders
  <1>1. (\A x \in Made' : Below(x)) => Attenuation'
    BY DEF Attenuation, NoLater, Leq
  <1>2. ASSUME NEW x \in Made
        PROVE  Below(x)
    BY <1>0 DEF Attenuation, Frame, Kept, SameShape
  <1>3. ASSUME NEW y \in Made' \ Made
        PROVE  Below(y)
    <2>1. PICK t \in Actors : ConsDerive(t, y)
      BY <1>0 DEF Frame
    <2> DEFINE x == call[t].x
               e == call[t].expires
    <2>2. y \in Locatives
      BY <1>0 DEF Frame
    <2>3. x \in Made /\ loc'[y] = Derived(x, y, call[t])
      BY <2>1, <2>2, DeriveKeeps
    <2>4. /\ loc'[y].prior = x
          /\ loc'[y].superiors = {x} \cup loc[x].superiors
          /\ loc'[y].actor = loc[x].actor
          /\ loc'[y].expires = e
          /\ loc'[y].senders \subseteq loc[x].senders
      BY <2>3 DEF Derived
    <2>5. MayExpireAt(x, e) /\ ~RaisesOnExpires(x, e) /\ e \in Deadline
      BY <2>1 DEF ConsDerive, Inv, CheckedInv, TypeOK, Call
    <2>6. NoLater(e, loc[x].expires)
      BY <2>5 DEF MayExpireAt, RaisesOnExpires, NoLater
    <2>7. ASSUME NEW z \in loc[x].superiors
          PROVE  /\ z \in Made /\ loc[x].actor = loc[z].actor
                 /\ NoLater(e, loc[z].expires)
                 /\ loc[x].senders \subseteq loc[z].senders
      <3>1. /\ z \in Made /\ loc[x].actor = loc[z].actor
            /\ NoLater(loc[x].expires, loc[z].expires)
            /\ loc[x].senders \subseteq loc[z].senders
        BY <2>3 DEF Attenuation
      <3> QED
        BY <1>0, <2>3, <2>5, <2>6, <3>1, NoLaterTransitive
    <2>8. x # None
      BY <2>3, ConstantsAssumption DEF Inv, TypeOK
    <2>9. \A z \in Made : SameShape(loc[z], loc'[z]) /\ z \in Made'
      BY <1>0 DEF Frame, Kept
    <2> HIDE DEF x, e
    <2> QED
      BY <2>3, <2>4, <2>6, <2>7, <2>8, <2>9 DEF SameShape
  <1> QED
    BY <1>0, <1>1, <1>2, <1>3 DEF Frame

\* No derived locative ever grants more than a locative above it.
THEOREM AttenuationHolds == Spec => []Attenuation
  <1>1. Inv /\ Attenuation /\ [Next]_vars => Attenuation'
    BY AttenuationStep
  <1> QED
    BY <1>1, AttenuationInit, Invariance, PTL DEF Spec

-----------------------------------------------------------------------------
(* Acceptance.                                                              *)

\* Who moves: a step changes the label and the call of one thread at most.
LEMMA OneMoves ==
    ASSUME Inv, [Next]_vars, NEW u \in Actors, pc'[u] # pc[u] \/ call'[u] # call[u]
    PROVE  Step(u) \/ StartAtomic(u) \/ (pc'[u] = "enter" /\ Act(u))
  <1>0. pc \in [Actors -> Labels] /\ call \in [Actors -> Call]
    BY DEF Inv, TypeOK
  <1>1. ASSUME NEW t \in Actors, t # u, Act(t) \/ StartAtomic(t) \/ Step(t)
        PROVE  pc'[u] = pc[u] /\ call'[u] = call[u]
    <2>1. CASE Act(t)
      BY <1>0, <1>1, <2>1 DEF Act, LocativeSend, LocativeCons, Revoke, Exit, Goto
    <2>2. CASE StartAtomic(t)
      BY <1>0, <1>1, <2>2 DEF StartAtomic, Goto
    <2>3. CASE Step(t)
      BY <1>0, <1>1, <2>3 DEF Step, Goto, Return, SendRevoked, SendExpires, SendBudget,
            SendCharge, Deliver, ConsExpires, ConsRevoked, ConsBudget, ConsDerive, Unwind,
            EndAtomic
    <2> QED
      BY <1>1, <2>1, <2>2, <2>3
  <1>2. ASSUME Act(u)
        PROVE  pc'[u] = "enter"
    BY <1>0, <1>2 DEF Act, LocativeSend, LocativeCons, Revoke, Exit, Goto
  <1> QED
    BY <1>1, <1>2 DEF Next, vars, Tick

\* Revocation and the tree above a locative only grow.
LEMMA RevocationStays ==
    ASSUME Inv, Attenuation, [Next]_vars, NEW x \in Made, IsRevoked(x)
    PROVE  \E y \in {x} \cup loc'[x].superiors : loc'[y].revoked
  <1>1. Frame
    BY FrameStep
  <1>2. PICK y \in {x} \cup loc[x].superiors : loc[y].revoked
    BY DEF IsRevoked
  <1>3. y \in Made
    BY <1>2 DEF Attenuation
  <1>4. loc'[y].revoked /\ loc'[x].superiors = loc[x].superiors
    BY <1>1, <1>2, <1>3 DEF Frame, Kept, SameShape
  <1> QED
    BY <1>2, <1>4 DEF IsRevoked

\* No call is under way at the start.
LEMMA LiveInit == Init => LiveInv
  BY DEF Init, LiveInv, NoCall, InAtomic, CriticalLabels

\* Every step keeps what a send has learnt: revocation and time only go forward
\* between the checks of locative/sendable? and the thread-send.
LEMMA LiveStep ==
    ASSUME Inv, Attenuation, LiveInv, [Next]_vars
    PROVE  LiveInv'
  <1>0. /\ pc \in [Actors -> Labels] /\ call \in [Actors -> Call]
        /\ now \in Nat /\ Frame /\ CallInv /\ CallInv'
        /\ \A t \in Actors : pc[t] # "idle" => call[t].x \in Made
        /\ loc \in [Made -> Locative]
    BY FrameStep, CallStep DEF Inv, TypeOK
  <1> DEFINE LiveAt(t) ==
        /\ InAtomic(t) => call[t].began <= now
        /\ pc[t] = "sendRevoked" /\ ~call[t].clean => IsRevoked(call[t].x)
        /\ pc[t] \in {"sendExpires", "sendBudget", "sendCharge"} => call[t].clean
        /\ call[t].ok => call[t].clean
        /\ pc[t] \in {"sendBudget", "sendCharge"} \/ call[t].ok =>
              /\ loc[call[t].x].expires # None
              /\ \/ loc[call[t].x].expires = Inf
                 \/ call[t].began < loc[call[t].x].expires
  <1>1. /\ \A t \in Actors : LiveAt(t)
        /\ (\A t \in Actors : LiveAt(t)') => LiveInv'
    BY DEF LiveInv
  <1>2. now' \in Nat /\ now <= now'
    <2>1. CASE Tick
      BY <1>0, <2>1 DEF Tick
    <2>2. ASSUME NEW t \in Actors, Act(t) \/ StartAtomic(t)
          PROVE  now' = now
      BY <2>2 DEF Act, LocativeSend, LocativeCons, Revoke, Exit, StartAtomic
    <2>3. ASSUME NEW t \in Actors, Step(t)
          PROVE  now' = now
      BY <2>3 DEF Step, SendRevoked, SendExpires, SendBudget, SendCharge, Deliver,
            ConsExpires, ConsRevoked, ConsBudget, ConsDerive, Unwind, EndAtomic
    <2> QED
      BY <1>0, <2>1, <2>2, <2>3 DEF Next, vars
  <1>3. ASSUME NEW u \in Actors, call'[u] = call[u], pc'[u] = pc[u]
        PROVE  LiveAt(u)'
    <2> DEFINE x == call[u].x
    <2>1. LiveAt(u)
      BY <1>1
    <2>2. pc[u] # "idle" \/ call[u].ok => x \in Made
      BY <1>0 DEF CallInv, NoCall
    <2>3. x \in Made => loc'[x].expires = loc[x].expires
      BY <1>0 DEF Frame, Kept, SameShape
    <2>6. x \in Made /\ IsRevoked(x) =>
             \E y \in {x} \cup loc'[x].superiors : loc'[y].revoked
      BY RevocationStays
    <2>4. call[u].began \in Nat
      BY <1>0 DEF Call
    <2>5. InAtomic(u) => call[u].began <= now'
      BY <1>0, <1>2, <2>1, <2>4
    <2> QED
      BY <1>3, <2>1, <2>2, <2>3, <2>5, <2>6 DEF InAtomic, IsRevoked, CriticalLabels, Labels
  <1>4. ASSUME NEW u \in Actors, StartAtomic(u)
        PROVE  LiveAt(u)'
    <2>1. /\ pc'[u] \in {"sendRevoked", "consExpires"} /\ pc[u] = "enter"
          /\ call'[u] = [call[u] EXCEPT !.began = now, !.clean = ~IsRevoked(call[u].x)]
          /\ UNCHANGED <<loc, now>>
      BY <1>0, <1>4 DEF StartAtomic, Goto
    <2>2. /\ call'[u].began = now /\ call'[u].x = call[u].x
          /\ call'[u].clean = ~IsRevoked(call[u].x) /\ ~call'[u].ok
      BY <1>0, <2>1 DEF Call, CallInv
    <2>3. ~call[u].clean' => \E y \in {call[u].x} \cup loc[call[u].x].superiors : loc[y].revoked
      BY <2>1, <2>2 DEF IsRevoked
    <2>4. /\ InAtomic(u)' => call'[u].began <= now'
          /\ pc'[u] = "sendRevoked" /\ ~call'[u].clean => IsRevoked(call[u].x)'
      BY <1>0, <2>1, <2>2, <2>3 DEF IsRevoked
    <2> QED
      BY <2>1, <2>2, <2>4 DEF IsRevoked
  <1>5. ASSUME NEW u \in Actors, pc'[u] \in {"idle", "enter"}
        PROVE  LiveAt(u)'
    BY <1>0, <1>5 DEF CallInv, InAtomic, CriticalLabels
  <1>6. ASSUME NEW u \in Actors, Step(u), pc'[u] # "idle"
        PROVE  LiveAt(u)'
    <2> DEFINE x == call[u].x
    <2>0. /\ LiveAt(u) /\ x \in Made /\ now' = now /\ call[u].began \in Nat
          /\ loc'[x].expires = loc[x].expires /\ loc[x].expires \in Deadline
      <3>1. pc[u] # "idle" /\ now' = now
        BY <1>6 DEF Step, SendRevoked, SendExpires, SendBudget, SendCharge, Deliver,
              ConsExpires, ConsRevoked, ConsBudget, ConsDerive, Unwind, EndAtomic
      <3> QED
        BY <1>0, <1>1, <3>1 DEF Frame, Kept, SameShape, Call, Locative
    <2>1. CASE SendRevoked(u)
      <3>1. /\ pc[u] = "sendRevoked" /\ UNCHANGED call
            /\ pc'[u] = IF IsRevoked(x) THEN "leave" ELSE "sendExpires"
        BY <1>0, <2>1 DEF SendRevoked, Goto
      <3> QED
        BY <1>0, <2>0, <3>1 DEF InAtomic, CriticalLabels, Labels, CallInv
    <2>2. CASE SendExpires(u)
      <3>1. /\ pc[u] = "sendExpires" /\ UNCHANGED <<call, loc>>
            /\ pc'[u] \in {"raised", "leave", "sendBudget"}
            /\ pc'[u] = "sendBudget" => loc[x].expires # None /\ Unexpired(x)
        BY <1>0, <2>2 DEF SendExpires, Goto
      <3>2. pc'[u] = "sendBudget" =>
              loc[x].expires = Inf \/ call[u].began < loc[x].expires
        BY <1>0, <2>0, <3>1 DEF Unexpired, InAtomic, CriticalLabels, Labels, Deadline
      <3> QED
        BY <1>0, <2>0, <3>1, <3>2 DEF InAtomic, CriticalLabels, Labels, CallInv
    <2>3. CASE SendBudget(u)
      <3>1. /\ pc[u] = "sendBudget" /\ UNCHANGED <<call, loc>>
            /\ pc'[u] \in {"leave", "sendCharge"}
        BY <1>0, <2>3 DEF SendBudget, Goto
      <3> QED
        BY <1>0, <2>0, <3>1 DEF InAtomic, CriticalLabels, Labels, CallInv
    <2>4. CASE SendCharge(u)
      <3>1. /\ pc[u] = "sendCharge" /\ pc'[u] = "leave"
            /\ call'[u] = [call[u] EXCEPT !.ok = TRUE]
        BY <1>0, <2>4 DEF SendCharge, Goto
      <3>2. /\ call'[u].began = call[u].began /\ call'[u].x = x
            /\ call'[u].clean = call[u].clean
        BY <1>0, <3>1 DEF Call
      <3> QED
        BY <1>0, <2>0, <3>1, <3>2 DEF InAtomic, CriticalLabels, Labels
    <2>5. CASE ConsExpires(u) \/ ConsRevoked(u) \/ ConsBudget(u)
               \/ \E y \in Locatives : ConsDerive(u, y)
      <3>1. /\ pc[u] \in ConsLabels /\ UNCHANGED call
            /\ pc'[u] \in ConsLabels \cup {"leave", "raised"}
        BY <1>0, <2>5 DEF ConsExpires, ConsRevoked, ConsBudget, ConsDerive, Goto, ConsLabels
      <3> QED
        BY <1>0, <2>0, <3>1 DEF InAtomic, CriticalLabels, Labels, CallInv, ConsLabels
    <2>6. CASE EndAtomic(u)
      <3>1. pc[u] = "leave" /\ pc'[u] = "deliver" /\ UNCHANGED <<call, loc>>
        BY <1>0, <1>6, <2>6 DEF EndAtomic, Goto, Return
      <3> QED
        BY <1>0, <2>0, <3>1 DEF InAtomic, CriticalLabels, Labels
    <2>7. CASE Deliver(u) \/ Unwind(u)
      BY <1>0, <1>6, <2>7 DEF Deliver, Unwind, Return, Goto
    <2> QED
      BY <1>6, <2>1, <2>2, <2>3, <2>4, <2>5, <2>6, <2>7 DEF Step
  <1> HIDE DEF LiveAt
  <1> QED
    BY <1>1, <1>3, <1>4, <1>5, <1>6, OneMoves

\* No message is accepted by a call that began when the locative, or any
\* locative above it, was revoked or expired.
THEOREM AcceptanceHolds == Spec => []AcceptedWhileLive
  <1>1. Inv /\ Attenuation /\ LiveInv => AcceptedWhileLive
    <2> SUFFICES ASSUME Inv, Attenuation, LiveInv, NEW t \in Actors, call[t].ok,
                        NEW y \in {call[t].x} \cup loc[call[t].x].superiors
                 PROVE  /\ call[t].clean
                        /\ loc[y].expires = Inf \/ call[t].began < loc[y].expires
      BY DEF AcceptedWhileLive
    <2> DEFINE x == call[t].x
    <2>1. x \in Made /\ loc[x] \in Locative /\ call[t].began \in Nat
      BY DEF Inv, CallInv, TypeOK, Call
    <2>2. /\ call[t].clean /\ loc[x].expires # None
          /\ loc[x].expires = Inf \/ call[t].began < loc[x].expires
      BY DEF LiveInv
    <2>3. y \in Made /\ (y = x \/ NoLater(loc[x].expires, loc[y].expires))
      BY <2>1 DEF Attenuation
    <2>4. loc[y].expires \in Deadline /\ loc[x].expires \in Deadline
      BY <2>1, <2>3 DEF Inv, TypeOK, Locative
    <2> HIDE DEF x
    <2>5. loc[y].expires = Inf \/ call[t].began < loc[y].expires
      BY <2>1, <2>2, <2>3, <2>4, ConstantsAssumption DEF NoLater, Leq, Deadline
    <2> QED
      BY <2>2, <2>5
  <1>2. Inv /\ Attenuation /\ LiveInv /\ [Next]_vars => LiveInv'
    BY LiveStep
  <1> QED
    BY <1>1, <1>2, LiveInit, AttenuationHolds, Invariance, PTL DEF Spec

-----------------------------------------------------------------------------
(* Conservation of sends.                                                   *)

\* The outcome of its call that a thread changes in a step.
SameOutcome(t) ==
    /\ call'[t].ok = call[t].ok
    /\ call[t].ok => call'[t].x = call[t].x

\* The messages in flight are those of the calls whose outcome is "accepted".
LEMMA InFlightIsOk ==
    ASSUME CallInv, NEW c
    PROVE  InFlight(c) = {t \in Actors : call[t].ok /\ loc[call[t].x].counter = c}
  BY DEF CallInv, InFlight

\* Only the threads of the island can have a message in flight.
LEMMA InFlightFinite ==
    ASSUME NEW c
    PROVE  IsFiniteSet(InFlight(c)) /\ Cardinality(InFlight(c)) \in Nat
  BY ConstantsAssumption, FS_Subset, FS_CardinalityType DEF InFlight

\* Nothing is spent and nothing is in flight when the actors are made (actor/new).
LEMMA FlightInit == Init => FlightInv
  BY ConstantsAssumption DEF Init, FlightInv, Finite, NewAccount, Made

\* The outcome of a call changes only when it is accepted and when its message
\* is sent.
LEMMA OutcomeStep ==
    ASSUME Inv, [Next]_vars
    PROVE  \/ \A t \in Actors : SameOutcome(t)
           \/ \E t \in Actors : SendCharge(t) \/ Deliver(t)
  <1>0. /\ pc \in [Actors -> Labels] /\ call \in [Actors -> Call] /\ CallInv
    BY DEF Inv, TypeOK
  <1>1. ASSUME UNCHANGED call
        PROVE  \A u \in Actors : SameOutcome(u)
    BY <1>1 DEF SameOutcome
  <1>2. ASSUME NEW t \in Actors, NEW r \in Call, call' = [call EXCEPT ![t] = r],
               ~call[t].ok, ~r.ok
        PROVE  \A u \in Actors : SameOutcome(u)
    <2>1. ASSUME NEW u \in Actors
          PROVE  SameOutcome(u)
      <3>1. CASE u = t
        <4>1. call'[u] = r
          BY <1>0, <1>2, <3>1
        <4>2. call'[u].ok = call[u].ok
          <5>1. call[u].ok \in BOOLEAN /\ call'[u].ok \in BOOLEAN
            BY <1>0, <1>2, <4>1 DEF Call
          <5> QED
            BY <1>2, <3>1, <4>1, <5>1
        <4> QED
          BY <1>2, <3>1, <4>2 DEF SameOutcome
      <3>2. CASE u # t
        BY <1>0, <1>2, <3>2 DEF SameOutcome
      <3> QED
        BY <3>1, <3>2
    <2> QED
      BY <2>1
  <1>3. NoCall \in Call /\ ~NoCall.ok
    BY DEF NoCall, Call, Deadline, Count
  <1>4. ASSUME NEW t \in Actors, Act(t)
        PROVE  \A u \in Actors : SameOutcome(u)
    <2>1. ASSUME NEW x \in Made, LocativeSend(t, x)
          PROVE  \A u \in Actors : SameOutcome(u)
      <3>1. [NoCall EXCEPT !.op = "send", !.x = x] \in Call
        BY <1>3 DEF Call, Inv, TypeOK
      <3>2. ~[NoCall EXCEPT !.op = "send", !.x = x].ok
        BY DEF NoCall
      <3>3. ~call[t].ok
        BY <1>0, <1>3, <2>1 DEF LocativeSend, Idle, CallInv
      <3> QED
        BY <1>2, <2>1, <3>1, <3>2, <3>3 DEF LocativeSend
    <2>2. ASSUME NEW x \in Made, NEW e \in ExpiresArgs, NEW n \in SendsArgs,
                 NEW q \in SendersArgs, LocativeCons(t, x, e, n, q)
          PROVE  \A u \in Actors : SameOutcome(u)
      <3> DEFINE r == [NoCall EXCEPT !.op = "cons", !.x = x, !.expires = e,
                                     !.sends = n, !.senders = q]
      <3>1. r \in Call
        <4>1. e \in Deadline /\ n \in Count /\ q \in {None} \cup SUBSET Actors
              /\ x \in Locatives
          BY ConstantsAssumption DEF Deadline, Count, Inv, TypeOK
        <4> QED
          BY <4>1 DEF Call, NoCall
      <3>2. ~r.ok
        BY DEF NoCall
      <3>3. ~call[t].ok
        BY <1>0, <1>3, <2>2 DEF LocativeCons, Idle, CallInv
      <3>4. call' = [call EXCEPT ![t] = r]
        BY <2>2 DEF LocativeCons
      <3> HIDE DEF r
      <3> QED
        BY <1>2, <3>1, <3>2, <3>3, <3>4
    <2> QED
      BY <1>1, <1>4, <2>1, <2>2 DEF Act, Revoke, Exit
  <1>5. ASSUME NEW t \in Actors, StartAtomic(t)
        PROVE  \A u \in Actors : SameOutcome(u)
    <2> DEFINE r == [call[t] EXCEPT !.began = now, !.clean = ~IsRevoked(call[t].x)]
    <2>1. now \in Nat /\ call[t] \in Call
      BY <1>0 DEF Inv, TypeOK
    <2>2. ~call[t].ok
      BY <1>0, <1>5 DEF StartAtomic, CallInv
    <2>3. r \in Call /\ ~r.ok
      BY <2>1, <2>2 DEF Call, IsRevoked
    <2>4. call' = [call EXCEPT ![t] = r]
      BY <1>0, <1>5 DEF StartAtomic
    <2> HIDE DEF r
    <2> QED
      BY <1>2, <2>2, <2>3, <2>4
  <1>6. ASSUME NEW t \in Actors, Step(t), ~SendCharge(t), ~Deliver(t)
        PROVE  \A u \in Actors : SameOutcome(u)
    <2>1. CASE EndAtomic(t)
      <3>1. CASE call[t].op = "send" /\ call[t].ok
        BY <1>1, <2>1, <3>1 DEF EndAtomic
      <3>2. CASE ~(call[t].op = "send" /\ call[t].ok)
        <4>1. ~call[t].ok /\ call' = [call EXCEPT ![t] = NoCall]
          BY <1>0, <2>1, <3>2 DEF EndAtomic, Return, CallInv
        <4> QED
          BY <1>2, <1>3, <4>1
      <3> QED
        BY <3>1, <3>2
    <2>2. CASE Unwind(t)
      <3>1. ~call[t].ok /\ call' = [call EXCEPT ![t] = NoCall]
        BY <1>0, <2>2 DEF Unwind, Return, CallInv
      <3> QED
        BY <1>2, <1>3, <3>1
    <2> QED
      BY <1>1, <1>6, <2>1, <2>2 DEF Step, SendRevoked, SendExpires, SendBudget,
         ConsExpires, ConsRevoked, ConsBudget, ConsDerive
  <1> QED
    BY <1>1, <1>4, <1>5, <1>6 DEF Next, vars, Tick

\* No step spends a send without a message in flight, or delivers or drops one
\* without taking it from those in flight (locative/send).
LEMMA FlightStep ==
    ASSUME Inv, FlightInv, [Next]_vars
    PROVE  FlightInv'
  <1>0. /\ loc \in [Made -> Locative] /\ ledger \in [Made -> Account]
        /\ call \in [Actors -> Call]
        /\ CallInv /\ CallInv' /\ Frame /\ TreeInv
        /\ \A t \in Actors : call[t].ok => call[t].x \in Made
    BY FrameStep, CallStep DEF Inv, TypeOK, CallInv, NoCall
  <1> DEFINE Flying(c) == {t \in Actors : call[t].ok /\ loc[call[t].x].counter = c}
             FlyingNext(c) ==
                 {t \in Actors : call'[t].ok /\ loc'[call'[t].x].counter = c}
             Settled(c) ==
                 ledger'[c].granted \in Nat =>
                     ledger'[c].spent = ledger'[c].delivered + ledger'[c].lost
                                        + Cardinality(FlyingNext(c))
  <1>1. (\A c \in Made' : Settled(c)) => FlightInv'
    <2>1. \A c : InFlight(c)' = FlyingNext(c)
      BY <1>0 DEF CallInv, InFlight
    <2> QED
      BY <2>1 DEF FlightInv, Finite
  <1>2. ASSUME NEW c
        PROVE  IsFiniteSet(Flying(c)) /\ Cardinality(Flying(c)) \in Nat
    BY ConstantsAssumption, FS_Subset, FS_CardinalityType
  <1>3. \A c \in Made : Finite(c) =>
            ledger[c].spent = ledger[c].delivered + ledger[c].lost
                              + Cardinality(Flying(c))
    BY <1>0, InFlightIsOk DEF FlightInv
  <1>4. \A t \in Actors : call[t].ok =>
            loc'[call[t].x].counter = loc[call[t].x].counter
            /\ loc[call[t].x].counter \in Made
    BY <1>0 DEF Frame, Kept, SameShape, TreeInv
  <1>5. \A c \in Made : ledger[c] \in Account
    BY <1>0
  <1>6. ASSUME \A t \in Actors : SameOutcome(t),
               NEW c \in Made', ~\E t \in Actors : SendCharge(t) \/ Deliver(t)
        PROVE  Settled(c)
    <2>1. FlyingNext(c) = Flying(c)
      BY <1>4, <1>6 DEF SameOutcome
    <2>2. CASE c \in Made
      <3>1. /\ ledger'[c].granted = ledger[c].granted
            /\ ledger'[c].spent = ledger[c].spent
            /\ ledger'[c].delivered = ledger[c].delivered
            /\ ledger'[c].lost = ledger[c].lost
        <4>1. CASE UNCHANGED ledger
          BY <4>1
        <4>2. ASSUME NEW t \in Actors, NEW y \in Locatives, ConsDerive(t, y)
              PROVE  \/ ledger'[c] = ledger[c]
                     \/ \E n \in Nat : ledger'[c] = [ledger[c] EXCEPT !.lent = @ + n]
          BY <2>2, <4>2, DeriveKeeps
        <4>3. ASSUME NEW n \in Nat, ledger'[c] = [ledger[c] EXCEPT !.lent = @ + n]
              PROVE  <3>1!1 /\ <3>1!2 /\ <3>1!3 /\ <3>1!4
          BY <1>5, <2>2, <4>3 DEF Account
        <4>4. ledger' = ledger \/ \E t \in Actors, y \in Locatives : ConsDerive(t, y)
          BY <1>6 DEF Next, vars, Act, LocativeSend, LocativeCons, Revoke, Exit, Tick,
             StartAtomic, Step, SendRevoked, SendExpires, SendBudget, ConsExpires,
             ConsRevoked, ConsBudget, EndAtomic, Unwind
        <4> QED
          BY <4>1, <4>2, <4>3, <4>4
      <3> QED
        BY <1>3, <2>1, <2>2, <3>1 DEF Finite
    <2>3. CASE c \notin Made
      <3>1. PICK t \in Actors : ConsDerive(t, c)
        BY <1>0, <2>3 DEF Frame
      <3>2. c \in Locatives
        BY <1>0 DEF Frame
      <3>3. ledger'[c] = NewAccount(call[t].sends)
        BY <3>1, <3>2, DeriveKeeps
      <3>5. /\ ledger'[c].spent = 0 /\ ledger'[c].delivered = 0
            /\ ledger'[c].lost = 0
        BY <3>3 DEF NewAccount
      <3>4. Flying(c) = {}
        BY <1>4, <2>3
      <3>6. Cardinality(FlyingNext(c)) = 0
        BY <2>1, <3>4, FS_EmptySet, Zenon
      <3> HIDE DEF FlyingNext
      <3> QED
        BY <3>5, <3>6
    <2> QED
      BY <2>2, <2>3
  <1>7. ASSUME NEW t \in Actors, SendCharge(t), NEW c \in Made'
        PROVE  Settled(c)
    <2> DEFINE d == loc[call[t].x].counter
    <2>1. /\ call[t].x \in Made /\ Charge(call[t].x) /\ ~call[t].ok
          /\ call'[t].ok /\ call'[t].x = call[t].x
          /\ \A u \in Actors \ {t} : call'[u] = call[u]
      BY <1>0, <1>7 DEF SendCharge, CallInv, Inv, TypeOK, Call
    <2>2. /\ d \in Made /\ Made' = Made
          /\ \A y \in Made : Kept(y)
          /\ \A y \in Made \ {d} : ledger'[y] = ledger[y]
          /\ ledger'[d] = IF Finite(d)
                          THEN [ledger[d] EXCEPT !.spent = @ + 1] ELSE ledger[d]
      BY <2>1, ChargeKeeps
    <2>3. FlyingNext(c) = IF c = d THEN Flying(c) \cup {t} ELSE Flying(c)
      BY <1>4, <2>1, <2>2 DEF Kept, SameShape
    <2>4. t \notin Flying(c)
      BY <2>1
    <2> HIDE DEF d
    <2>5. CASE c # d
      BY <1>3, <2>2, <2>3, <2>5 DEF Finite
    <2>6. CASE c = d /\ Finite(d)
      <3>1. /\ ledger'[c].spent = ledger[c].spent + 1
            /\ ledger'[c].delivered = ledger[c].delivered
            /\ ledger'[c].lost = ledger[c].lost
            /\ ledger[c].delivered \in Nat /\ ledger[c].lost \in Nat
            /\ ledger[c].spent \in Nat
        BY <1>5, <2>2, <2>6 DEF Account
      <3>2. Cardinality(FlyingNext(c)) = Cardinality(Flying(c)) + 1
        <4>1. FlyingNext(c) = Flying(c) \cup {t}
          BY <2>3, <2>6
        <4>2. IsFiniteSet(Flying(c)) /\ t \notin Flying(c)
          BY <1>2, <2>4, <2>6
        <4> HIDE DEF Flying, FlyingNext
        <4> QED
          BY <4>1, <4>2, FS_AddElement
      <3>3. ledger[c].spent = ledger[c].delivered + ledger[c].lost
                              + Cardinality(Flying(c))
        BY <1>3, <2>2, <2>6
      <3>4. Cardinality(Flying(c)) \in Nat
        BY <1>2
      <3> HIDE DEF Flying, FlyingNext
      <3> QED
        BY <3>1, <3>2, <3>3, <3>4
    <2>7. CASE c = d /\ ~Finite(d)
      BY <2>2, <2>7 DEF Finite
    <2> QED
      BY <2>5, <2>6, <2>7
  <1>8. ASSUME NEW t \in Actors, Deliver(t), NEW c \in Made'
        PROVE  Settled(c)
    <2> DEFINE d == loc[call[t].x].counter
    <2>1. /\ call[t].x \in Made /\ call[t].ok /\ ~call'[t].ok /\ UNCHANGED loc
          /\ \A u \in Actors \ {t} : call'[u] = call[u]
      BY <1>0, <1>8 DEF Deliver, CallInv, Inv, TypeOK, Call, Return, NoCall
    <2>2. /\ d \in Made
          /\ \A z \in Made \ {d} : ledger'[z] = ledger[z]
          /\ ~Finite(d) => ledger'[d] = ledger[d]
          /\ ledger'[d].granted = ledger[d].granted
          /\ ledger'[d].spent = ledger[d].spent
          /\ Finite(d) => ledger'[d].delivered + ledger'[d].lost
                            = ledger[d].delivered + ledger[d].lost + 1
          /\ ledger' \in [Made -> Account]
      BY <1>8, DeliverKeeps
    <2>3. FlyingNext(c) = IF c = d THEN Flying(c) \ {t} ELSE Flying(c)
      BY <2>1
    <2>4. c = d => t \in Flying(c)
      BY <2>1
    <2>a. c \in Made
      BY <2>1 DEF Made
    <2> HIDE DEF d
    <2>5. CASE c # d
      BY <1>3, <2>2, <2>a, <2>3, <2>5 DEF Finite
    <2>6. CASE c = d /\ Finite(d)
      <3>1. /\ ledger'[c].spent = ledger[c].spent
            /\ ledger'[c].delivered + ledger'[c].lost
                 = ledger[c].delivered + ledger[c].lost + 1
            /\ ledger[c].delivered \in Nat /\ ledger[c].lost \in Nat
            /\ ledger'[c].delivered \in Nat /\ ledger'[c].lost \in Nat
        BY <1>5, <2>2, <2>6 DEF Account
      <3>2. Cardinality(FlyingNext(c)) = Cardinality(Flying(c)) - 1
        <4>1. FlyingNext(c) = Flying(c) \ {t}
          BY <2>3, <2>6
        <4>2. IsFiniteSet(Flying(c)) /\ t \in Flying(c)
          BY <1>2, <2>4, <2>6
        <4> HIDE DEF Flying, FlyingNext
        <4> QED
          BY <4>1, <4>2, FS_RemoveElement
      <3>3. ledger[c].spent = ledger[c].delivered + ledger[c].lost
                              + Cardinality(Flying(c))
        BY <1>3, <2>2, <2>6
      <3>4. Cardinality(Flying(c)) \in Nat
        BY <1>2
      <3> HIDE DEF Flying, FlyingNext
      <3> QED
        BY <3>1, <3>2, <3>3, <3>4
    <2>7. CASE c = d /\ ~Finite(d)
      BY <2>2, <2>7 DEF Finite
    <2> QED
      BY <2>5, <2>6, <2>7
  <1> HIDE DEF Settled
  <1> QED
    BY <1>1, <1>6, <1>7, <1>8, OutcomeStep

\* Every send granted to a finite count is still held, lent, delivered, dropped
\* at a dead thread or on its way: no interleaving creates or loses one.
THEOREM BudgetHolds == Spec => []BudgetConserved
  <1>1. Inv /\ FlightInv => BudgetConserved
    <2> SUFFICES ASSUME Inv, FlightInv, NEW c \in Made, Finite(c)
                 PROVE  /\ loc[c].sends \in Nat
                        /\ ledger[c].granted =
                             loc[c].sends + ledger[c].lent + ledger[c].delivered
                             + ledger[c].lost + Cardinality(InFlight(c))
      BY DEF BudgetConserved
    <2>1. /\ loc[c].sends \in Count /\ ledger[c] \in Account
          /\ ledger[c].granted \in Nat
      BY DEF Inv, TypeOK, Locative, Finite
    <2>2. loc[c].sends \in Nat
      BY <2>1, ConstantsAssumption DEF Inv, AccountInv, Count
    <2>3. /\ ledger[c].lent \in Nat /\ ledger[c].delivered \in Nat
          /\ ledger[c].lost \in Nat /\ ledger[c].spent \in Nat
      BY <2>1 DEF Account
    <2>4. /\ ledger[c].granted = loc[c].sends + ledger[c].lent + ledger[c].spent
          /\ ledger[c].spent = ledger[c].delivered + ledger[c].lost
                               + Cardinality(InFlight(c))
      BY DEF Inv, AccountInv, FlightInv
    <2>5. Cardinality(InFlight(c)) \in Nat
      BY InFlightFinite
    <2> QED
      BY <2>2, <2>3, <2>4, <2>5
  <1>2. Inv /\ FlightInv /\ [Next]_vars => FlightInv'
    BY FlightStep
  <1> QED
    BY <1>1, <1>2, FlightInit, Invariance, PTL DEF Spec

-----------------------------------------------------------------------------
(* The accounts of SendAccounts.                                            *)

Balance == [c \in Counts |-> loc[c].sends]

Paid == [c \in Counts |-> ledger[c].spent]

\* The locatives of newly made actors are accounts without limit (actor/new).
LEMMA AccountsInit == Init => Accounts!Init
  <1> SUFFICES ASSUME Init PROVE Accounts!Init
    OBVIOUS
  <1>1. /\ Made = PrimalLocatives
        /\ \A c \in Made : loc[c].sends = Inf /\ ledger[c].spent = 0
    BY DEF Init, Made, Unrestricted, NewAccount
  <1>2. Counts = PrimalLocatives
    BY <1>1, ConstantsAssumption DEF Counts
  <1> QED
    BY <1>1, <1>2 DEF Accounts!Init

\* A step that keeps the sends counts and what they paid for is a stutter.
LEMMA AccountsStutter ==
    ASSUME {c \in Made' : loc'[c].sends # None} = Counts,
           \A c \in Counts : /\ loc'[c].sends = loc[c].sends
                             /\ ledger'[c].spent = ledger[c].spent
    PROVE  UNCHANGED Accounts!vars
  <1>1. Counts' = Counts
    BY DEF Counts
  <1> QED
    BY <1>1 DEF Accounts!vars

\* Every step of the threads spends from one account, opens one account with a
\* part of another, or changes no account.
LEMMA AccountsStep ==
    ASSUME Inv, [Next]_vars
    PROVE  [Accounts!Next]_(Accounts!vars)
  <1>0. /\ loc \in [Made -> Locative] /\ ledger \in [Made -> Account]
        /\ AccountInv /\ CheckedInv /\ TreeInv
        /\ \A t \in Actors : pc[t] # "idle" => call[t].x \in Made
    BY DEF Inv, TypeOK
  <1>1. ASSUME UNCHANGED <<loc, ledger>>
        PROVE  UNCHANGED Accounts!vars
    BY <1>1, AccountsStutter DEF Made, Counts
  <1>2. ASSUME NEW t \in Actors, NEW x \in Made, CacheRevoked(t, x), UNCHANGED ledger
        PROVE  UNCHANGED Accounts!vars
    <2>1. Made' = Made /\ \A c \in Made : loc'[c].sends = loc[c].sends
      BY <1>2, CacheKeeps DEF Inv
    <2> QED
      BY <1>2, <2>1, AccountsStutter DEF Counts
  <1>3. ASSUME NEW t \in Actors, NEW x \in Made, Revoke(t, x)
        PROVE  UNCHANGED Accounts!vars
    <2>1. UNCHANGED ledger /\ loc' = [loc EXCEPT ![x].revoked = TRUE]
      BY <1>3 DEF Revoke
    <2>2. Made' = Made /\ \A c \in Made : loc'[c].sends = loc[c].sends
      BY <1>0, <2>1 DEF Made, Locative
    <2> QED
      BY <2>1, <2>2, AccountsStutter DEF Counts
  <1>4. ASSUME NEW t \in Actors, Deliver(t)
        PROVE  UNCHANGED Accounts!vars
    <2>1. PICK c \in Made : c = loc[call[t].x].counter
      BY <1>0, <1>4 DEF Deliver, TreeInv
    <2>2. /\ UNCHANGED loc
          /\ \A z \in Made : ledger'[z].spent = ledger[z].spent
      BY <1>4, <2>1, DeliverKeeps DEF Deliver
    <2> QED
      BY <2>2, AccountsStutter DEF Counts, Made
  <1>5. ASSUME NEW t \in Actors, SendCharge(t)
        PROVE  [Accounts!Next]_(Accounts!vars)
    <2>1. PICK c : c = loc[call[t].x].counter
      OBVIOUS
    <2>2. call[t].x \in Made /\ Charge(call[t].x) /\ loc[c].sends # 0
      BY <1>0, <1>5, <2>1 DEF SendCharge, CheckedInv, IsPositive
    <2>3. /\ c \in Made /\ Made' = Made
          /\ \A y \in Made : Kept(y)
          /\ \A y \in Made \ {c} : loc'[y] = loc[y] /\ ledger'[y] = ledger[y]
          /\ loc'[c].sends = IF loc[c].sends \in Nat \ {0} THEN loc[c].sends - 1
                             ELSE loc[c].sends
          /\ ledger'[c] = IF Finite(c)
                          THEN [ledger[c] EXCEPT !.spent = @ + 1] ELSE ledger[c]
      BY <2>1, <2>2, ChargeKeeps
    <2>4. /\ loc[c].sends # None
          /\ loc[c].sends \in Count
          /\ Finite(c) <=> loc[c].sends \in Nat
          /\ ledger[c] \in Account
      <3>1. /\ loc[c].sends # None /\ loc[c].sends \in Count
            /\ ledger[c] \in Account
        BY <1>0, <2>1, <2>2, <2>3 DEF TreeInv, Locative
      <3>2. /\ loc[c].sends = Inf <=> ledger[c].granted = Inf
            /\ loc[c].sends = None <=> ledger[c].granted = None
        BY <1>0, <2>3 DEF AccountInv
      <3>3. ledger[c].granted \in Count
        BY <3>1 DEF Account
      <3> QED
        BY <3>1, <3>2, <3>3, ConstantsAssumption DEF Finite, Count
    <2>5. c \in Counts
      BY <2>3, <2>4 DEF Counts
    <2>6. {z \in Made' : loc'[z].sends # None} = Counts
      BY <2>3 DEF Counts, Kept
    <2>7. CASE ~Finite(c)
      BY <2>3, <2>4, <2>6, <2>7, AccountsStutter DEF Counts
    <2>8. CASE Finite(c)
      <3>1. /\ loc[c].sends \in Nat \ {0} /\ loc'[c].sends = loc[c].sends - 1
            /\ ledger'[c].spent = ledger[c].spent + 1
            /\ loc[c].sends # Inf
        BY <2>2, <2>3, <2>4, <2>8, ConstantsAssumption DEF Account
      <3>2. /\ \A z \in Counts \ {c} : /\ loc'[z].sends = loc[z].sends
                                       /\ ledger'[z].spent = ledger[z].spent
            /\ Counts' = Counts
        BY <2>3, <2>6 DEF Counts
      <3>3. /\ [z \in Counts' |-> loc'[z].sends]
                 = [Balance EXCEPT ![c] = @ - 1]
            /\ [z \in Counts' |-> ledger'[z].spent]
                 = [Paid EXCEPT ![c] = @ + 1]
        BY <2>5, <3>1, <3>2 DEF Balance, Paid
      <3>4. /\ DOMAIN Balance = Counts /\ Balance[c] = loc[c].sends
        BY <2>5 DEF Balance
      <3>5. Accounts!Spend(c)
        BY <3>1, <3>3, <3>4 DEF Accounts!Spend, Accounts!Limited, Balance, Paid
      <3> QED
        BY <2>5, <3>4, <3>5 DEF Accounts!Next, Accounts!Open, Balance
    <2> QED
      BY <2>7, <2>8
  <1>6. ASSUME NEW t \in Actors, NEW y \in Locatives, ConsDerive(t, y)
        PROVE  [Accounts!Next]_(Accounts!vars)
    <2>1. PICK x, n : x = call[t].x /\ n = call[t].sends
      OBVIOUS
    <2>2. /\ x \in Made /\ y \notin Made /\ Made' = Made \cup {y}
          /\ n \in SendsArgs
          /\ loc'[y] = Derived(x, y, call[t])
          /\ ledger'[y] = NewAccount(n)
          /\ \A z \in Made : Kept(z)
          /\ \A z \in Made \ {x} : loc'[z] = loc[z] /\ ledger'[z] = ledger[z]
          /\ loc'[x].sends = IF n \in Nat /\ loc[x].sends \in Nat
                             THEN loc[x].sends - n ELSE loc[x].sends
          /\ n \in Nat /\ loc[x].sends \in Nat => n <= loc[x].sends
          /\ ledger'[x] = IF n \in Nat /\ Finite(x)
                          THEN [ledger[x] EXCEPT !.lent = @ + n] ELSE ledger[x]
      BY <1>6, <2>1, DeriveKeeps
    <2>3. /\ loc'[y].sends = n /\ ledger'[y].spent = 0
          /\ ledger'[x].spent = ledger[x].spent
          /\ ledger[x] \in Account /\ loc[x].sends \in Count
      BY <1>0, <2>1, <2>2 DEF Derived, NewAccount, Account, Locative
    <2>4. CASE n = None
      <3>1. loc'[x].sends = loc[x].sends
        BY <2>2, <2>4, ConstantsAssumption
      <3>2. {z \in Made' : loc'[z].sends # None} = Counts
        BY <2>2, <2>3, <2>4 DEF Counts, Kept
      <3> QED
        BY <2>2, <2>3, <3>1, <3>2, AccountsStutter DEF Counts
    <2>5. CASE n # None
      <3>1. /\ n \in SendsArgs \ {None} /\ n \in (Nat \ {0}) \cup {Inf}
            /\ loc[x].sends # None
            /\ loc[x].sends = Inf \/ (n # Inf /\ n <= loc[x].sends)
            /\ x \in Counts /\ y \notin Counts
        BY <1>0, <1>6, <2>1, <2>2, <2>5, ConstantsAssumption
           DEF ConsDerive, CheckedInv, MayTake, RaisesOnSends, Leq, Counts
      <3>2. Counts' = Counts \cup {y}
        BY <2>2, <2>3, <2>5 DEF Counts, Kept
      <3>3. loc'[x].sends = IF loc[x].sends # Inf THEN loc[x].sends - n ELSE loc[x].sends
        BY <2>2, <2>3, <3>1, ConstantsAssumption DEF Count
      <3>4. \A z \in Counts \ {x} : /\ loc'[z].sends = loc[z].sends
                                    /\ ledger'[z].spent = ledger[z].spent
        BY <2>2 DEF Counts
      <3>5. [z \in Counts' |-> loc'[z].sends] =
               [z \in Counts \cup {y} |->
                  IF z = y THEN n
                  ELSE IF z = x /\ Balance[x] # Inf THEN Balance[x] - n
                  ELSE Balance[z]]
        BY <2>3, <3>1, <3>2, <3>3, <3>4 DEF Balance
      <3>6. [z \in Counts' |-> ledger'[z].spent] =
               [z \in Counts \cup {y} |-> IF z = y THEN 0 ELSE Paid[z]]
        BY <2>3, <3>1, <3>2, <3>4 DEF Paid
      <3>7. DOMAIN Balance = Counts /\ Balance[x] = loc[x].sends
        BY <3>1 DEF Balance
      <3>8. Accounts!Lend(x, y, n)
        BY <3>1, <3>5, <3>6, <3>7
           DEF Accounts!Lend, Accounts!Limited, Accounts!Open, Balance, Paid
      <3> QED
        BY <3>1, <3>7, <3>8 DEF Accounts!Next, Accounts!Open, Balance
    <2> QED
      BY <2>4, <2>5
  <1> QED
    <2>1. ASSUME NEW t \in Actors, Step(t)
          PROVE  [Accounts!Next]_(Accounts!vars)
      <3>1. CASE SendRevoked(t) \/ ConsRevoked(t)
        BY <1>0, <1>2, <3>1 DEF SendRevoked, ConsRevoked
      <3>2. CASE UNCHANGED <<loc, ledger>>
        BY <1>1, <3>2
      <3> QED
        BY <1>4, <1>5, <1>6, <2>1, <3>1, <3>2
           DEF Step, SendExpires, SendBudget, ConsExpires, ConsBudget, EndAtomic, Unwind
    <2>2. ASSUME NEW t \in Actors, Act(t) \/ StartAtomic(t)
          PROVE  [Accounts!Next]_(Accounts!vars)
      BY <1>1, <1>3, <2>2 DEF Act, LocativeSend, LocativeCons, Exit, StartAtomic
    <2> QED
      BY <1>1, <2>1, <2>2 DEF Next, vars, Tick

\* The counts of the locatives behave as atomic accounts, whatever the
\* interleaving of the threads that pay and that derive.
THEOREM LocativesImplementAccounts == Spec => ImplementsAccounts
  <1>1. Inv /\ [Next]_vars => [Accounts!Next]_(Accounts!vars)
    BY AccountsStep
  <1> QED
    BY <1>1, AccountsInit, Invariance, PTL DEF Spec, ImplementsAccounts, Accounts!Spec

-----------------------------------------------------------------------------
(* What a locative and all that is derived from it carry together.          *)

\* What was granted to a locative and not lent on, 0 if it has no finite count.
Keep == [y \in Made |-> IF Finite(y) THEN ledger[y].granted - ledger[y].lent ELSE 0]

\* One token for each send the locatives of S keep.
Tokens(S, keep) == {p \in S \X Nat : 1 <= p[2] /\ p[2] <= keep[p[1]]}

Holds(S, keep, n) == IsFiniteSet(Tokens(S, keep)) /\ Cardinality(Tokens(S, keep)) = n

\* A finite grant is kept by the locatives of its subtree, none of them unlimited.
SubtreeInv ==
    \A x \in Made :
        /\ ~ Finite(x) => ledger[x].spent = 0
        /\ Finite(x) => /\ \A y \in Subtree(x) : ledger[y].granted # Inf
                        /\ Holds(Subtree(x), Keep, ledger[x].granted)

\* A new locative holds what it is granted.
LEMMA TokensNew ==
    ASSUME NEW y, NEW n \in Nat, NEW keep, keep[y] = n
    PROVE  Holds({y}, keep, n)
  <1> DEFINE T == Tokens({y}, keep)
             f == [k \in 1 .. n |-> <<y, k>>]
  <1>1. \A k \in 1 .. n : <<y, k>> \in T
    BY DEF Tokens
  <1>2. \A p \in T : p[2] \in 1 .. n /\ p = <<y, p[2]>>
    BY DEF Tokens
  <1> HIDE DEF T
  <1>3. f \in [1 .. n -> T]
    BY <1>1
  <1>4. \A j, k \in 1 .. n : f[j] = f[k] => j = k
    OBVIOUS
  <1>5. \A p \in T : \E k \in 1 .. n : f[k] = p
    BY <1>2
  <1>6. f \in Bijection(1 .. n, T)
    BY <1>3, <1>4, <1>5, Zenon DEF Bijection, Injection, Surjection, IsInjective
  <1>7. ExistsBijection(1 .. n, T)
    BY <1>6, Zenon DEF ExistsBijection
  <1>8. IsFiniteSet(1 .. n) /\ Cardinality(1 .. n) = n
    BY FS_Interval
  <1>9. IsFiniteSet(T) /\ Cardinality(T) = n
    BY <1>7, <1>8, FS_Bijection
  <1> QED
    BY <1>9 DEF Holds, T

\* n sends go from x to a new locative y: one token becomes another.
LEMMA TokensMove ==
    ASSUME NEW S, NEW x \in S, NEW y, y \notin S, NEW keep, keep[x] \in Nat,
           NEW n \in Nat, n <= keep[x], NEW m, Holds(S, keep, m),
           NEW still, still[y] = n, still[x] = keep[x] - n,
           \A z \in S \ {x} : still[z] = keep[z]
    PROVE  Holds(S \cup {y}, still, m)
  <1>1. PICK k \in Nat : k = keep[x] - n
    OBVIOUS
  <1> DEFINE T == Tokens(S, keep)
             U == Tokens(S \cup {y}, still)
             Moves(p) == p[1] = x /\ k < p[2]
             f == [p \in T |-> IF Moves(p) THEN <<y, p[2] - k>> ELSE p]
  <1>2. \A z : \A j : <<z, j>> \in T <=> z \in S /\ j \in Nat /\ 1 <= j /\ j <= keep[z]
    BY DEF Tokens
  <1>3. \A z : \A j : <<z, j>> \in U <=>
                        (z \in S \/ z = y) /\ j \in Nat /\ 1 <= j /\ j <= still[z]
    BY DEF Tokens
  <1>4. \A p \in T : p = <<p[1], p[2]>> /\ p[1] \in S /\ p[2] \in Nat
    BY DEF Tokens
  <1>5. \A p \in U : p = <<p[1], p[2]>> /\ (p[1] \in S \/ p[1] = y) /\ p[2] \in Nat
    BY DEF Tokens
  <1> HIDE DEF T, U
  <1>6. ASSUME NEW p \in T
        PROVE  f[p] \in U
    <2>1. PICK z, j : p = <<z, j>> /\ z \in S /\ j \in Nat /\ 1 <= j /\ j <= keep[z]
      BY <1>2, <1>4
    <2>2. CASE Moves(p)
      <3>1. z = x /\ k < j /\ f[p] = <<y, j - k>>
        BY <2>1, <2>2
      <3>2. j - k \in Nat /\ 1 <= j - k /\ j - k <= n
        BY <1>1, <2>1, <3>1
      <3> QED
        BY <1>3, <3>1, <3>2
    <2>3. CASE ~ Moves(p)
      <3>1. f[p] = <<z, j>> /\ ~ (z = x /\ k < j)
        BY <2>1, <2>3
      <3>2. j <= still[z]
        BY <1>1, <2>1, <3>1
      <3> QED
        BY <1>3, <2>1, <3>1, <3>2
    <2> QED
      BY <2>2, <2>3
  <1>7. ASSUME NEW p \in T, NEW q \in T, f[p] = f[q]
        PROVE  p = q
    <2>1. PICK z, j : p = <<z, j>> /\ z \in S /\ j \in Nat
      BY <1>4
    <2>2. PICK w, i : q = <<w, i>> /\ w \in S /\ i \in Nat
      BY <1>4
    <2>3. f[p] = IF z = x /\ k < j THEN <<y, j - k>> ELSE <<z, j>>
      BY <2>1
    <2>4. f[q] = IF w = x /\ k < i THEN <<y, i - k>> ELSE <<w, i>>
      BY <2>2
    <2> QED
      BY <1>1, <1>7, <2>1, <2>2, <2>3, <2>4
  <1>8. ASSUME NEW u \in U
        PROVE  \E p \in T : f[p] = u
    <2>1. PICK z, j : /\ u = <<z, j>> /\ (z \in S \/ z = y) /\ j \in Nat
                      /\ 1 <= j /\ j <= still[z]
      BY <1>3, <1>5
    <2>2. CASE z = y
      <3>1. PICK i \in Nat : i = j + k
        BY <1>1, <2>1
      <3>2. 1 <= i /\ i <= keep[x] /\ k < i /\ i - k = j
        BY <1>1, <2>1, <2>2, <3>1
      <3>3. <<x, i>> \in T
        BY <1>2, <3>2
      <3>4. f[<<x, i>>] = <<y, i - k>>
        BY <3>2, <3>3
      <3> QED
        BY <2>1, <2>2, <3>2, <3>3, <3>4
    <2>3. CASE z # y
      <3>1. j <= keep[z] /\ ~ (z = x /\ k < j)
        BY <1>1, <2>1, <2>3
      <3>2. u \in T
        BY <1>2, <2>1, <2>3, <3>1
      <3>3. f[u] = u
        BY <2>1, <3>1, <3>2
      <3> QED
        BY <3>2, <3>3
    <2> QED
      BY <2>2, <2>3
  <1>9. f \in [T -> U]
    BY <1>6
  <1> HIDE DEF f
  <1>10. f \in Bijection(T, U)
    BY <1>7, <1>8, <1>9, Zenon DEF Bijection, Injection, Surjection, IsInjective
  <1>11. ExistsBijection(T, U)
    BY <1>10, Zenon DEF ExistsBijection
  <1>12. IsFiniteSet(T) /\ Cardinality(T) = m
    BY DEF Holds, T
  <1>13. IsFiniteSet(U) /\ Cardinality(U) = m
    BY <1>11, <1>12, FS_Bijection
  <1> QED
    BY <1>13 DEF Holds, U

\* Only a derivation changes what the locatives keep: paying for a send does not.
LEMMA LedgerStep ==
    ASSUME Inv, [Next]_vars, \A t \in Actors : \A y \in Locatives : ~ ConsDerive(t, y)
    PROVE  /\ Made' = Made
           /\ \A z \in Made : /\ loc'[z].superiors = loc[z].superiors
                              /\ ledger'[z].granted = ledger[z].granted
                              /\ ledger'[z].lent = ledger[z].lent
                              /\ ~ Finite(z) => ledger'[z].spent = ledger[z].spent
  <1>0. /\ Frame /\ ledger \in [Made -> Account]
        /\ \A t \in Actors : pc[t] # "idle" => call[t].x \in Made
    BY FrameStep DEF Inv, TypeOK
  <1>1. Made' = Made /\ \A z \in Made : loc'[z].superiors = loc[z].superiors
    BY <1>0 DEF Frame, Kept, SameShape
  <1>2. CASE UNCHANGED ledger
    BY <1>1, <1>2
  <1>3. ASSUME NEW t \in Actors, SendCharge(t)
        PROVE  \A z \in Made : /\ ledger'[z].granted = ledger[z].granted
                               /\ ledger'[z].lent = ledger[z].lent
                               /\ ~ Finite(z) => ledger'[z].spent = ledger[z].spent
    <2>1. call[t].x \in Made /\ Charge(call[t].x)
      BY <1>0, <1>3 DEF SendCharge
    <2>2. PICK c \in Made :
             /\ \A y \in Made \ {c} : ledger'[y] = ledger[y]
             /\ ledger'[c] = IF Finite(c) THEN [ledger[c] EXCEPT !.spent = @ + 1] ELSE ledger[c]
      BY <2>1, ChargeKeeps
    <2> QED
      BY <1>0, <2>2 DEF Account
  <1>4. ASSUME NEW t \in Actors, Deliver(t)
        PROVE  \A z \in Made : /\ ledger'[z].granted = ledger[z].granted
                               /\ ledger'[z].lent = ledger[z].lent
                               /\ ~ Finite(z) => ledger'[z].spent = ledger[z].spent
    <2>1. PICK c : c = loc[call[t].x].counter
      OBVIOUS
    <2> QED
      BY <1>4, <2>1, DeliverKeeps
  <1>5. \/ UNCHANGED ledger
        \/ \E t \in Actors : SendCharge(t) \/ Deliver(t)
    BY DEF Next, vars, Act, Step, StartAtomic, Tick, LocativeSend, LocativeCons, Revoke, Exit,
           SendRevoked, SendExpires, SendBudget, ConsExpires, ConsRevoked, ConsBudget, EndAtomic,
           Unwind
  <1> QED
    BY <1>1, <1>2, <1>3, <1>4, <1>5

LEMMA KeepType ==
    ASSUME Inv
    PROVE  \A y \in Made : /\ Keep[y] \in Nat
                           /\ Finite(y) => /\ Keep[y] = loc[y].sends + ledger[y].spent
                                           /\ loc[y].sends \in Nat /\ ledger[y].spent \in Nat
  <1> SUFFICES ASSUME NEW y \in Made
               PROVE  /\ Keep[y] \in Nat
                      /\ Finite(y) => /\ Keep[y] = loc[y].sends + ledger[y].spent
                                      /\ loc[y].sends \in Nat /\ ledger[y].spent \in Nat
    OBVIOUS
  <1>1. /\ loc[y].sends \in Count /\ ledger[y].granted \in Count
        /\ ledger[y].lent \in Nat /\ ledger[y].spent \in Nat
    BY DEF Inv, TypeOK, Locative, Account
  <1>2. CASE Finite(y)
    <2>1. ledger[y].granted \in Nat /\ ledger[y].granted # Inf /\ ledger[y].granted # None
      BY <1>2, ConstantsAssumption DEF Finite
    <2>2. /\ loc[y].sends # Inf /\ loc[y].sends # None
          /\ ledger[y].granted = loc[y].sends + ledger[y].lent + ledger[y].spent
      BY <1>2, <2>1 DEF Inv, AccountInv
    <2>3. loc[y].sends \in Nat
      BY <1>1, <2>2 DEF Count
    <2>4. Keep[y] = ledger[y].granted - ledger[y].lent
      BY <1>2 DEF Keep
    <2> QED
      BY <1>1, <2>2, <2>3, <2>4
  <1>3. CASE ~ Finite(y)
    BY <1>3 DEF Keep
  <1> QED
    BY <1>2, <1>3

LEMMA SubtreeInit == Init => SubtreeInv
  BY ConstantsAssumption DEF Init, SubtreeInv, Finite, NewAccount, Made, Subtree, Unrestricted

\* locative/cons/any moves what it takes out of a count to the new locative, which
\* is in the same subtrees and its own.
LEMMA SubtreeDerive ==
    ASSUME Inv, Attenuation, SubtreeInv, NEW t \in Actors, NEW y \in Locatives, ConsDerive(t, y)
    PROVE  SubtreeInv'
  <1>1. PICK x, n : x = call[t].x /\ n = call[t].sends
    OBVIOUS
  <1>2. PICK keep, still : keep = Keep /\ still = Keep'
    OBVIOUS
  <1>3. /\ x \in Made /\ y \notin Made /\ Made' = Made \cup {y}
        /\ n \in (Nat \ {0}) \cup {Inf, None} /\ Inf \notin Nat /\ None \notin Nat /\ Inf # None
    BY <1>1, DeriveKeeps, ConstantsAssumption
  <1>4. /\ \A z \in Made : loc'[z].superiors = loc[z].superiors /\ loc[z].superiors \subseteq Made
        /\ loc'[y].superiors = {x} \cup loc[x].superiors
    <2>1. \A z \in Made : Kept(z)
      BY DeriveKeeps
    <2>2. loc'[y] = Derived(x, y, call[t])
      BY <1>1, DeriveKeeps
    <2> QED
      BY <2>1, <2>2 DEF Kept, SameShape, Derived, Attenuation
  <1>5. /\ ledger'[y].granted = n /\ ledger'[y].lent = 0 /\ ledger'[y].spent = 0
        /\ \A z \in Made \ {x} : ledger'[z] = ledger[z]
        /\ ledger'[x].granted = ledger[x].granted /\ ledger'[x].spent = ledger[x].spent
        /\ ledger'[x].lent = IF n \in Nat /\ Finite(x) THEN ledger[x].lent + n ELSE ledger[x].lent
    <2>1. /\ ledger'[y] = NewAccount(n)
          /\ \A z \in Made \ {x} : ledger'[z] = ledger[z]
          /\ ledger'[x] = IF n \in Nat /\ Finite(x)
                          THEN [ledger[x] EXCEPT !.lent = @ + n] ELSE ledger[x]
      BY <1>1, DeriveKeeps
    <2>2. ledger[x] \in Account
      BY <1>3 DEF Inv, TypeOK
    <2> QED
      BY <2>1, <2>2 DEF NewAccount, Account
  <1>6. \A z \in Made : keep[z] \in Nat
    BY <1>2, KeepType
  <1>7. /\ still[y] = IF n \in Nat THEN n ELSE 0
        /\ \A z \in Made \ {x} : still[z] = keep[z]
    BY <1>2, <1>3, <1>5 DEF Keep, Finite
  <1>8. /\ n \in Nat => ledger[x].granted # None
        /\ n = Inf => ledger[x].granted = Inf
        /\ n \in Nat /\ Finite(x) => still[x] = keep[x] - n /\ n <= keep[x]
        /\ ~ (n \in Nat /\ Finite(x)) => still[x] = keep[x]
    <2>1. MayTake(x, n) /\ ~ RaisesOnSends(x, n)
      BY <1>1 DEF ConsDerive, Inv, CheckedInv
    <2>2. /\ loc[x].sends = Inf <=> ledger[x].granted = Inf
          /\ loc[x].sends = None <=> ledger[x].granted = None
      BY <1>3 DEF Inv, AccountInv
    <2>3. Finite(x) => /\ keep[x] = loc[x].sends + ledger[x].spent
                       /\ keep[x] = ledger[x].granted - ledger[x].lent
                       /\ loc[x].sends \in Nat /\ ledger[x].spent \in Nat
                       /\ ledger[x].granted \in Nat /\ ledger[x].lent \in Nat
      BY <1>2, <1>3, KeepType DEF Keep, Finite, Inv, TypeOK, Account
    <2>4. still[x] = IF ledger[x].granted \in Nat THEN ledger[x].granted - ledger'[x].lent ELSE 0
      BY <1>2, <1>3, <1>5 DEF Keep, Finite
    <2>5. CASE n \in Nat /\ Finite(x)
      <3>1. n <= loc[x].sends
        BY <1>3, <2>1, <2>3, <2>5 DEF MayTake, Leq
      <3>2. still[x] = ledger[x].granted - (ledger[x].lent + n)
        BY <1>5, <2>4, <2>5 DEF Finite
      <3> QED
        BY <1>3, <2>1, <2>2, <2>3, <2>5, <3>1, <3>2 DEF RaisesOnSends
    <2>6. CASE ~ (n \in Nat /\ Finite(x))
      <3>1. ledger'[x].lent = ledger[x].lent
        BY <1>5, <2>6
      <3>2. still[x] = keep[x]
        BY <1>2, <1>3, <2>4, <3>1 DEF Keep, Finite
      <3> QED
        BY <1>3, <2>1, <2>2, <2>6, <3>2 DEF RaisesOnSends, MayTake, Leq
    <2> QED
      BY <2>5, <2>6
  <1>9. /\ \A z \in Made : x \in Subtree(z) => Subtree(z)' = Subtree(z) \cup {y}
        /\ \A z \in Made : x \notin Subtree(z) => Subtree(z)' = Subtree(z)
        /\ Subtree(y)' = {y}
        /\ \A z \in Made : Subtree(z) \subseteq Made
    BY <1>3, <1>4 DEF Subtree
  <1>10. ASSUME Finite(y)'
         PROVE  /\ \A z \in Subtree(y)' : ledger'[z].granted # Inf
                /\ Holds(Subtree(y)', still, ledger'[y].granted)
    <2>1. n \in Nat
      BY <1>5, <1>10 DEF Finite
    <2>2. Holds({y}, still, n)
      BY <1>7, <2>1, TokensNew
    <2> QED
      BY <1>3, <1>5, <1>9, <2>1, <2>2
  <1>11. ASSUME NEW z \in Made, Finite(z)'
         PROVE  /\ \A w \in Subtree(z)' : ledger'[w].granted # Inf
                /\ Holds(Subtree(z)', still, ledger'[z].granted)
    <2>1. /\ ledger'[z].granted = ledger[z].granted /\ Finite(z)
          /\ \A w \in Made : ledger'[w].granted = ledger[w].granted
      BY <1>5, <1>11 DEF Finite
    <2>2. /\ \A w \in Subtree(z) : ledger[w].granted # Inf
          /\ Holds(Subtree(z), keep, ledger[z].granted)
      BY <1>2, <2>1 DEF SubtreeInv
    <2>3. PICK S, m : S = Subtree(z) /\ m = ledger[z].granted /\ S \subseteq Made
      BY <1>9
    <2>4. CASE x \notin S
      <3>1. \A w \in S : still[w] = keep[w]
        BY <1>7, <2>3, <2>4
      <3>2. Tokens(S, still) = Tokens(S, keep)
        BY <3>1 DEF Tokens
      <3> QED
        BY <1>9, <2>1, <2>2, <2>3, <2>4, <3>2 DEF Holds
    <2>5. CASE x \in S /\ n \in Nat
      <3>1. ledger[x].granted # Inf /\ ledger[x].granted # None
        BY <1>8, <2>2, <2>3, <2>5
      <3>2. Finite(x)
        BY <1>3, <3>1 DEF Finite, Inv, TypeOK, Account, Count
      <3>3. Holds(S \cup {y}, still, m)
        <4>1. /\ n <= keep[x] /\ still[x] = keep[x] - n /\ still[y] = n
              /\ keep[x] \in Nat /\ n \in Nat /\ x \in S /\ y \notin S
          BY <1>3, <1>6, <1>7, <1>8, <2>3, <2>5, <3>2
        <4>2. \A w \in S \ {x} : still[w] = keep[w]
          BY <1>7, <2>3
        <4>3. Holds(S, keep, m)
          BY <2>2, <2>3
        <4> QED
          BY <4>1, <4>2, <4>3, TokensMove
      <3>4. Subtree(z)' = S \cup {y} /\ ledger'[z].granted = m /\ n # Inf
        BY <1>3, <1>9, <2>1, <2>3, <2>5
      <3>5. \A w \in S \cup {y} : ledger'[w].granted # Inf
        BY <1>5, <2>1, <2>2, <2>3, <3>4
      <3> QED
        BY <3>3, <3>4, <3>5
    <2>6. CASE x \in S /\ n \notin Nat
      <3>1. n = None
        BY <1>3, <1>8, <2>2, <2>3, <2>6
      <3>2. (\A w \in S : still[w] = keep[w]) /\ still[y] = 0
        BY <1>7, <1>8, <2>3, <2>6
      <3>3. Tokens(S \cup {y}, still) = Tokens(S, keep)
        BY <3>2 DEF Tokens
      <3> QED
        BY <1>3, <1>5, <1>9, <2>1, <2>2, <2>3, <2>6, <3>1, <3>3 DEF Holds
    <2> QED
      BY <2>4, <2>5, <2>6
  <1>12. \A z \in Made' : ~ Finite(z)' => ledger'[z].spent = 0
    BY <1>3, <1>5 DEF Finite, SubtreeInv
  <1> QED
    BY <1>2, <1>3, <1>10, <1>11, <1>12 DEF SubtreeInv

LEMMA SubtreeStep ==
    ASSUME Inv, Attenuation, SubtreeInv, [Next]_vars
    PROVE  SubtreeInv'
  <1>1. CASE \E t \in Actors : \E y \in Locatives : ConsDerive(t, y)
    BY <1>1, SubtreeDerive
  <1>2. CASE \A t \in Actors : \A y \in Locatives : ~ ConsDerive(t, y)
    <2>1. /\ Made' = Made
          /\ \A z \in Made : /\ loc'[z].superiors = loc[z].superiors
                             /\ ledger'[z].granted = ledger[z].granted
                             /\ ledger'[z].lent = ledger[z].lent
                             /\ ~ Finite(z) => ledger'[z].spent = ledger[z].spent
      BY <1>2, LedgerStep
    <2>2. Keep' = Keep
      BY <2>1 DEF Keep, Finite
    <2>3. \A z \in Made : Subtree(z)' = Subtree(z) /\ Subtree(z) \subseteq Made
      BY <2>1 DEF Subtree
    <2> QED
      BY <2>1, <2>2, <2>3 DEF SubtreeInv, Finite
  <1> QED
    BY <1>1, <1>2

\* Whatever is derived from a finite locative, by however many derivations, and
\* whoever sends: all of it together carries no more than was granted.
THEOREM SubtreeHolds == Spec => []SubtreeWithinGrant
  <1>1. Inv /\ SubtreeInv => SubtreeWithinGrant
    <2> SUFFICES ASSUME Inv, SubtreeInv, NEW x \in Made, Finite(x)
                 PROVE  Cardinality(Carried(x)) <= ledger[x].granted
      BY DEF SubtreeWithinGrant
    <2>1. PICK keep, T : keep = Keep /\ T = Tokens(Subtree(x), keep)
      OBVIOUS
    <2>2. IsFiniteSet(T) /\ Cardinality(T) = ledger[x].granted
      BY <2>1 DEF SubtreeInv, Holds
    <2>3. ASSUME NEW y \in Subtree(x), NEW k \in 1 .. ledger[y].spent
          PROVE  <<y, k>> \in T
      <3>1. y \in Made /\ ledger[y].spent \in Nat
        BY DEF Subtree, Inv, TypeOK, Account
      <3>2. ~ Finite(y) => ledger[y].spent = 0
        BY <3>1 DEF SubtreeInv
      <3>3. keep[y] = loc[y].sends + ledger[y].spent /\ loc[y].sends \in Nat
        BY <2>1, <2>3, <3>1, <3>2, KeepType
      <3> QED
        BY <2>1, <2>3, <3>1, <3>3 DEF Tokens
    <2>4. Carried(x) \in SUBSET T
      BY <2>3 DEF Carried
    <2> QED
      BY <2>2, <2>4, FS_Subset
  <1>2. Inv /\ Attenuation /\ SubtreeInv /\ [Next]_vars => SubtreeInv'
    BY SubtreeStep
  <1> QED
    BY <1>1, <1>2, SubtreeInit, AttenuationHolds, Invariance, PTL DEF Spec
=============================================================================
