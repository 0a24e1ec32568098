--------------------------- MODULE LocativesProofs ---------------------------
(****************************************************************************)
(* Theorems about Locatives, for every set of actors and locatives and      *)
(* every choice of arguments.                                               *)
(****************************************************************************)
EXTENDS Locatives, FiniteSetTheorems, TLAPS

SendLabels == {"sendRevoked", "sendExpires", "sendBudget", "sendCharge", "deliver"}

ConsLabels == {"consExpires", "consRevoked", "consBudget", "consDerive"}

\* What is known of a call from the label of its thread.
CallInv ==
    \A t \in Actors :
        /\ pc[t] = "idle" => call[t] = NoCall
        /\ pc[t] # "idle" => call[t].op # "none"
        /\ pc[t] \in SendLabels => call[t].op = "send"
        /\ pc[t] \in ConsLabels => call[t].op = "cons"
        /\ pc[t] = "deliver" => call[t].ok
        /\ call[t].ok => call[t].op = "send" /\ pc[t] \in {"leave", "deliver"}
        /\ call[t].op = "cons" =>
              /\ call[t].expires \in ExpiresArgs
              /\ call[t].sends \in SendsArgs
              /\ call[t].senders \in SendersArgs

\* ATOMIC excludes: while a thread is inside, the count is 0 and it is alone.
LockInv ==
    \A t \in Actors : InAtomic(t) =>
        /\ atomic = 0
        /\ \A u \in Actors : InAtomic(u) => u = t

\* The tree of locatives is closed under the derived fields.
TreeInv ==
    \A x \in Made :
        /\ loc[x].counter \in Made
        /\ loc[loc[x].counter].sends # None
        /\ loc[x].sends # None => loc[x].counter = x

\* What a thread has checked inside ATOMIC still holds when it acts on it.
CheckedInv ==
    \A t \in Actors :
        LET x == call[t].x IN
        /\ pc[t] = "sendCharge" => IsPositive(x)
        /\ pc[t] \in {"consRevoked", "consBudget", "consDerive"} =>
              MayExpireAt(x, call[t].expires) /\ ~RaisesOnExpires(x, call[t].expires)
        /\ pc[t] = "consDerive" =>
              /\ IsPositive(x)
              /\ MayTake(x, call[t].sends)
              /\ ~RaisesOnSends(x, call[t].sends)

\* The history of a count agrees with the count.
AccountInv ==
    \A c \in Made :
        /\ loc[c].sends = Inf <=> ledger[c].granted = Inf
        /\ loc[c].sends = None <=> ledger[c].granted = None
        /\ Finite(c) =>
              ledger[c].granted = loc[c].sends + ledger[c].lent + ledger[c].spent

\* Every send paid for is delivered, dropped or on its way.
FlightInv ==
    \A c \in Made : Finite(c) =>
        ledger[c].spent = ledger[c].delivered + ledger[c].lost
                          + Cardinality(InFlight(c))

\* What a send has learnt about the locatives above it.
LiveInv ==
    \A t \in Actors :
        LET x == call[t].x IN
        /\ InAtomic(t) => call[t].began <= now
        /\ pc[t] = "sendRevoked" /\ ~call[t].clean => IsRevoked(x)
        /\ pc[t] \in {"sendExpires", "sendBudget", "sendCharge"} => call[t].clean
        /\ call[t].ok => call[t].clean
        /\ pc[t] \in {"sendBudget", "sendCharge"} \/ call[t].ok =>
              /\ loc[x].expires # None
              /\ loc[x].expires = Inf \/ call[t].began < loc[x].expires

Inv == TypeOK /\ CallInv /\ LockInv /\ TreeInv /\ CheckedInv /\ AccountInv

-----------------------------------------------------------------------------
(* Type correctness.                                                        *)

\* The fields of a locative that nothing changes once it is made.
SameShape(r, s) ==
    /\ s.actor = r.actor         /\ s.expires = r.expires
    /\ s.senders = r.senders     /\ s.predicate = r.predicate
    /\ s.prior = r.prior         /\ s.superiors = r.superiors
    /\ s.counter = r.counter

\* The locatives of one state and the next when no locative is made.
Kept(x) ==
    /\ SameShape(loc[x], loc'[x])
    /\ loc[x].revoked => loc'[x].revoked
    /\ loc[x].sends = None <=> loc'[x].sends = None

\* Marking a locative revoked keeps every other field (locative/revoked?).
LEMMA CacheKeeps ==
    ASSUME TypeOK, NEW t \in Actors, NEW x \in Made, CacheRevoked(t, x)
    PROVE  /\ loc' \in [Made -> Locative]
           /\ Made' = Made
           /\ \A y \in Made : Kept(y) /\ loc'[y].sends = loc[y].sends
  <1>1. CASE ~(IsRevoked(x) /\ t = loc[x].actor)
    BY <1>1 DEF CacheRevoked, TypeOK, Made, Kept, SameShape
  <1>2. CASE IsRevoked(x) /\ t = loc[x].actor
    <2>1. loc' = [loc EXCEPT ![x].revoked = TRUE]
      BY <1>2 DEF CacheRevoked
    <2>2. /\ Made' = Made
          /\ \A y \in Made : loc'[y] = IF y = x THEN [loc[x] EXCEPT !.revoked = TRUE]
                                       ELSE loc[y]
      BY <2>1 DEF TypeOK, Made
    <2>3. \A y \in Made : loc[y] \in Locative
      BY DEF TypeOK
    <2>4. [loc[x] EXCEPT !.revoked = TRUE] \in Locative
      BY <2>3 DEF Locative
    <2>5. loc' \in [Made -> Locative]
      BY <2>1, <2>4 DEF TypeOK
    <2>6. \A y \in Made : Kept(y) /\ loc'[y].sends = loc[y].sends
      BY <2>2, <2>3 DEF Kept, SameShape, Locative
    <2> QED
      BY <2>2, <2>5, <2>6
  <1> QED
    BY <1>1, <1>2

\* Paying for a send changes one count by one, downwards (locative/sends/--!).
LEMMA ChargeKeeps ==
    ASSUME Inv, NEW x \in Made, Charge(x)
    PROVE  LET c == loc[x].counter IN
           /\ c \in Made
           /\ loc' \in [Made -> Locative]
           /\ ledger' \in [Made -> Account]
           /\ Made' = Made
           /\ \A y \in Made : Kept(y)
           /\ \A y \in Made \ {c} : loc'[y] = loc[y] /\ ledger'[y] = ledger[y]
           /\ loc'[c].sends = IF loc[c].sends \in Nat \ {0} THEN loc[c].sends - 1
                              ELSE loc[c].sends
           /\ ledger'[c] = IF Finite(c)
                           THEN [ledger[c] EXCEPT !.spent = @ + 1] ELSE ledger[c]
  <1> DEFINE c == loc[x].counter
  <1>0. c \in Made
    BY DEF Inv, TreeInv
  <1>a. /\ loc \in [Made -> Locative]
        /\ ledger \in [Made -> Account]
    BY DEF Inv, TypeOK
  <1>1. /\ ledger' \in [Made -> Account]
        /\ \A y \in Made \ {c} : ledger'[y] = ledger[y]
        /\ ledger'[c] = IF Finite(c)
                        THEN [ledger[c] EXCEPT !.spent = @ + 1] ELSE ledger[c]
    <2>1. ledger' = IF Finite(c) THEN [ledger EXCEPT ![c].spent = @ + 1] ELSE ledger
      BY DEF Charge
    <2>2. [ledger[c] EXCEPT !.spent = @ + 1] \in Account
      BY <1>0, <1>a DEF Account
    <2> QED
      BY <1>0, <1>a, <2>1, <2>2
  <1>2. CASE loc[c].sends \in Nat \ {0}
    <2>1. loc' = [loc EXCEPT ![c].sends = @ - 1]
      BY <1>2 DEF Charge
    <2>2. /\ loc[c].sends - 1 \in Nat
          /\ loc[c].sends # None /\ loc[c].sends - 1 # None
      BY <1>2, ConstantsAssumption
    <2>3. [loc[c] EXCEPT !.sends = @ - 1] \in Locative
      BY <1>0, <1>a, <2>2 DEF Locative, Count
    <2>4. /\ Made' = Made
          /\ loc' \in [Made -> Locative]
          /\ \A y \in Made \ {c} : loc'[y] = loc[y]
          /\ loc'[c] = [loc[c] EXCEPT !.sends = @ - 1]
      BY <1>0, <1>a, <2>1, <2>3 DEF Made
    <2>5. /\ SameShape(loc[c], loc'[c])
          /\ loc'[c].revoked = loc[c].revoked
          /\ loc'[c].sends = loc[c].sends - 1
      BY <1>0, <1>a, <2>4 DEF Locative, SameShape
    <2>6. \A y \in Made : Kept(y)
      BY <2>2, <2>4, <2>5 DEF Kept, SameShape
    <2> QED
      BY <1>0, <1>1, <1>2, <2>4, <2>5, <2>6
  <1>3. CASE loc[c].sends \notin Nat \ {0}
    <2>1. loc' = loc
      BY <1>3 DEF Charge
    <2> QED
      BY <1>0, <1>a, <1>1, <1>3, <2>1 DEF Made, Kept, SameShape
  <1> QED
    BY <1>2, <1>3

\* Deriving a locative adds it and takes its sends out of the superior's
\* (locative/sends/restrict! and the vector built by locative/cons/any).
LEMMA DeriveKeeps ==
    ASSUME Inv, NEW t \in Actors, NEW y \in Locatives, ConsDerive(t, y)
    PROVE  LET x == call[t].x
               n == call[t].sends
           IN
           /\ x \in Made /\ y \notin Made /\ Made' = Made \cup {y}
           /\ n \in SendsArgs
           /\ loc' \in [Made' -> Locative]
           /\ ledger' \in [Made' -> Account]
           /\ loc'[y] = Derived(x, y, call[t])
           /\ ledger'[y] = NewAccount(n)
           /\ \A z \in Made : Kept(z)
           /\ \A z \in Made \ {x} : loc'[z] = loc[z] /\ ledger'[z] = ledger[z]
           /\ loc'[x].sends = IF n \in Nat /\ loc[x].sends \in Nat
                              THEN loc[x].sends - n ELSE loc[x].sends
           /\ n \in Nat /\ loc[x].sends \in Nat => n <= loc[x].sends
           /\ ledger'[x] = IF n \in Nat /\ Finite(x)
                           THEN [ledger[x] EXCEPT !.lent = @ + n] ELSE ledger[x]
  <1> DEFINE x == call[t].x
             n == call[t].sends
  <1>0. /\ pc[t] = "consDerive" /\ y \notin Made
        /\ loc' = [z \in Made \cup {y} |->
                     IF z = y THEN Derived(x, y, call[t])
                     ELSE IF z = x THEN [loc[x] EXCEPT !.sends = Rest(x, n)]
                     ELSE loc[z]]
        /\ ledger' = [z \in Made \cup {y} |->
                        IF z = y THEN NewAccount(n)
                        ELSE IF z = x /\ n # None /\ Finite(x)
                             THEN [ledger[x] EXCEPT !.lent = @ + n]
                        ELSE ledger[z]]
    BY DEF ConsDerive
  <1>1. /\ x \in Made /\ call[t].op = "cons"
        /\ loc \in [Made -> Locative] /\ ledger \in [Made -> Account]
        /\ call[t] \in Call /\ Made \subseteq Locatives
    BY <1>0 DEF Inv, TypeOK, CallInv, ConsLabels
  <1>2. /\ n \in SendsArgs /\ call[t].senders \in SendersArgs
        /\ call[t].expires \in ExpiresArgs
        /\ n \in (Nat \ {0}) \cup {Inf, None}
    BY <1>0, <1>1, ConstantsAssumption DEF Inv, CallInv
  <1>3. n # None => loc[x].sends # None /\ Leq(n, loc[x].sends)
    BY <1>0 DEF Inv, CheckedInv, MayTake, RaisesOnSends
  <1>4. /\ loc[x] \in Locative /\ loc[x].sends \in Count
        /\ loc[x].counter \in Made
    BY <1>1 DEF Inv, TreeInv, Locative
  <1>5. /\ n \in Nat /\ loc[x].sends \in Nat => n <= loc[x].sends
        /\ n # None /\ loc[x].sends \in Nat => n \in Nat
    BY <1>2, <1>3, ConstantsAssumption DEF Leq
  <1>6. /\ Rest(x, n) = IF n \in Nat /\ loc[x].sends \in Nat
                        THEN loc[x].sends - n ELSE loc[x].sends
        /\ Rest(x, n) \in Count
        /\ Rest(x, n) = None <=> loc[x].sends = None
    BY <1>2, <1>4, <1>5, ConstantsAssumption DEF Rest, Count
  <1>7. Finite(x) => loc[x].sends \in Nat
    BY <1>1, <1>4, ConstantsAssumption DEF Inv, AccountInv, Finite, Count
  <1>8. Derived(x, y, call[t]) \in Locative
    BY <1>1, <1>2, <1>4, ConstantsAssumption DEF Derived, Locative, Call, Deadline, Count
  <1>9. NewAccount(n) \in Account
    BY <1>2 DEF NewAccount, Account, Count
  <1>10. /\ [loc[x] EXCEPT !.sends = Rest(x, n)] \in Locative
         /\ SameShape(loc[x], [loc[x] EXCEPT !.sends = Rest(x, n)])
         /\ [loc[x] EXCEPT !.sends = Rest(x, n)].revoked = loc[x].revoked
         /\ [loc[x] EXCEPT !.sends = Rest(x, n)].sends = Rest(x, n)
    BY <1>4, <1>6 DEF Locative, SameShape
  <1>11. /\ n # None /\ Finite(x) <=> n \in Nat /\ Finite(x)
         /\ n \in Nat => [ledger[x] EXCEPT !.lent = @ + n] \in Account
    BY <1>1, <1>2, <1>5, <1>7, ConstantsAssumption DEF Account
  <1>12. /\ Made' = Made \cup {y}
         /\ loc'[y] = Derived(x, y, call[t])
         /\ loc'[x] = [loc[x] EXCEPT !.sends = Rest(x, n)]
         /\ \A z \in Made \ {x} : loc'[z] = loc[z] /\ ledger'[z] = ledger[z]
         /\ ledger'[y] = NewAccount(n)
         /\ ledger'[x] = IF n \in Nat /\ Finite(x)
                         THEN [ledger[x] EXCEPT !.lent = @ + n] ELSE ledger[x]
    BY <1>0, <1>1, <1>11 DEF Made
  <1>13. loc' \in [Made' -> Locative]
    BY <1>0, <1>1, <1>8, <1>10, <1>12
  <1>14. ledger' \in [Made' -> Account]
    BY <1>0, <1>1, <1>9, <1>11, <1>12
  <1>15. \A z \in Made : Kept(z)
    BY <1>1, <1>6, <1>10, <1>12 DEF Kept, SameShape
  <1> HIDE DEF x, n
  <1>16. loc'[x].sends = IF n \in Nat /\ loc[x].sends \in Nat
                         THEN loc[x].sends - n ELSE loc[x].sends
    BY <1>6, <1>10, <1>12
  <1> QED
    BY <1>0, <1>1, <1>2, <1>5, <1>12, <1>13, <1>14, <1>15, <1>16 DEF x, n

\* The initial state is one of the types and of the invariant.
LEMMA InvInit == Init => Inv
  <1> SUFFICES ASSUME Init PROVE Inv
    OBVIOUS
  <1>0. /\ PrimalLocatives \subseteq Locatives
        /\ \A x \in PrimalLocatives : /\ PrimalOwner(x) \in Targets
                                      /\ Primal[PrimalOwner(x)] = x
    BY ConstantsAssumption DEF PrimalLocatives, PrimalOwner
  <1>1. Made = PrimalLocatives
    BY DEF Init, Made
  <1>2. loc \in [Made -> Locative]
    BY <1>0, <1>1, ConstantsAssumption DEF Init, Unrestricted, Locative, Deadline, Count
  <1>3. call \in [Actors -> Call]
    BY DEF Init, Call, NoCall, Deadline, Count
  <1>4. ledger \in [Made -> Account]
    BY <1>1 DEF Init, NewAccount, Account, Count
  <1>5. TypeOK
    BY <1>0, <1>1, <1>2, <1>3, <1>4 DEF TypeOK, Init, Labels
  <1>6. CallInv
    BY DEF Init, CallInv, NoCall, SendLabels, ConsLabels
  <1>7. LockInv /\ CheckedInv
    BY DEF Init, LockInv, CheckedInv, InAtomic, CriticalLabels
  <1>8. TreeInv
    BY <1>0, <1>1, ConstantsAssumption DEF Init, TreeInv, Unrestricted
  <1>9. AccountInv
    BY <1>1, ConstantsAssumption
       DEF Init, AccountInv, Unrestricted, NewAccount, Finite
  <1> QED
    BY <1>5, <1>6, <1>7, <1>8, <1>9 DEF Inv

\* The thread-send of an accepted message adds one to what was delivered or to
\* what was dropped, for a finite count.
LEMMA DeliverKeeps ==
    ASSUME Inv, NEW t \in Actors, Deliver(t),
           NEW c, c = loc[call[t].x].counter
    PROVE  /\ c \in Made
           /\ ledger' \in [Made -> Account]
           /\ \A z \in Made \ {c} : ledger'[z] = ledger[z]
           /\ ~Finite(c) => ledger'[c] = ledger[c]
           /\ ledger'[c].granted = ledger[c].granted
           /\ ledger'[c].spent = ledger[c].spent
           /\ ledger'[c].lent = ledger[c].lent
           /\ Finite(c) => ledger'[c].delivered + ledger'[c].lost
                             = ledger[c].delivered + ledger[c].lost + 1
  <1>0. /\ c \in Made /\ ledger \in [Made -> Account]
        /\ ledger[c] \in Account
    BY DEF Inv, TypeOK, TreeInv, Deliver
  <1>1. CASE ~Finite(c)
    BY <1>0, <1>1 DEF Deliver
  <1>2. ASSUME Finite(c), ledger' = [ledger EXCEPT ![c].delivered = @ + 1]
        PROVE  /\ ledger' \in [Made -> Account]
               /\ \A z \in Made \ {c} : ledger'[z] = ledger[z]
               /\ ledger'[c] = [ledger[c] EXCEPT !.delivered = @ + 1]
    <2>1. [ledger[c] EXCEPT !.delivered = @ + 1] \in Account
      BY <1>0 DEF Account
    <2> QED
      BY <1>0, <1>2, <2>1
  <1>3. ASSUME Finite(c), ledger' = [ledger EXCEPT ![c].lost = @ + 1]
        PROVE  /\ ledger' \in [Made -> Account]
               /\ \A z \in Made \ {c} : ledger'[z] = ledger[z]
               /\ ledger'[c] = [ledger[c] EXCEPT !.lost = @ + 1]
    <2>1. [ledger[c] EXCEPT !.lost = @ + 1] \in Account
      BY <1>0 DEF Account
    <2> QED
      BY <1>0, <1>3, <2>1
  <1>4. CASE Finite(c)
    <2>1. \/ ledger' = [ledger EXCEPT ![c].delivered = @ + 1]
          \/ ledger' = [ledger EXCEPT ![c].lost = @ + 1]
      BY <1>4 DEF Deliver
    <2>2. /\ ledger' \in [Made -> Account]
          /\ \A z \in Made \ {c} : ledger'[z] = ledger[z]
          /\ \/ ledger'[c] = [ledger[c] EXCEPT !.delivered = @ + 1]
             \/ ledger'[c] = [ledger[c] EXCEPT !.lost = @ + 1]
      BY <1>2, <1>3, <1>4, <2>1
    <2> DEFINE Moved == /\ ledger'[c].granted = ledger[c].granted
                        /\ ledger'[c].spent = ledger[c].spent
                        /\ ledger'[c].lent = ledger[c].lent
                        /\ ledger'[c].delivered + ledger'[c].lost
                             = ledger[c].delivered + ledger[c].lost + 1
    <2>a. /\ ledger[c].delivered \in Nat /\ ledger[c].lost \in Nat
          /\ ledger[c].spent \in Nat /\ ledger[c].lent \in Nat
      BY <1>0 DEF Account
    <2>b. ASSUME ledger'[c] = [ledger[c] EXCEPT !.delivered = @ + 1]
          PROVE  Moved
      BY <1>0, <2>a, <2>b DEF Account
    <2>c. ASSUME ledger'[c] = [ledger[c] EXCEPT !.lost = @ + 1]
          PROVE  Moved
      BY <1>0, <2>a, <2>c DEF Account
    <2>3. Moved
      BY <2>2, <2>b, <2>c
    <2> QED
      BY <1>0, <1>4, <2>2, <2>3
  <1> QED
    BY <1>1, <1>4

\* What every step keeps of the locatives that are made.
Frame ==
    /\ Made \subseteq Made' /\ Made' \subseteq Locatives
    /\ loc' \in [Made' -> Locative]
    /\ ledger' \in [Made' -> Account]
    /\ \A x \in Made : Kept(x)
    /\ \A y \in Made' \ Made : \E t \in Actors : ConsDerive(t, y)

\* Every step keeps the locatives made so far but for their counts and their
\* revoked flags, and adds one only in locative/cons/any.
LEMMA FrameStep ==
    ASSUME Inv, [Next]_vars
    PROVE  Frame
  <1>0. /\ Made \subseteq Locatives
        /\ loc \in [Made -> Locative] /\ ledger \in [Made -> Account]
        /\ \A t \in Actors : pc[t] # "idle" => call[t].x \in Made
    BY DEF Inv, TypeOK
  <1>1. CASE UNCHANGED <<loc, ledger>>
    BY <1>0, <1>1 DEF Frame, Made, Kept, SameShape
  <1>2. ASSUME NEW t \in Actors, NEW x \in Made, CacheRevoked(t, x), UNCHANGED ledger
        PROVE  Frame
    BY <1>0, <1>2, CacheKeeps DEF Frame, Inv
  <1>3. ASSUME NEW t \in Actors, Act(t)
        PROVE  Frame
    <2>1. ASSUME NEW x \in Made, Revoke(t, x)
          PROVE  Frame
      <3>1. CASE IsRevoked(x)
        <4>1. UNCHANGED ledger /\ loc' = [loc EXCEPT ![x].revoked = TRUE]
          BY <2>1 DEF Revoke
        <4>2. CacheRevoked(t, x)
          BY <2>1, <3>1, <4>1 DEF CacheRevoked, Revoke
        <4> QED
          BY <1>2, <4>1, <4>2
      <3>2. CASE ~IsRevoked(x)
        <4>1. UNCHANGED ledger /\ loc' = [loc EXCEPT ![x].revoked = TRUE]
          BY <2>1 DEF Revoke
        <4>2. /\ loc[x] \in Locative
              /\ [loc[x] EXCEPT !.revoked = TRUE] \in Locative
          BY <1>0 DEF Locative
        <4>3. /\ loc' \in [Made -> Locative] /\ Made' = Made
              /\ \A y \in Made \ {x} : loc'[y] = loc[y]
              /\ loc'[x] = [loc[x] EXCEPT !.revoked = TRUE]
          BY <1>0, <4>1, <4>2 DEF Made
        <4>4. Kept(x)
          BY <4>2, <4>3 DEF Kept, SameShape, Locative
        <4>5. \A y \in Made : Kept(y)
          BY <4>3, <4>4 DEF Kept, SameShape
        <4> QED
          BY <1>0, <4>1, <4>3, <4>5 DEF Frame
      <3> QED
        BY <3>1, <3>2
    <2>2. CASE UNCHANGED <<loc, ledger>>
      BY <1>1, <2>2
    <2> QED
      BY <1>3, <2>1, <2>2 DEF Act, LocativeSend, LocativeCons, Exit
  <1>4. ASSUME NEW t \in Actors, Step(t)
        PROVE  Frame
    <2>1. CASE SendRevoked(t) \/ ConsRevoked(t)
      BY <1>0, <1>2, <2>1 DEF SendRevoked, ConsRevoked
    <2>2. CASE SendCharge(t)
      BY <1>0, <2>2, ChargeKeeps DEF SendCharge, Frame
    <2>3. ASSUME NEW y \in Locatives, ConsDerive(t, y)
          PROVE  Frame
      <3>1. /\ Made' = Made \cup {y}
            /\ loc' \in [Made' -> Locative] /\ ledger' \in [Made' -> Account]
            /\ \A z \in Made : Kept(z)
        BY <2>3, DeriveKeeps, Zenon
      <3>2. ASSUME NEW z \in Made' \ Made
            PROVE  \E u \in Actors : ConsDerive(u, z)
        <4>1. z = y
          BY <3>1
        <4> QED
          BY <2>3, <4>1
      <3> QED
        BY <1>0, <3>1, <3>2 DEF Frame
    <2>4. CASE Deliver(t)
      <3>1. UNCHANGED loc /\ ledger' \in [Made -> Account]
        BY <2>4, DeliverKeeps DEF Deliver
      <3> QED
        BY <1>0, <3>1 DEF Frame, Made, Kept, SameShape
    <2>5. CASE UNCHANGED <<loc, ledger>>
      BY <1>1, <2>5
    <2> QED
      BY <1>4, <2>1, <2>2, <2>3, <2>4, <2>5
         DEF Step, SendExpires, SendBudget, ConsExpires, ConsBudget, EndAtomic, Unwind
  <1> QED
    BY <1>1, <1>3, <1>4 DEF Next, vars, StartAtomic, Tick

\* Every step keeps the types: no handler takes a count below zero and only the
\* holder of ATOMIC posts it.
LEMMA TypeStep ==
    ASSUME Inv, [Next]_vars
    PROVE  TypeOK'
  <1>0. Frame /\ TypeOK /\ CallInv /\ LockInv
    BY FrameStep DEF Inv
  <1>1. atomic' \in {0, 1}
    <2>1. ASSUME NEW t \in Actors, StartAtomic(t)
          PROVE  atomic' \in {0, 1}
      BY <1>0, <2>1 DEF StartAtomic, TypeOK
    <2>2. ASSUME NEW t \in Actors, EndAtomic(t)
          PROVE  atomic' \in {0, 1}
      <3>1. InAtomic(t)
        BY <2>2 DEF EndAtomic, InAtomic, CriticalLabels, Labels
      <3> QED
        BY <1>0, <2>2, <3>1 DEF EndAtomic, LockInv
    <2>3. CASE UNCHANGED atomic
      BY <1>0, <2>3 DEF TypeOK
    <2> QED
      BY <2>1, <2>2, <2>3
         DEF Next, vars, Act, Step, LocativeSend, LocativeCons, Revoke, Exit, Tick,
             SendRevoked, SendExpires, SendBudget, SendCharge, Deliver, ConsExpires,
             ConsRevoked, ConsBudget, ConsDerive, Unwind
  <1>2. now' \in Nat /\ alive' \subseteq Actors
    <2>0. now \in Nat /\ alive \subseteq Actors
      BY <1>0 DEF TypeOK
    <2>1. ASSUME NEW t \in Actors, Act(t) \/ StartAtomic(t)
          PROVE  now' = now /\ alive' \subseteq Actors
      BY <2>0, <2>1 DEF Act, LocativeSend, LocativeCons, Revoke, Exit, StartAtomic
    <2>2. ASSUME NEW t \in Actors, Step(t)
          PROVE  now' = now /\ alive' \subseteq Actors
      BY <2>0, <2>2
         DEF Step, SendRevoked, SendExpires, SendBudget, SendCharge, Deliver, ConsExpires,
             ConsRevoked, ConsBudget, ConsDerive, Unwind, EndAtomic
    <2>3. CASE Tick
      BY <2>0, <2>3 DEF Tick
    <2>4. CASE UNCHANGED vars
      BY <2>0, <2>4 DEF vars
    <2> QED
      BY <2>0, <2>1, <2>2, <2>3, <2>4 DEF Next
  <1>3. pc' \in [Actors -> Labels]
    <2>0. pc \in [Actors -> Labels]
      BY <1>0 DEF TypeOK
    <2>1. ASSUME NEW t \in Actors, NEW l \in Labels, Goto(t, l)
          PROVE  pc' \in [Actors -> Labels]
      BY <2>0, <2>1 DEF Goto
    <2>2. ASSUME NEW t \in Actors, Act(t) \/ StartAtomic(t)
          PROVE  pc' \in [Actors -> Labels]
      BY <2>0, <2>1, <2>2
         DEF Act, LocativeSend, LocativeCons, Revoke, Exit, StartAtomic, Labels
    <2>3. ASSUME NEW t \in Actors, Step(t)
          PROVE  pc' \in [Actors -> Labels]
      BY <2>0, <2>1, <2>3
         DEF Step, Return, SendRevoked, SendExpires, SendBudget, SendCharge, Deliver,
             ConsExpires, ConsRevoked, ConsBudget, ConsDerive, Unwind, EndAtomic, Labels
    <2>4. CASE UNCHANGED pc
      BY <2>0, <2>4
    <2> QED
      BY <2>2, <2>3, <2>4 DEF Next, vars, Tick
  <1> DEFINE CallOK == /\ call' \in [Actors -> Call]
                       /\ \A t \in Actors : pc'[t] # "idle" => call'[t].x \in Made'
  <1>4. CallOK
    <2>0. /\ NoCall \in Call
          /\ Made \subseteq Made' /\ Made \subseteq Locatives
          /\ call \in [Actors -> Call] /\ pc \in [Actors -> Labels]
          /\ \A t \in Actors : pc[t] # "idle" => call[t].x \in Made
      BY <1>0 DEF NoCall, Call, Frame, TypeOK, Deadline, Count
    <2>1. ASSUME NEW t \in Actors, NEW x \in Made, LocativeSend(t, x)
          PROVE  CallOK
      <3>1. [NoCall EXCEPT !.op = "send", !.x = x] \in Call
        BY <2>0 DEF NoCall, Call
      <3>2. [NoCall EXCEPT !.op = "send", !.x = x].x = x
        BY DEF NoCall
      <3> QED
        BY <2>0, <2>1, <3>1, <3>2 DEF LocativeSend, Goto
    <2>2. ASSUME NEW t \in Actors, NEW x \in Made, NEW e \in ExpiresArgs,
                 NEW n \in SendsArgs, NEW q \in SendersArgs, LocativeCons(t, x, e, n, q)
          PROVE  CallOK
      <3> DEFINE c == [NoCall EXCEPT !.op = "cons", !.x = x, !.expires = e,
                                     !.sends = n, !.senders = q]
      <3>1. c \in Call /\ c.x = x
        BY <2>0, ConstantsAssumption DEF NoCall, Call, Deadline, Count
      <3>2. call' = [call EXCEPT ![t] = c] /\ pc' = [pc EXCEPT ![t] = "enter"]
        BY <2>2 DEF LocativeCons, Goto
      <3> QED
        BY <2>0, <3>1, <3>2
    <2>3. ASSUME NEW t \in Actors, StartAtomic(t)
          PROVE  CallOK
      <3>1. /\ call' = [call EXCEPT ![t].began = now, ![t].clean = ~IsRevoked(call[t].x)]
            /\ pc[t] = "enter" /\ now \in Nat
            /\ \A u \in Actors \ {t} : pc'[u] = pc[u]
        BY <1>0, <2>0, <2>3 DEF StartAtomic, Goto, TypeOK
      <3>2. call'[t].x = call[t].x /\ call' \in [Actors -> Call]
        BY <2>0, <3>1 DEF Call, IsRevoked
      <3>3. \A u \in Actors \ {t} : call'[u] = call[u]
        BY <2>0, <3>1
      <3> QED
        BY <2>0, <3>1, <3>2, <3>3
    <2>4. ASSUME NEW t \in Actors, Return(t)
          PROVE  CallOK
      BY <2>0, <2>4 DEF Return, Goto
    <2>5. ASSUME NEW t \in Actors, SendCharge(t)
          PROVE  CallOK
      <3>1. /\ call' = [call EXCEPT ![t].ok = TRUE] /\ pc[t] = "sendCharge"
            /\ \A u \in Actors \ {t} : pc'[u] = pc[u]
        BY <2>0, <2>5 DEF SendCharge, Goto
      <3>2. call'[t].x = call[t].x /\ call' \in [Actors -> Call]
            /\ \A u \in Actors \ {t} : call'[u] = call[u]
        BY <2>0, <3>1 DEF Call
      <3> QED
        BY <2>0, <3>1, <3>2
    <2>6. ASSUME UNCHANGED call,
                 \A t \in Actors : pc'[t] # pc[t] => pc[t] # "idle"
          PROVE  CallOK
      BY <2>0, <2>6
    <2>7. ASSUME NEW t \in Actors, Step(t)
          PROVE  CallOK
      <3>1. CASE SendCharge(t) \/ Return(t)
        BY <2>4, <2>5, <3>1
      <3>2. CASE ~SendCharge(t) /\ ~Return(t)
        <4>1. UNCHANGED call
          BY <2>7, <3>2 DEF Step, SendRevoked, SendExpires, SendBudget, Deliver, ConsExpires,
                ConsRevoked, ConsBudget, ConsDerive, EndAtomic, Unwind
        <4>2. /\ pc[t] # "idle"
              /\ \A u \in Actors \ {t} : pc'[u] = pc[u]
          BY <2>0, <2>7, <3>2 DEF Step, Goto, SendRevoked, SendExpires, SendBudget, Deliver,
                ConsExpires, ConsRevoked, ConsBudget, ConsDerive, EndAtomic, Unwind
        <4> QED
          BY <2>6, <4>1, <4>2
      <3> QED
        BY <3>1, <3>2
    <2>8. CASE UNCHANGED <<call, pc>>
      BY <2>6, <2>8
    <2> QED
      BY <2>1, <2>2, <2>3, <2>7, <2>8 DEF Next, vars, Act, Revoke, Exit, Tick
  <1> QED
    BY <1>0, <1>1, <1>2, <1>3, <1>4 DEF TypeOK, Frame

\* Every step keeps what is known of a call from the label of its thread.
LEMMA CallStep ==
    ASSUME Inv, [Next]_vars
    PROVE  CallInv'
  <1>0. /\ pc \in [Actors -> Labels] /\ call \in [Actors -> Call]
        /\ CallInv
    BY DEF Inv, TypeOK
  <1> DEFINE At(t) ==
        /\ pc[t] = "idle" => call[t] = NoCall
        /\ pc[t] # "idle" => call[t].op # "none"
        /\ pc[t] \in SendLabels => call[t].op = "send"
        /\ pc[t] \in ConsLabels => call[t].op = "cons"
        /\ pc[t] = "deliver" => call[t].ok
        /\ call[t].ok => call[t].op = "send" /\ pc[t] \in {"leave", "deliver"}
        /\ call[t].op = "cons" =>
              /\ call[t].expires \in ExpiresArgs
              /\ call[t].sends \in SendsArgs
              /\ call[t].senders \in SendersArgs
  <1>1. /\ \A t \in Actors : At(t)
        /\ (\A t \in Actors : At(t)') => CallInv'
    BY <1>0 DEF CallInv
  <1>2. ASSUME NEW t \in Actors,
               \A u \in Actors \ {t} : pc'[u] = pc[u] /\ call'[u] = call[u],
               At(t)'
        PROVE  CallInv'
    BY <1>1, <1>2
  <1> DEFINE Rest1(t) == \A u \in Actors \ {t} : pc'[u] = pc[u] /\ call'[u] = call[u]
  <1>3. ASSUME NEW t \in Actors, NEW x \in Made, LocativeSend(t, x)
        PROVE  CallInv'
    <2>1. /\ Rest1(t) /\ pc'[t] = "enter"
          /\ call'[t] = [NoCall EXCEPT !.op = "send", !.x = x]
      BY <1>0, <1>3 DEF LocativeSend, Goto
    <2> QED
      BY <1>2, <2>1 DEF NoCall, SendLabels, ConsLabels
  <1>4. ASSUME NEW t \in Actors, NEW x \in Made, NEW e \in ExpiresArgs,
               NEW n \in SendsArgs, NEW q \in SendersArgs, LocativeCons(t, x, e, n, q)
        PROVE  CallInv'
    <2>1. /\ Rest1(t) /\ pc'[t] = "enter"
          /\ call'[t] = [NoCall EXCEPT !.op = "cons", !.x = x, !.expires = e,
                                       !.sends = n, !.senders = q]
      BY <1>0, <1>4 DEF LocativeCons, Goto
    <2> QED
      BY <1>2, <2>1 DEF NoCall, SendLabels, ConsLabels
  <1>5. ASSUME NEW t \in Actors, StartAtomic(t)
        PROVE  CallInv'
    <2>1. /\ Rest1(t) /\ pc[t] = "enter"
          /\ pc'[t] = IF call[t].op = "send" THEN "sendRevoked" ELSE "consExpires"
          /\ call'[t] = [call[t] EXCEPT !.began = now, !.clean = ~IsRevoked(call[t].x)]
      BY <1>0, <1>5 DEF StartAtomic, Goto
    <2>2. /\ call'[t].op = call[t].op /\ call'[t].ok = call[t].ok
          /\ call'[t].expires = call[t].expires /\ call'[t].sends = call[t].sends
          /\ call'[t].senders = call[t].senders
          /\ call[t].op \in {"none", "send", "cons"}
      BY <1>0, <2>1 DEF Call
    <2>3. At(t)
      BY <1>1
    <2>4. At(t)'
      BY <2>1, <2>2, <2>3 DEF SendLabels, ConsLabels
    <2> HIDE DEF At
    <2> QED
      BY <1>2, <2>1, <2>4
  <1>6. ASSUME NEW t \in Actors, Return(t)
        PROVE  CallInv'
    <2>1. Rest1(t) /\ pc'[t] = "idle" /\ call'[t] = NoCall
      BY <1>0, <1>6 DEF Return, Goto
    <2> QED
      BY <1>2, <2>1 DEF NoCall, SendLabels, ConsLabels
  <1>7. ASSUME NEW t \in Actors, SendCharge(t)
        PROVE  CallInv'
    <2>1. /\ Rest1(t) /\ pc[t] = "sendCharge" /\ pc'[t] = "leave"
          /\ call'[t] = [call[t] EXCEPT !.ok = TRUE]
      BY <1>0, <1>7 DEF SendCharge, Goto
    <2>2. /\ call'[t].op = call[t].op /\ call'[t].ok
          /\ call'[t].expires = call[t].expires /\ call'[t].sends = call[t].sends
          /\ call'[t].senders = call[t].senders
      BY <1>0, <2>1 DEF Call
    <2>3. At(t)
      BY <1>1
    <2>4. At(t)'
      BY <2>1, <2>2, <2>3 DEF SendLabels, ConsLabels
    <2> HIDE DEF At
    <2> QED
      BY <1>2, <2>1, <2>4
  <1>8. ASSUME NEW t \in Actors, Step(t), ~SendCharge(t), ~Return(t)
        PROVE  CallInv'
    <2>1. UNCHANGED call
      BY <1>8 DEF Step, SendRevoked, SendExpires, SendBudget, Deliver, ConsExpires,
            ConsRevoked, ConsBudget, ConsDerive, EndAtomic, Unwind
    <2>2. \A u \in Actors \ {t} : pc'[u] = pc[u]
      BY <1>0, <1>8 DEF Step, Goto, SendRevoked, SendExpires, SendBudget, Deliver,
            ConsExpires, ConsRevoked, ConsBudget, ConsDerive, EndAtomic, Unwind
    <2>3. \/ pc[t] \in SendLabels \ {"deliver"}
             /\ pc'[t] \in (SendLabels \ {"deliver"}) \cup {"leave", "raised"}
          \/ pc[t] \in ConsLabels /\ pc'[t] \in ConsLabels \cup {"leave", "raised"}
          \/ pc[t] = "leave" /\ pc'[t] = "deliver" /\ call[t].ok
      BY <1>0, <1>8 DEF Step, Goto, SendRevoked, SendExpires, SendBudget, Deliver,
            ConsExpires, ConsRevoked, ConsBudget, ConsDerive, EndAtomic, Unwind,
            SendLabels, ConsLabels
    <2> QED
      BY <1>1, <1>2, <2>1, <2>2, <2>3 DEF SendLabels, ConsLabels
  <1>9. CASE UNCHANGED <<pc, call>>
    BY <1>0, <1>9 DEF CallInv
  <1> QED
    BY <1>3, <1>4, <1>5, <1>6, <1>7, <1>8, <1>9
       DEF Next, vars, Act, Revoke, Exit, Tick

\* Every step keeps the exclusion by ATOMIC (start-atomic, end-atomic).
LEMMA LockStep ==
    ASSUME Inv, [Next]_vars
    PROVE  LockInv'
  <1>0. /\ pc \in [Actors -> Labels] /\ atomic \in {0, 1}
        /\ LockInv
    BY DEF Inv, TypeOK
  <1> DEFINE Alone(t) == \A u \in Actors \ {t} : pc'[u] = pc[u]
  <1>1. ASSUME NEW t \in Actors, StartAtomic(t)
        PROVE  LockInv'
    <2>1. Alone(t) /\ atomic = 1 /\ atomic' = 0
      BY <1>0, <1>1 DEF StartAtomic, Goto
    <2>2. \A u \in Actors : ~InAtomic(u)
      BY <1>0, <2>1 DEF LockInv
    <2> QED
      BY <2>1, <2>2 DEF LockInv, InAtomic
  <1>2. ASSUME NEW t \in Actors, EndAtomic(t)
        PROVE  LockInv'
    <2>1. Alone(t) /\ pc[t] = "leave" /\ pc'[t] \in {"idle", "deliver"}
      BY <1>0, <1>2 DEF EndAtomic, Goto, Return
    <2>2. InAtomic(t) /\ ~(InAtomic(t))'
      BY <2>1 DEF InAtomic, CriticalLabels, Labels
    <2>3. \A u \in Actors : ~(InAtomic(u))'
      BY <1>0, <2>1, <2>2 DEF LockInv, InAtomic
    <2> QED
      BY <2>3 DEF LockInv
  <1>3. ASSUME NEW t \in Actors, Alone(t), UNCHANGED atomic, (InAtomic(t))' => InAtomic(t)
        PROVE  LockInv'
    BY <1>0, <1>3 DEF LockInv, InAtomic
  <1>4. ASSUME NEW t \in Actors, Act(t)
        PROVE  LockInv'
    <2>1. Alone(t) /\ UNCHANGED atomic /\ pc'[t] \in {"idle", "enter"}
      BY <1>0, <1>4 DEF Act, LocativeSend, LocativeCons, Revoke, Exit, Goto, Idle
    <2>2. ~(InAtomic(t))'
      BY <2>1 DEF InAtomic, CriticalLabels
    <2> QED
      BY <1>3, <2>1, <2>2
  <1>5. ASSUME NEW t \in Actors, Step(t), ~EndAtomic(t)
        PROVE  LockInv'
    <2>1. Alone(t) /\ UNCHANGED atomic
      BY <1>0, <1>5 DEF Step, Goto, Return, SendRevoked, SendExpires, SendBudget,
            SendCharge, Deliver, ConsExpires, ConsRevoked, ConsBudget, ConsDerive, Unwind
    <2>2. InAtomic(t) \/ pc'[t] = "idle"
      BY <1>0, <1>5 DEF Step, Goto, Return, SendRevoked, SendExpires, SendBudget,
            SendCharge, Deliver, ConsExpires, ConsRevoked, ConsBudget, ConsDerive, Unwind,
            InAtomic, CriticalLabels, Labels
    <2>3. (InAtomic(t))' => InAtomic(t)
      BY <2>2 DEF InAtomic, CriticalLabels
    <2> QED
      BY <1>3, <2>1, <2>3
  <1>6. CASE UNCHANGED <<pc, atomic>>
    BY <1>0, <1>6 DEF LockInv, InAtomic
  <1> QED
    BY <1>1, <1>2, <1>4, <1>5, <1>6 DEF Next, vars, Tick

\* Every step keeps the counters of the tree that prior links form.
LEMMA TreeStep ==
    ASSUME Inv, [Next]_vars
    PROVE  TreeInv'
  <1>0. Frame /\ TreeInv
    BY FrameStep DEF Inv
  <1>1. \A x \in Made : /\ loc'[x].counter \in Made'
                        /\ loc'[loc'[x].counter].sends # None
                        /\ loc'[x].sends # None => loc'[x].counter = x
    BY <1>0 DEF Frame, TreeInv, Kept, SameShape
  <1>2. ASSUME NEW y \in Made' \ Made
        PROVE  /\ loc'[y].counter \in Made'
               /\ loc'[loc'[y].counter].sends # None
               /\ loc'[y].sends # None => loc'[y].counter = y
    <2>1. PICK t \in Actors : ConsDerive(t, y)
      BY <1>0 DEF Frame
    <2>2. y \in Locatives
      BY <1>0 DEF Frame
    <2> DEFINE x == call[t].x
    <2>3. x \in Made /\ loc'[y] = Derived(x, y, call[t])
      BY <2>1, <2>2, DeriveKeeps
    <2>4. /\ loc'[y].sends = call[t].sends
          /\ loc'[y].counter = IF call[t].sends = None THEN loc[x].counter ELSE y
      BY <2>3 DEF Derived
    <2>5. /\ loc[x].counter \in Made /\ loc[loc[x].counter].sends # None
      BY <1>0, <2>3 DEF TreeInv
    <2>6. loc[x].counter \in Made' /\ loc'[loc[x].counter].sends # None
      BY <1>0, <2>5 DEF Frame, Kept
    <2> QED
      BY <2>4, <2>6
  <1> QED
    BY <1>0, <1>1, <1>2 DEF TreeInv, Frame

\* While a thread is inside ATOMIC, no other thread changes a sends count.
LEMMA SendsKept ==
    ASSUME Inv, [Next]_vars, NEW u \in Actors, InAtomic(u), pc'[u] = pc[u]
    PROVE  /\ \A x \in Made : loc'[x].sends = loc[x].sends
           /\ call'[u] = call[u]
  <1>0. /\ pc \in [Actors -> Labels] /\ call \in [Actors -> Call]
        /\ LockInv /\ TypeOK
        /\ atomic = 0
    BY DEF Inv, TypeOK, LockInv
  <1>1. ASSUME NEW t \in Actors, Step(t)
        PROVE  /\ \A x \in Made : loc'[x].sends = loc[x].sends
               /\ call'[u] = call[u]
    <2>1. pc'[t] # pc[t]
      BY <1>0, <1>1 DEF Step, Goto, Return, SendRevoked, SendExpires, SendBudget,
            SendCharge, Deliver, ConsExpires, ConsRevoked, ConsBudget, ConsDerive, Unwind,
            EndAtomic
    <2>2. t # u
      BY <2>1
    <2>3. ~InAtomic(t)
      BY <1>0, <2>2 DEF LockInv
    <2>4. Deliver(t) \/ Unwind(t)
      BY <1>1, <2>3 DEF Step, SendRevoked, SendExpires, SendBudget, SendCharge,
            ConsExpires, ConsRevoked, ConsBudget, ConsDerive, EndAtomic,
            InAtomic, CriticalLabels, Labels
    <2> QED
      BY <1>0, <2>2, <2>4 DEF Deliver, Unwind, Return
  <1>2. ASSUME NEW t \in Actors, Act(t)
        PROVE  /\ \A x \in Made : loc'[x].sends = loc[x].sends
               /\ call'[u] = call[u]
    <2>1. pc[t] = "idle"
      BY <1>2 DEF Act, LocativeSend, LocativeCons, Revoke, Exit, Idle
    <2>2. t # u
      BY <2>1 DEF InAtomic, CriticalLabels
    <2>3. call'[u] = call[u]
      BY <1>0, <1>2, <2>2 DEF Act, LocativeSend, LocativeCons, Revoke, Exit
    <2>4. CASE UNCHANGED loc
      BY <2>3, <2>4
    <2>5. ASSUME NEW y \in Made, Revoke(t, y)
          PROVE  \A x \in Made : loc'[x].sends = loc[x].sends
      <3>1. /\ loc \in [Made -> Locative]
            /\ loc' = [loc EXCEPT ![y].revoked = TRUE]
        BY <1>0, <2>5 DEF TypeOK, Revoke
      <3> QED
        BY <3>1 DEF Locative
    <2> QED
      BY <1>2, <2>3, <2>4, <2>5 DEF Act, LocativeSend, LocativeCons, Exit
  <1>3. ASSUME NEW t \in Actors, StartAtomic(t)
        PROVE  FALSE
    BY <1>0, <1>3 DEF StartAtomic
  <1>4. CASE UNCHANGED <<loc, call>>
    BY <1>4
  <1> QED
    BY <1>1, <1>2, <1>3, <1>4 DEF Next, vars, Tick

\* What a thread checked inside ATOMIC stays true until it acts, whatever the
\* other threads do (locative/sendable?, locative/cons/any).
LEMMA CheckedStep ==
    ASSUME Inv, [Next]_vars
    PROVE  CheckedInv'
  <1>0. /\ pc \in [Actors -> Labels] /\ call \in [Actors -> Call]
        /\ CheckedInv /\ TypeOK /\ TreeInv /\ Frame
        /\ \A t \in Actors : pc[t] # "idle" => call[t].x \in Made
    BY FrameStep DEF Inv, TypeOK
  <1> DEFINE Checked(t) ==
        /\ pc[t] = "sendCharge" => IsPositive(call[t].x)
        /\ pc[t] \in {"consRevoked", "consBudget", "consDerive"} =>
              /\ MayExpireAt(call[t].x, call[t].expires)
              /\ ~RaisesOnExpires(call[t].x, call[t].expires)
        /\ pc[t] = "consDerive" =>
              /\ IsPositive(call[t].x)
              /\ MayTake(call[t].x, call[t].sends)
              /\ ~RaisesOnSends(call[t].x, call[t].sends)
  <1>1. /\ \A t \in Actors : Checked(t)
        /\ (\A t \in Actors : Checked(t)') => CheckedInv'
    BY <1>0 DEF CheckedInv
  <1> DEFINE Acting == {"sendCharge", "consRevoked", "consBudget", "consDerive"}
  <1>2. ASSUME NEW u \in Actors, pc'[u] = pc[u], pc[u] \in Acting
        PROVE  Checked(u)'
    <2>1. InAtomic(u)
      BY <1>2 DEF InAtomic, CriticalLabels, Labels
    <2>2. /\ \A x \in Made : loc'[x].sends = loc[x].sends
          /\ call'[u] = call[u]
      BY <1>2, <2>1, SendsKept
    <2> DEFINE x == call[u].x
    <2>3. x \in Made /\ loc[x].counter \in Made
      BY <1>0, <1>2 DEF TreeInv
    <2>4. /\ loc'[x].sends = loc[x].sends
          /\ loc'[x].expires = loc[x].expires
          /\ loc'[loc'[x].counter].sends = loc[loc[x].counter].sends
      BY <1>0, <2>2, <2>3 DEF Frame, Kept, SameShape
    <2>5. Checked(u)
      BY <1>1
    <2> QED
      BY <1>2, <2>2, <2>4, <2>5
         DEF IsPositive, MayExpireAt, RaisesOnExpires, MayTake, RaisesOnSends
  <1>3. ASSUME NEW u \in Actors, pc'[u] # pc[u], pc'[u] \in Acting
        PROVE  Checked(u)'
    <2>1. Step(u)
      <3>1. ASSUME NEW t \in Actors, Act(t)
            PROVE  pc'[u] \in {pc[u], "enter"}
        BY <1>0, <3>1 DEF Act, LocativeSend, LocativeCons, Revoke, Exit, Goto
      <3>2. ASSUME NEW t \in Actors, StartAtomic(t)
            PROVE  pc'[u] \in {pc[u], "sendRevoked", "consExpires"}
        BY <1>0, <3>2 DEF StartAtomic, Goto
      <3>3. ASSUME NEW t \in Actors, Step(t), t # u
            PROVE  pc'[u] = pc[u]
        BY <1>0, <3>3 DEF Step, Goto, Return, SendRevoked, SendExpires, SendBudget,
              SendCharge, Deliver, ConsExpires, ConsRevoked, ConsBudget, ConsDerive,
              Unwind, EndAtomic
      <3> QED
        BY <1>3, <3>1, <3>2, <3>3 DEF Next, vars, Tick
    <2> DEFINE x == call[u].x
    <2>2. CASE SendBudget(u)
      <3>1. pc'[u] = "sendCharge" /\ IsPositive(x) /\ UNCHANGED <<loc, call>>
        BY <1>0, <1>3, <2>2 DEF SendBudget, Goto
      <3> QED
        BY <3>1 DEF IsPositive
    <2>3. CASE ConsExpires(u)
      <3>1. /\ pc'[u] = "consRevoked" /\ MayExpireAt(x, call[u].expires)
            /\ ~RaisesOnExpires(x, call[u].expires) /\ UNCHANGED <<loc, call>>
        BY <1>0, <1>3, <2>3 DEF ConsExpires, Goto
      <3> QED
        BY <3>1 DEF MayExpireAt, RaisesOnExpires
    <2>4. CASE ConsRevoked(u)
      <3>1. /\ pc'[u] = "consBudget" /\ pc[u] = "consRevoked" /\ UNCHANGED call
            /\ x \in Made
        BY <1>0, <1>3, <2>4 DEF ConsRevoked, Goto
      <3>2. loc'[x].expires = loc[x].expires
        BY <1>0, <3>1 DEF Frame, Kept, SameShape
      <3>3. Checked(u)
        BY <1>1
      <3> QED
        BY <3>1, <3>2, <3>3 DEF MayExpireAt, RaisesOnExpires
    <2>5. CASE ConsBudget(u)
      <3>1. /\ pc'[u] = "consDerive" /\ pc[u] = "consBudget" /\ UNCHANGED <<loc, call>>
            /\ IsPositive(x) /\ MayTake(x, call[u].sends)
            /\ ~RaisesOnSends(x, call[u].sends)
        BY <1>0, <1>3, <2>5 DEF ConsBudget, Goto
      <3>2. Checked(u)
        BY <1>1
      <3> QED
        BY <3>1, <3>2 DEF IsPositive, MayExpireAt, RaisesOnExpires, MayTake, RaisesOnSends
    <2>6. pc'[u] \in Acting => SendBudget(u) \/ ConsExpires(u) \/ ConsRevoked(u) \/ ConsBudget(u)
      BY <1>0, <2>1 DEF Step, Goto, Return, SendRevoked, SendExpires, SendCharge, Deliver,
            ConsDerive, Unwind, EndAtomic
    <2> QED
      BY <1>3, <2>2, <2>3, <2>4, <2>5, <2>6
  <1>4. ASSUME NEW u \in Actors, pc'[u] \notin Acting
        PROVE  Checked(u)'
    BY <1>4
  <1> HIDE DEF Checked
  <1> QED
    BY <1>1, <1>2, <1>3, <1>4

\* Every step keeps granted = left + lent + spent for each finite count.
LEMMA AccountStep ==
    ASSUME Inv, [Next]_vars
    PROVE  AccountInv'
  <1>0. /\ loc \in [Made -> Locative] /\ ledger \in [Made -> Account]
        /\ Frame /\ AccountInv /\ CheckedInv
        /\ \A t \in Actors : pc[t] # "idle" => call[t].x \in Made
    BY FrameStep DEF Inv, TypeOK
  <1> DEFINE Balanced(c) ==
        /\ loc[c].sends = Inf <=> ledger[c].granted = Inf
        /\ loc[c].sends = None <=> ledger[c].granted = None
        /\ Finite(c) =>
              ledger[c].granted = loc[c].sends + ledger[c].lent + ledger[c].spent
  <1> DEFINE StillBalanced(c) ==
        /\ loc'[c].sends = Inf <=> ledger'[c].granted = Inf
        /\ loc'[c].sends = None <=> ledger'[c].granted = None
        /\ ledger'[c].granted \in Nat =>
              ledger'[c].granted = loc'[c].sends + ledger'[c].lent + ledger'[c].spent
  <1>1. /\ \A c \in Made : Balanced(c)
        /\ (\A c \in Made' : StillBalanced(c)) => AccountInv'
    BY <1>0 DEF AccountInv, Finite
  <1>2. \A c \in Made : /\ loc[c].sends \in Count /\ ledger[c].granted \in Count
                        /\ ledger[c].lent \in Nat /\ ledger[c].spent \in Nat
                        /\ Finite(c) <=> loc[c].sends \in Nat
                        /\ ledger[c] \in Account
    BY <1>0, <1>1, ConstantsAssumption DEF Locative, Account, Count, Finite
  <1>3. ASSUME Made' = Made,
               \A c \in Made : /\ loc'[c].sends = loc[c].sends
                               /\ ledger'[c].granted = ledger[c].granted
                               /\ ledger'[c].lent = ledger[c].lent
                               /\ ledger'[c].spent = ledger[c].spent
        PROVE  AccountInv'
    BY <1>1, <1>3 DEF AccountInv, Finite
  <1>4. CASE UNCHANGED <<loc, ledger>>
    BY <1>3, <1>4 DEF Made
  <1>5. ASSUME NEW t \in Actors, NEW x \in Made, CacheRevoked(t, x), UNCHANGED ledger
        PROVE  AccountInv'
    <2>1. Made' = Made /\ \A c \in Made : loc'[c].sends = loc[c].sends
      BY <1>5, CacheKeeps DEF Inv
    <2> QED
      BY <1>3, <1>5, <2>1
  <1>6. ASSUME NEW t \in Actors, NEW x \in Made, Revoke(t, x)
        PROVE  AccountInv'
    <2>1. UNCHANGED ledger /\ loc' = [loc EXCEPT ![x].revoked = TRUE]
      BY <1>6 DEF Revoke
    <2>2. Made' = Made /\ \A c \in Made : loc'[c].sends = loc[c].sends
      BY <1>0, <2>1 DEF Made, Locative
    <2> QED
      BY <1>3, <2>1, <2>2
  <1>7. ASSUME NEW t \in Actors, SendCharge(t)
        PROVE  AccountInv'
    <2> DEFINE x == call[t].x
               c == loc[x].counter
    <2>1. /\ x \in Made /\ Charge(x) /\ IsPositive(x)
      BY <1>0, <1>7 DEF SendCharge, CheckedInv
    <2>2. /\ c \in Made /\ Made' = Made
          /\ \A y \in Made \ {c} : loc'[y] = loc[y] /\ ledger'[y] = ledger[y]
          /\ loc'[c].sends = IF loc[c].sends \in Nat \ {0} THEN loc[c].sends - 1
                             ELSE loc[c].sends
          /\ ledger'[c] = IF Finite(c)
                          THEN [ledger[c] EXCEPT !.spent = @ + 1] ELSE ledger[c]
      BY <2>1, ChargeKeeps
    <2>3. loc[c].sends # 0
      BY <2>1 DEF IsPositive
    <2>4. /\ ledger'[c].granted = ledger[c].granted /\ ledger'[c].lent = ledger[c].lent
          /\ ledger'[c].spent = IF Finite(c) THEN ledger[c].spent + 1 ELSE ledger[c].spent
      BY <1>2, <2>2 DEF Account
    <2> HIDE DEF c
    <2>5. StillBalanced(c)
      <3>0. Balanced(c)
        BY <1>1, <2>2
      <3>1. CASE Finite(c)
        <4>1. /\ loc[c].sends \in Nat \ {0} /\ loc'[c].sends = loc[c].sends - 1
              /\ loc'[c].sends \in Nat /\ ledger[c].granted \in Nat
              /\ ledger'[c].granted \in Nat
              /\ ledger'[c].lent = ledger[c].lent
              /\ ledger'[c].spent = ledger[c].spent + 1
              /\ ledger[c].lent \in Nat /\ ledger[c].spent \in Nat
          BY <1>2, <2>2, <2>3, <2>4, <3>1 DEF Finite
        <4>2. ledger[c].granted = loc[c].sends + ledger[c].lent + ledger[c].spent
          BY <3>0, <3>1
        <4>3. ledger'[c].granted = loc'[c].sends + ledger'[c].lent + ledger'[c].spent
          BY <2>4, <4>1, <4>2
        <4> QED
          BY <4>1, <4>3, ConstantsAssumption DEF Finite
      <3>2. CASE ~Finite(c)
        <4>1. loc'[c].sends = loc[c].sends /\ ledger'[c] = ledger[c]
          BY <1>2, <2>2, <3>2
        <4> QED
          BY <3>0, <3>2, <4>1 DEF Finite
      <3> QED
        BY <3>1, <3>2
    <2>6. \A y \in Made \ {c} : StillBalanced(y)
      BY <1>1, <2>2 DEF Finite
    <2>7. \A y \in Made' : StillBalanced(y)
      BY <2>2, <2>5, <2>6
    <2> QED
      BY <1>1, <2>7
  <1>8. ASSUME NEW t \in Actors, NEW y \in Locatives, ConsDerive(t, y)
        PROVE  AccountInv'
    <2> DEFINE x == call[t].x
               n == call[t].sends
    <2>1. /\ x \in Made /\ y \notin Made /\ Made' = Made \cup {y}
          /\ n \in SendsArgs
          /\ loc'[y] = Derived(x, y, call[t])
          /\ ledger'[y] = NewAccount(n)
          /\ \A z \in Made \ {x} : loc'[z] = loc[z] /\ ledger'[z] = ledger[z]
          /\ loc'[x].sends = IF n \in Nat /\ loc[x].sends \in Nat
                             THEN loc[x].sends - n ELSE loc[x].sends
          /\ n \in Nat /\ loc[x].sends \in Nat => n <= loc[x].sends
          /\ ledger'[x] = IF n \in Nat /\ Finite(x)
                          THEN [ledger[x] EXCEPT !.lent = @ + n] ELSE ledger[x]
      BY <1>8, DeriveKeeps
    <2>2. /\ loc'[y].sends = n /\ ledger'[y].granted = n
          /\ ledger'[y].lent = 0 /\ ledger'[y].spent = 0
      BY <2>1 DEF Derived, NewAccount
    <2>3. /\ ledger'[x].granted = ledger[x].granted /\ ledger'[x].spent = ledger[x].spent
          /\ ledger'[x].lent = IF n \in Nat /\ Finite(x) THEN ledger[x].lent + n
                               ELSE ledger[x].lent
      BY <1>2, <2>1 DEF Account
    <2> HIDE DEF x, n
    <2>4. StillBalanced(y)
      BY <2>1, <2>2, ConstantsAssumption DEF Finite
    <2>5. StillBalanced(x)
      <3>0. Balanced(x)
        BY <1>1, <2>1
      <3>1. CASE Finite(x) /\ n \in Nat
        <4>1. /\ loc[x].sends \in Nat /\ n <= loc[x].sends
              /\ loc'[x].sends = loc[x].sends - n
              /\ loc'[x].sends \in Nat
              /\ ledger[x].granted \in Nat /\ ledger'[x].granted \in Nat
              /\ ledger'[x].lent = ledger[x].lent + n
              /\ ledger[x].lent \in Nat /\ ledger[x].spent \in Nat
          BY <1>2, <2>1, <2>3, <3>1 DEF Finite
        <4>2. ledger[x].granted = loc[x].sends + ledger[x].lent + ledger[x].spent
          BY <3>0, <3>1
        <4>3. ledger'[x].granted = loc'[x].sends + ledger'[x].lent + ledger'[x].spent
          BY <2>3, <3>1, <4>1, <4>2
        <4> QED
          BY <4>1, <4>3, ConstantsAssumption DEF Finite
      <3>2. CASE ~(Finite(x) /\ n \in Nat)
        <4>1. loc'[x].sends = loc[x].sends /\ ledger'[x] = ledger[x]
          BY <1>2, <2>1, <3>2
        <4> QED
          BY <3>0, <3>2, <4>1 DEF Finite
      <3> QED
        BY <3>1, <3>2
    <2>6. \A z \in Made \ {x} : StillBalanced(z)
      BY <1>1, <2>1 DEF Finite
    <2>7. \A z \in Made' : StillBalanced(z)
      BY <2>1, <2>4, <2>5, <2>6
    <2> QED
      BY <1>1, <2>7
  <1>9. ASSUME NEW t \in Actors, Deliver(t)
        PROVE  AccountInv'
    <2> DEFINE c == loc[call[t].x].counter
    <2>1. /\ c \in Made
          /\ \A z \in Made \ {c} : ledger'[z] = ledger[z]
          /\ ledger'[c].granted = ledger[c].granted
          /\ ledger'[c].spent = ledger[c].spent /\ ledger'[c].lent = ledger[c].lent
      BY <1>9, DeliverKeeps
    <2>2. UNCHANGED loc
      BY <1>9 DEF Deliver
    <2> HIDE DEF c
    <2> QED
      BY <1>3, <2>1, <2>2 DEF Made
  <1> QED
    <2>1. ASSUME NEW t \in Actors, Step(t)
          PROVE  AccountInv'
      <3>1. CASE SendRevoked(t) \/ ConsRevoked(t)
        BY <1>0, <1>5, <3>1 DEF SendRevoked, ConsRevoked
      <3> QED
        BY <1>4, <1>7, <1>8, <1>9, <2>1, <3>1
           DEF Step, SendExpires, SendBudget, ConsExpires, ConsBudget, EndAtomic, Unwind
    <2>2. ASSUME NEW t \in Actors, Act(t) \/ StartAtomic(t)
          PROVE  AccountInv'
      BY <1>4, <1>6, <2>2 DEF Act, LocativeSend, LocativeCons, Exit, StartAtomic
    <2> QED
      BY <1>4, <2>1, <2>2 DEF Next, vars, Tick

\* The invariant is inductive.
LEMMA InvStep ==
    ASSUME Inv, [Next]_vars
    PROVE  Inv'
  BY TypeStep, CallStep, LockStep, TreeStep, CheckedStep, AccountStep DEF Inv

\* Inv is an invariant of every behaviour of the locatives.
LEMMA Invariance == Spec => []Inv
  BY InvInit, InvStep, PTL DEF Spec

\* Type correctness of the locatives of an island: no interleaving of sends and
\* derivations takes a count below zero or posts ATOMIC twice.
THEOREM TypeCorrect == Spec => []TypeOK
  <1>1. Inv => TypeOK
    BY DEF Inv
  <1> QED
    BY <1>1, Invariance, PTL
=============================================================================
