-------------------------- MODULE AddressesProofs --------------------------
(***************************************************************************)
(* Proofs about lightning addresses and feature flags, for any set of      *)
(* addresses and any number of threads and of late requests; and about     *)
(* the field in which an address or a number is entered, for any texts,    *)
(* countries, codes and numbers.                                           *)
(***************************************************************************)
EXTENDS Addresses, InputField, FiniteSetTheorems, WellFoundedInduction, SequenceTheorems, TLAPS

-----------------------------------------------------------------------------
(* The inductive invariant.  Agreement speaks of addresses no call is at     *)
(* work on.  What makes it last is what a call that has an address to itself *)
(* may rely on while it is at work.                                          *)

\* No other call is at work on an address a call has to itself.
AloneIsAlone ==
  \A t, u \in Threads : t # u /\ InFlight(u) => call[t].alone \cap call[u].set = {}

\* The backend has done what a call asked for on the addresses of its own.
AppliedIsThere ==
  \A t \in Threads : At(t, "applied") =>
    \A a \in call[t].set \cap call[t].alone :
      call[t].verb # "assign" => backend[a] = AtBackend(ToStatus(call[t].verb))

\* The addresses of a feature that a call did not have to ask for keep the
\* status it read.
NotAskedIsThere ==
  \A t \in Threads : InFlight(t) =>
    \A a \in call[t].alone \ call[t].set : local[a] = ToStatus(call[t].verb)

IInv == TypeOK /\ AloneIsAlone /\ AppliedIsThere /\ NotAskedIsThere /\ Agreement

-----------------------------------------------------------------------------
AnyCall ==
  [at : {"idle", "asking", "applied", "done"}, verb : Verbs \cup {"none"},
   set : SUBSET Addresses, alone : SUBSET Addresses]

LEMMA CallTypes ==
  ASSUME TypeOK, NEW t \in Threads
  PROVE  /\ call[t] \in AnyCall
         /\ call[t].at # "idle" => call[t] \in Calls /\ call[t].verb \in Verbs
         /\ call[t].at = "idle" => call[t] = Idle
         /\ InFlight(t) => call[t].set # {}
<1>1. CASE call[t] = Idle
  BY <1>1 DEF Idle, AnyCall, InFlight
<1>2. CASE call[t] \in [at : {"asking", "applied"}, verb : Verbs,
                       set : (SUBSET Addresses) \ {{}}, alone : SUBSET Addresses]
  <2>1. call[t] \in [at : {"idle", "asking", "applied", "done"}, verb : Verbs \cup {"none"},
                     set : SUBSET Addresses, alone : SUBSET Addresses]
    BY <1>2
  <2> QED
    BY <1>2, <2>1 DEF AnyCall, Calls
<1>3. CASE call[t] \in [at : {"done"}, verb : Verbs, set : SUBSET Addresses,
                       alone : SUBSET Addresses]
  BY <1>3 DEF AnyCall, Calls, InFlight
<1> QED
  BY <1>1, <1>2, <1>3 DEF TypeOK, Calls

\* Narrowing what calls have to themselves leaves everything else.
LEMMA JoinedEffect ==
  ASSUME TypeOK, NEW S \in SUBSET Addresses
  PROVE  /\ Joined(S) \in [Threads -> Calls \cup {Idle}]
         /\ \A u \in Threads :
              /\ Joined(S)[u].at = call[u].at /\ Joined(S)[u].verb = call[u].verb
              /\ Joined(S)[u].set = call[u].set /\ Joined(S)[u].alone = call[u].alone \ S
<1>1. ASSUME NEW u \in Threads
      PROVE  /\ Joined(S)[u].at = call[u].at /\ Joined(S)[u].verb = call[u].verb
             /\ Joined(S)[u].set = call[u].set /\ Joined(S)[u].alone = call[u].alone \ S
  BY CallTypes DEF Joined, AnyCall
<1>2. ASSUME NEW u \in Threads PROVE Joined(S)[u] \in Calls \cup {Idle}
  <2>1. CASE call[u] = Idle
    BY <2>1 DEF Joined, Idle
  <2>2. CASE call[u] \in Calls
    BY <2>2 DEF Joined, Calls
  <2> QED
    BY <2>1, <2>2 DEF TypeOK
<1> QED
  BY <1>1, <1>2 DEF Joined

\* Where a call stands after a step, the others being as they were.
Others(t) == \A u \in Threads : u # t => call'[u] = call[u]

Stands(t, step) ==
  /\ call' \in [Threads -> Calls \cup {Idle}] /\ Others(t)
  /\ call'[t].at = step /\ call'[t].verb = call[t].verb
  /\ call'[t].set = call[t].set /\ call'[t].alone = call[t].alone

Ended(t) ==
  call' \in [Threads -> Calls \cup {Idle}] /\ Others(t) /\ call'[t] = Idle

LEMMA StandsEffect ==
  ASSUME TypeOK, NEW t \in Threads, InFlight(t), NEW step \in {"asking", "applied", "done"},
         call' = [call EXCEPT ![t].at = step]
  PROVE  Stands(t, step)
<1>1. call[t] \in Calls
  BY CallTypes DEF InFlight
<1>2. call[t].set # {}
  BY CallTypes
<1>3. [call[t] EXCEPT !.at = step] \in Calls
  BY <1>1, <1>2 DEF Calls
<1> QED
  BY <1>1, <1>3 DEF TypeOK, Stands, Others, Calls

LEMMA EndedEffect ==
  ASSUME TypeOK, NEW t \in Threads, call' = [call EXCEPT ![t] = Idle]
  PROVE  Ended(t)
BY DEF TypeOK, Ended, Others

\* The start of a call takes what it works on away from the others.
Begun(t, verb, S, A) ==
  /\ call' \in [Threads -> Calls \cup {Idle}]
  /\ call'[t].at = "asking" /\ call'[t].verb = verb /\ call'[t].set = S
  /\ call'[t].alone = A \ Busy(t)
  /\ \A u \in Threads : u # t =>
       /\ call'[u].at = call[u].at /\ call'[u].verb = call[u].verb
       /\ call'[u].set = call[u].set /\ call'[u].alone = call[u].alone \ S

LEMMA BeginEffect ==
  ASSUME TypeOK, NEW t \in Threads, NEW verb \in Verbs,
         NEW S \in (SUBSET Addresses) \ {{}}, NEW A \in SUBSET Addresses,
         Begin(t, verb, S, A)
  PROVE  Begun(t, verb, S, A)
<1>1. [at |-> "asking", verb |-> verb, set |-> S, alone |-> A \ Busy(t)] \in Calls
  BY DEF Calls
<1> QED
  BY <1>1, JoinedEffect DEF Begin, Begun

\* What the backend does to the addresses it is asked for, and to no other.
LEMMA AppliesEffect ==
  ASSUME NEW verb \in Verbs, NEW S \in SUBSET Addresses, Applies(verb, S)
  PROVE  /\ backend' \in [Addresses -> BackendStatus]
         /\ \A a \in Addresses \ S : backend'[a] = backend[a]
         /\ verb # "assign" => \A a \in S : backend'[a] = AtBackend(ToStatus(verb))
BY DEF Applies, Outcomes, AtBackend, ToStatus, Verbs

LEMMA IInvInit == Init => IInv
BY DEF Init, IInv, TypeOK, BackendStatus, Idle, AloneIsAlone, AppliedIsThere,
       NotAskedIsThere,
       Agreement, Agree, At, InFlight

LEMMA IInvStep == IInv /\ [Next]_vars => IInv'
<1> SUFFICES ASSUME IInv, [Next]_vars PROVE IInv'
  OBVIOUS
<1> USE AddressesAssumption DEF InFlight, At
<1>0. TypeOK /\ AloneIsAlone /\ AppliedIsThere /\ NotAskedIsThere /\ Agreement
  BY DEF IInv
<1>a. \A u \in Threads : call[u] \in AnyCall
  BY <1>0, CallTypes
<1>1. ASSUME NEW t \in Threads, NEW a \in Addresses, Register(t, a) PROVE IInv'
  <2>1. Begun(t, "assign", {a}, {a})
    BY <1>0, <1>1, BeginEffect DEF Register, Verbs
  <2>2. TypeOK'
    BY <1>0, <1>1, <2>1 DEF TypeOK, Register, Begun, Busy, Idle
  <2>3. AloneIsAlone'
    BY <1>0, <1>1, <2>1 DEF AloneIsAlone, Register, Begun, Busy, Idle
  <2>4. AppliedIsThere'
    BY <1>0, <1>1, <2>1 DEF AppliedIsThere, Register, Begun, Busy, Idle
  <2>5. NotAskedIsThere'
    BY <1>0, <1>1, <2>1 DEF NotAskedIsThere, Register, Begun, Busy, Idle
  <2>6. Agreement'
    BY <1>0, <1>1, <2>1 DEF Agreement, Agree, Register, Begun, Busy, Idle
  <2> QED
    BY <2>2, <2>3, <2>4, <2>5, <2>6 DEF IInv
<1>2. ASSUME NEW t \in Threads, NEW feature \in FeatureFlags, NEW verb \in {"enable", "disable"},
             SetFeatureFlag(t, feature, verb)
      PROVE  IInv'
  <2>1. /\ Candidates(feature, verb) \in (SUBSET Addresses) \ {{}}
        /\ Known(feature) \in SUBSET Addresses
    BY <1>2 DEF SetFeatureFlag, Candidates, Known, FeatureFlags, WorthAsking
  <2>2. Begun(t, verb, Candidates(feature, verb), Known(feature))
    BY <1>0, <1>2, <2>1, BeginEffect DEF SetFeatureFlag, Verbs
  <2>3. TypeOK'
    BY <1>0, <1>2, <2>1, <2>2 DEF TypeOK, SetFeatureFlag, Begun, Busy, Idle
  <2>4. AloneIsAlone'
    BY <1>0, <1>2, <2>1, <2>2 DEF AloneIsAlone, SetFeatureFlag, Begun, Busy, Idle
  <2>5. AppliedIsThere'
    BY <1>0, <1>2, <2>1, <2>2 DEF AppliedIsThere, SetFeatureFlag, Begun, Busy, Idle
  <2>6. NotAskedIsThere'
    BY <1>0, <1>2, <2>1, <2>2
       DEF NotAskedIsThere, SetFeatureFlag, Begun, Busy, Idle, Candidates, Known,
           FromStatus, ToStatus, TypeOK, EnableStatus
  <2>7. Agreement'
    BY <1>0, <1>2, <2>1, <2>2 DEF Agreement, Agree, SetFeatureFlag, Begun, Busy, Idle
  <2> QED
    BY <2>3, <2>4, <2>5, <2>6, <2>7 DEF IInv
<1>3. ASSUME NEW t \in Threads, NEW feature \in FeatureFlags, NEW verb \in {"enable", "disable"},
             SetFeatureFlagAtOnce(t, feature, verb)
      PROVE  IInv'
  <2>1. /\ call' \in [Threads -> Calls \cup {Idle}] /\ Others(t)
        /\ call'[t].at = "done" /\ call'[t].set = {} /\ call'[t].alone = Known(feature) \ Busy(t)
    <3>1. [at |-> "done", verb |-> verb, set |-> {}, alone |-> Known(feature) \ Busy(t)] \in Calls
      BY DEF Calls, Verbs, Known, FeatureFlags
    <3> QED
      BY <1>0, <1>3, <3>1 DEF SetFeatureFlagAtOnce, TypeOK, Others
  <2>2. TypeOK'
    BY <1>0, <1>3, <2>1 DEF TypeOK, SetFeatureFlagAtOnce, Others, Busy, Idle
  <2>3. AloneIsAlone'
    BY <1>0, <1>3, <2>1 DEF AloneIsAlone, SetFeatureFlagAtOnce, Others, Busy, Idle
  <2>4. AppliedIsThere'
    BY <1>0, <1>3, <2>1 DEF AppliedIsThere, SetFeatureFlagAtOnce, Others, Busy, Idle
  <2>5. NotAskedIsThere'
    BY <1>0, <1>3, <2>1 DEF NotAskedIsThere, SetFeatureFlagAtOnce, Others, Busy, Idle
  <2>6. Agreement'
    BY <1>0, <1>3, <2>1 DEF Agreement, Agree, SetFeatureFlagAtOnce, Others, Busy, Idle
  <2> QED
    BY <2>2, <2>3, <2>4, <2>5, <2>6 DEF IInv
<1>4. ASSUME NEW t \in Threads, BackendApplies(t) PROVE IInv'
  <2>1. call[t] \in AnyCall /\ call[t].verb \in Verbs
    BY <1>0, <1>4, CallTypes DEF BackendApplies
  <2>2. Stands(t, "applied")
    BY <1>0, <1>4, StandsEffect DEF BackendApplies
  <2>3. /\ backend' \in [Addresses -> BackendStatus]
        /\ \A a \in Addresses \ call[t].set : backend'[a] = backend[a]
        /\ call[t].verb # "assign" =>
             \A a \in call[t].set : backend'[a] = AtBackend(ToStatus(call[t].verb))
    BY <1>4, <2>1, AppliesEffect DEF BackendApplies, AnyCall
  <2>4. TypeOK'
    BY <1>0, <1>a, <1>4, <2>1, <2>2, <2>3
       DEF TypeOK, BackendApplies, Stands, Others, AnyCall
  <2>5. AloneIsAlone'
    BY <1>0, <1>a, <1>4, <2>1, <2>2, <2>3
       DEF AloneIsAlone, BackendApplies, Stands, Others, AnyCall
  <2>6. AppliedIsThere'
    <3> SUFFICES ASSUME NEW u \in Threads, call'[u].at = "applied",
                        NEW a \in call'[u].set \cap call'[u].alone, call'[u].verb # "assign"
                 PROVE  backend'[a] = AtBackend(ToStatus(call'[u].verb))
      BY DEF AppliedIsThere
    <3>1. CASE u = t
      BY <3>1, <2>2, <2>3 DEF Stands
    <3>2. CASE u # t
      <4>1. call'[u] = call[u] /\ call[t].at = "asking"
        BY <1>4, <3>2, <2>2 DEF Stands, Others, BackendApplies
      <4>2. a \in Addresses \ call[t].set
        BY <1>0, <1>a, <3>2, <4>1 DEF AloneIsAlone, AnyCall
      <4> QED
        BY <1>0, <4>1, <4>2, <2>3 DEF AppliedIsThere
    <3> QED
      BY <3>1, <3>2
  <2>7. NotAskedIsThere'
    BY <1>0, <1>a, <1>4, <2>1, <2>2, <2>3
       DEF NotAskedIsThere, BackendApplies, Stands, Others, AnyCall
  <2>8. Agreement'
    <3> SUFFICES ASSUME NEW a \in Addresses
                 PROVE  \/ a \in blurred'
                        \/ \E u \in Threads : call'[u].at = "applied" /\ a \in call'[u].set
                        \/ Agree(a)'
      BY DEF Agreement
    <3>1. CASE a \in call[t].set
      BY <3>1, <2>2 DEF Stands
    <3>2. CASE a \notin call[t].set
      <4>1. backend'[a] = backend[a] /\ local'[a] = local[a] /\ blurred' = blurred
        BY <1>4, <3>2, <2>3 DEF BackendApplies
      <4>2. \A u \in Threads : call[u].at = "applied" => call'[u] = call[u]
        BY <1>4, <2>2 DEF Stands, Others, BackendApplies
      <4> QED
        BY <1>0, <4>1, <4>2 DEF Agreement, Agree
    <3> QED
      BY <3>1, <3>2
  <2> QED
    BY <2>4, <2>5, <2>6, <2>7, <2>8 DEF IInv
<1>5. ASSUME NEW t \in Threads, BackendRefuses(t) PROVE IInv'
  <2>1. call[t] \in AnyCall /\ call[t].verb \in Verbs
    BY <1>0, <1>5, CallTypes DEF BackendRefuses
  <2>2. Ended(t) /\ Idle.at = "idle" /\ Idle.set = {} /\ Idle.alone = {}
    BY <1>0, <1>5, EndedEffect DEF BackendRefuses, AfterRefusal, Idle
  <2>3. call[t].set # {}
    BY <1>0, <1>5, CallTypes DEF BackendRefuses
  <2>4. TypeOK'
    BY <1>0, <1>5, <2>1, <2>2, <2>3 DEF TypeOK, BackendRefuses, Ended, Others, AnyCall
  <2>5. AloneIsAlone'
    BY <1>0, <1>5, <2>1, <2>2, <2>3 DEF AloneIsAlone, BackendRefuses, Ended, Others, AnyCall
  <2>6. AppliedIsThere'
    BY <1>0, <1>5, <2>1, <2>2, <2>3
       DEF AppliedIsThere, BackendRefuses, Ended, Others, AnyCall
  <2>7. NotAskedIsThere'
    BY <1>0, <1>5, <2>1, <2>2, <2>3
       DEF NotAskedIsThere, BackendRefuses, Ended, Others, AnyCall
  <2>8. Agreement'
    BY <1>0, <1>5, <2>1, <2>2, <2>3
       DEF Agreement, Agree, BackendRefuses, Ended, Others, AnyCall
  <2> QED
    BY <2>4, <2>5, <2>6, <2>7, <2>8 DEF IInv
<1>6. ASSUME NEW t \in Threads, AnswerLost(t) PROVE IInv'
  <2>1. call[t] \in AnyCall /\ call[t].verb \in Verbs
    BY <1>0, <1>6, CallTypes DEF AnswerLost
  <2>2. Ended(t) /\ Idle.at = "idle" /\ Idle.set = {} /\ Idle.alone = {}
    BY <1>0, <1>6, EndedEffect DEF AnswerLost, Idle
  <2>3. call[t].set # {}
    BY <1>0, <1>6, CallTypes DEF AnswerLost
  <2>4. TypeOK'
    BY <1>0, <1>6, <2>1, <2>2, <2>3 DEF TypeOK, AnswerLost, Ended, Others, AnyCall
  <2>5. AloneIsAlone'
    BY <1>0, <1>6, <2>1, <2>2, <2>3 DEF AloneIsAlone, AnswerLost, Ended, Others, AnyCall
  <2>6. AppliedIsThere'
    BY <1>0, <1>6, <2>1, <2>2, <2>3 DEF AppliedIsThere, AnswerLost, Ended, Others, AnyCall
  <2>7. NotAskedIsThere'
    BY <1>0, <1>6, <2>1, <2>2, <2>3 DEF NotAskedIsThere, AnswerLost, Ended, Others, AnyCall
  <2>8. Agreement'
    BY <1>0, <1>6, <2>1, <2>2, <2>3 DEF Agreement, Agree, AnswerLost, Ended, Others, AnyCall
  <2> QED
    BY <2>4, <2>5, <2>6, <2>7, <2>8 DEF IInv
<1>7. ASSUME NEW t \in Threads, GivesUp(t) PROVE IInv'
  <2>1. call[t] \in AnyCall /\ call[t].verb \in Verbs
    BY <1>0, <1>7, CallTypes DEF GivesUp
  <2>2. Ended(t) /\ Idle.at = "idle" /\ Idle.set = {} /\ Idle.alone = {}
    BY <1>0, <1>7, EndedEffect DEF GivesUp, Idle
  <2>3. call[t].set # {}
    BY <1>0, <1>7, CallTypes DEF GivesUp
  <2>4. TypeOK'
    BY <1>0, <1>7, <2>1, <2>2, <2>3 DEF TypeOK, GivesUp, Ended, Others, AnyCall
  <2>5. AloneIsAlone'
    BY <1>0, <1>7, <2>1, <2>2, <2>3 DEF AloneIsAlone, GivesUp, Ended, Others, AnyCall
  <2>6. AppliedIsThere'
    BY <1>0, <1>7, <2>1, <2>2, <2>3 DEF AppliedIsThere, GivesUp, Ended, Others, AnyCall
  <2>7. NotAskedIsThere'
    BY <1>0, <1>7, <2>1, <2>2, <2>3 DEF NotAskedIsThere, GivesUp, Ended, Others, AnyCall
  <2>8. Agreement'
    BY <1>0, <1>7, <2>1, <2>2, <2>3 DEF Agreement, Agree, GivesUp, Ended, Others, AnyCall
  <2> QED
    BY <2>4, <2>5, <2>6, <2>7, <2>8 DEF IInv
<1>8. ASSUME NEW t \in Threads, Stores(t) PROVE IInv'
  <2>1. call[t] \in AnyCall /\ call[t].verb \in Verbs
    BY <1>0, <1>8, CallTypes DEF Stores
  <2>2. Stands(t, "done")
    BY <1>0, <1>8, StandsEffect DEF Stores
  <2>3. ToStatus(call[t].verb) \in EnableStatus
    BY DEF ToStatus, EnableStatus
  <2>4. TypeOK'
    BY <1>0, <1>a, <1>8, <2>1, <2>2, <2>3
       DEF TypeOK, Stores, Written, Stands, Others, AnyCall
  <2>5. AloneIsAlone'
    BY <1>0, <1>a, <1>8, <2>1, <2>2, <2>3
       DEF AloneIsAlone, Stores, Written, Stands, Others, AnyCall
  <2>6. AppliedIsThere'
    BY <1>0, <1>a, <1>8, <2>1, <2>2, <2>3
       DEF AppliedIsThere, Stores, Written, Stands, Others, AnyCall
  <2>7. NotAskedIsThere'
    BY <1>0, <1>a, <1>8, <2>1, <2>2, <2>3
       DEF NotAskedIsThere, Stores, Written, Stands, Others, AnyCall, AloneIsAlone
  <2>8. Agreement'
    BY <1>0, <1>a, <1>8, <2>1, <2>2, <2>3
       DEF Agreement, Agree, Stores, Written, Stands, Others, AnyCall, AppliedIsThere,
           TypeOK, ToStatus, AtBackend, EnableStatus
  <2> QED
    BY <2>4, <2>5, <2>6, <2>7, <2>8 DEF IInv
<1>9. ASSUME NEW t \in Threads, StoresPart(t) PROVE IInv'
  <2>1. call[t] \in AnyCall /\ call[t].verb \in Verbs
    BY <1>0, <1>9, CallTypes DEF StoresPart
  <2>2. Ended(t) /\ Idle.at = "idle" /\ Idle.set = {} /\ Idle.alone = {}
    BY <1>0, <1>9, EndedEffect DEF StoresPart, Idle
  <2>3. ToStatus(call[t].verb) \in EnableStatus
    BY DEF ToStatus, EnableStatus
  <2>4. TypeOK'
    BY <1>0, <1>a, <1>9, <2>1, <2>2, <2>3
       DEF TypeOK, StoresPart, Written, Ended, Others, AnyCall
  <2>5. AloneIsAlone'
    BY <1>0, <1>a, <1>9, <2>1, <2>2, <2>3
       DEF AloneIsAlone, StoresPart, Written, Ended, Others, AnyCall
  <2>6. AppliedIsThere'
    BY <1>0, <1>a, <1>9, <2>1, <2>2, <2>3
       DEF AppliedIsThere, StoresPart, Written, Ended, Others, AnyCall
  <2>7. NotAskedIsThere'
    BY <1>0, <1>a, <1>9, <2>1, <2>2, <2>3
       DEF NotAskedIsThere, StoresPart, Written, Ended, Others, AnyCall, AloneIsAlone
  <2>8. Agreement'
    BY <1>0, <1>a, <1>9, <2>1, <2>2, <2>3
       DEF Agreement, Agree, StoresPart, Written, Ended, Others, AnyCall
  <2> QED
    BY <2>4, <2>5, <2>6, <2>7, <2>8 DEF IInv
<1>10. ASSUME NEW t \in Threads, Returns(t) PROVE IInv'
  <2>1. Ended(t) /\ Idle.at = "idle" /\ Idle.set = {} /\ Idle.alone = {}
    BY <1>0, <1>10, EndedEffect DEF Returns, Idle
  <2>2. TypeOK'
    BY <1>0, <1>10, <2>1 DEF TypeOK, Returns, Ended, Others
  <2>3. AloneIsAlone'
    BY <1>0, <1>10, <2>1 DEF AloneIsAlone, Returns, Ended, Others
  <2>4. AppliedIsThere'
    BY <1>0, <1>10, <2>1 DEF AppliedIsThere, Returns, Ended, Others
  <2>5. NotAskedIsThere'
    BY <1>0, <1>10, <2>1 DEF NotAskedIsThere, Returns, Ended, Others
  <2>6. Agreement'
    BY <1>0, <1>10, <2>1 DEF Agreement, Agree, Returns, Ended, Others
  <2> QED
    BY <2>2, <2>3, <2>4, <2>5, <2>6 DEF IInv
<1>11. ASSUME NEW r \in late, LateArrives(r) PROVE IInv'
  <2>1. r.verb \in Verbs /\ r.set \in SUBSET Addresses
    BY <1>0 DEF TypeOK
  <2>2. /\ call' \in [Threads -> Calls \cup {Idle}]
        /\ \A u \in Threads :
             /\ call'[u].at = call[u].at /\ call'[u].verb = call[u].verb
             /\ call'[u].set = call[u].set /\ call'[u].alone = call[u].alone \ r.set
    BY <1>0, <1>11, <2>1, JoinedEffect DEF LateArrives
  <2>3. /\ backend' \in [Addresses -> BackendStatus]
        /\ \A a \in Addresses \ r.set : backend'[a] = backend[a]
    BY <1>11, <2>1, AppliesEffect DEF LateArrives
  <2>4. \A u \in Threads : call[u] \in AnyCall
    BY <1>0, CallTypes
  <2>5. TypeOK'
    BY <1>0, <1>11, <2>1, <2>2, <2>3, <2>4 DEF TypeOK, LateArrives, AnyCall
  <2>6. AloneIsAlone'
    BY <1>0, <1>11, <2>1, <2>2, <2>3, <2>4 DEF AloneIsAlone, LateArrives, AnyCall
  <2>7. AppliedIsThere'
    BY <1>0, <1>11, <2>1, <2>2, <2>3, <2>4 DEF AppliedIsThere, LateArrives, AnyCall
  <2>8. NotAskedIsThere'
    BY <1>0, <1>11, <2>1, <2>2, <2>3, <2>4 DEF NotAskedIsThere, LateArrives, AnyCall
  <2>9. Agreement'
    BY <1>0, <1>11, <2>1, <2>2, <2>3, <2>4 DEF Agreement, Agree, LateArrives, AnyCall
  <2> QED
    BY <2>5, <2>6, <2>7, <2>8, <2>9 DEF IInv
<1>12. CASE UNCHANGED vars
  BY <1>0, <1>12
     DEF vars, IInv, TypeOK, AloneIsAlone, AppliedIsThere, NotAskedIsThere, Agreement,
     Agree
<1> QED
  BY <1>1, <1>2, <1>3, <1>4, <1>5, <1>6, <1>7, <1>8, <1>9, <1>10, <1>11, <1>12
     DEF Next, Continue

LEMMA IInvHolds == Spec => []IInv
BY IInvInit, IInvStep, PTL DEF Spec

-----------------------------------------------------------------------------
(* What follows. *)

\* Every variable keeps its type; no call is sent for no address.
THEOREM TypeCorrect == Spec => []TypeOK
<1>1. IInv => TypeOK
  BY DEF IInv
<1> QED
  BY <1>1, IInvHolds, PTL

\* Table and backend agree on whatever no lost answer, failed write, overlap or
\* late request has blurred, and a call that succeeds alone settles the rest.
THEOREM TableAgrees == Spec => []Agreement
<1>1. IInv => Agreement
  BY DEF IInv
<1> QED
  BY <1>1, IInvHolds, PTL

\* The only two ways to succeed.
LEMMA WaysToSucceed ==
  ASSUME TypeOK, [Next]_vars, NEW t \in Threads, Succeeds(t)
  PROVE  \/ Stores(t)
         \/ \E feature \in FeatureFlags, verb \in {"enable", "disable"} :
              SetFeatureFlagAtOnce(t, feature, verb)
<1> USE DEF Succeeds
<1>1. ASSUME NEW u \in Threads, NEW verb \in Verbs, NEW S \in (SUBSET Addresses) \ {{}},
             NEW A \in SUBSET Addresses, Begin(u, verb, S, A)
      PROVE  FALSE
  BY <1>1, BeginEffect DEF Begun
<1>2. ASSUME NEW u \in Threads, NEW a \in Addresses, Register(u, a) PROVE FALSE
  BY <1>1, <1>2 DEF Register, Verbs
<1>3. ASSUME NEW u \in Threads, NEW feature \in FeatureFlags, NEW verb \in {"enable", "disable"},
             SetFeatureFlag(u, feature, verb)
      PROVE  FALSE
  <2>1. Candidates(feature, verb) \in (SUBSET Addresses) \ {{}}
        /\ Known(feature) \in SUBSET Addresses
    BY <1>3, AddressesAssumption
       DEF SetFeatureFlag, Candidates, Known, FeatureFlags, WorthAsking
  <2> QED
    BY <1>1, <1>3, <2>1 DEF SetFeatureFlag, Verbs
<1>4. ASSUME NEW u \in Threads, BackendApplies(u) PROVE FALSE
  BY <1>4, StandsEffect DEF BackendApplies, At, InFlight, Stands, Others
<1>5. ASSUME NEW u \in Threads,
             BackendRefuses(u) \/ AnswerLost(u) \/ GivesUp(u) \/ StoresPart(u) \/ Returns(u)
      PROVE  FALSE
  <2>1. call' = [call EXCEPT ![u] = Idle]
    BY <1>5 DEF BackendRefuses, AfterRefusal, AnswerLost, GivesUp, StoresPart, Returns
  <2> QED
    BY <2>1, EndedEffect DEF Ended, Others, Idle
<1>6. ASSUME NEW u \in Threads, Stores(u) PROVE u = t
  BY <1>6, StandsEffect DEF Stores, At, InFlight, Stands, Others
<1>7. ASSUME NEW u \in Threads, NEW feature \in FeatureFlags, NEW verb \in {"enable", "disable"},
             SetFeatureFlagAtOnce(u, feature, verb)
      PROVE  u = t
  BY <1>7 DEF SetFeatureFlagAtOnce, TypeOK
<1>8. ASSUME NEW r \in late, LateArrives(r) PROVE FALSE
  <2>1. r.set \in SUBSET Addresses
    BY DEF TypeOK
  <2> QED
    BY <1>8, <2>1, JoinedEffect DEF LateArrives
<1>9. ~UNCHANGED vars
  BY DEF vars
<1> QED
  BY <1>2, <1>3, <1>4, <1>5, <1>6, <1>7, <1>8, <1>9 DEF Next, Continue

\* What a success of set_feature_flag, register or verify means: the status
\* asked for, in the table and at the backend.
THEOREM SuccessMeansSet == Spec => OkMeansSet
<1> DEFINE IsSet ==
      \A t \in Threads : Succeeds(t) =>
        \A a \in call'[t].alone :
          \/ a \in blurred'
          \/ /\ local'[a] = ToStatus(call'[t].verb)
             /\ backend'[a] = AtBackend(local'[a])
<1>1. IInv /\ [Next]_vars => IsSet
  <2> SUFFICES ASSUME IInv, [Next]_vars, NEW t \in Threads, Succeeds(t),
                      NEW a \in call'[t].alone, a \notin blurred'
               PROVE  local'[a] = ToStatus(call'[t].verb) /\ backend'[a] = AtBackend(local'[a])
    OBVIOUS
  <2>1. TypeOK /\ NotAskedIsThere
    BY DEF IInv
  <2>2. TypeOK' /\ AloneIsAlone' /\ Agreement'
    BY IInvStep DEF IInv
  <2>3. call'[t].at = "done" /\ a \in Addresses
    BY <2>2 DEF TypeOK, Calls, Idle, Succeeds
  <2>4. local'[a] = ToStatus(call'[t].verb)
    <3>1. CASE Stores(t)
      <4>1. call[t].at = "applied" /\ call[t] \in AnyCall
        BY <2>1, <3>1, CallTypes DEF Stores, At
      <4>2. Stands(t, "done")
        BY <2>1, <3>1, <4>1, StandsEffect DEF Stores, InFlight
      <4>3. CASE a \in call[t].set
        BY <2>3, <3>1, <4>2, <4>3 DEF Stores, Written, Stands
      <4>4. CASE a \notin call[t].set
        BY <2>1, <2>3, <3>1, <4>1, <4>2, <4>4
           DEF Stores, Written, Stands, NotAskedIsThere, InFlight
      <4> QED
        BY <4>3, <4>4
    <3>2. ASSUME NEW feature \in FeatureFlags, NEW verb \in {"enable", "disable"},
                 SetFeatureFlagAtOnce(t, feature, verb)
          PROVE  local'[a] = ToStatus(call'[t].verb)
      <4>1. call'[t].alone = Known(feature) \ Busy(t) /\ call'[t].verb = verb /\ local' = local
        BY <2>1, <3>2 DEF SetFeatureFlagAtOnce, TypeOK
      <4>2. a \in feature /\ local[a] # "absent" /\ local[a] # FromStatus(verb)
        BY <3>2, <4>1 DEF SetFeatureFlagAtOnce, Known, Candidates
      <4> QED
        BY <2>1, <2>3, <4>1, <4>2 DEF TypeOK, EnableStatus, ToStatus, FromStatus
    <3> QED
      BY <2>1, <3>1, <3>2, WaysToSucceed
  <2>5. Agree(a)'
    BY <2>2, <2>3 DEF Agreement, AloneIsAlone, InFlight, At
  <2> QED
    BY <2>4, <2>5 DEF Agree, ToStatus
<1>2. (IInv /\ [Next]_vars => IsSet) => (IInv /\ [Next]_vars => [IsSet]_vars)
  OBVIOUS
<1> QED
  BY <1>1, <1>2, IInvHolds, PTL DEF Spec, OkMeansSet

-----------------------------------------------------------------------------
(* The field: what its parsers make of a text, of any length.  Recursive     *)
(* functions are reasoned about by the least position at which a claim fails *)
(* (Least).                                                                  *)

\* Sets of naturals have a least element: the induction of what follows.
LEMMA Least ==
  ASSUME NEW T, T \subseteq Nat, T # {}
  PROVE  \E x \in T : \A y \in T : x <= y
<1> DEFINE R == OpToRel(<, Nat)
<1>1. IsWellFoundedOn(R, Nat)
  BY NatLessThanWellFounded
<1>2. PICK x \in T : \A y \in T : ~(<<y, x>> \in R)
  <2> HIDE DEF R
  <2> QED BY <1>1, WFMin
<1>3. \A y \in Nat : \A z \in Nat : y < z => <<y, z>> \in R
  BY DEF OpToRel
<1> HIDE DEF R
<1>4. ASSUME NEW y \in T
      PROVE  x <= y
  <2>1. x \in Nat /\ y \in Nat
    OBVIOUS
  <2>2. ~(y < x)
    BY <1>2, <1>3, <2>1
  <2> QED
    BY <2>1, <2>2
<1> QED
  BY <1>4

\* What Min chooses.
LEMMA MinIs ==
  ASSUME NEW T, T \subseteq Nat, T # {}
  PROVE  Min(T) \in T /\ \A y \in T : Min(T) <= y
BY Least DEF Min

\* What may be in the field, and where a parser may be in it.
Texts == Seq(Characters)

Positions(s) == 1..(Len(s) + 1)

\* Where the characters that satisfy a predicate end.
LEMMA RunEnds ==
  ASSUME NEW s \in Texts, NEW i \in Positions(s), NEW C
  PROVE  /\ RunEnd(s, i, C) \in i..(Len(s) + 1)
         /\ \A j \in i..(RunEnd(s, i, C) - 1) : Is(s, j, C)
         /\ ~Is(s, RunEnd(s, i, C), C)
<1> DEFINE T == {j \in i..(Len(s) + 1) : ~Is(s, j, C)}
<1>1. T \subseteq Nat /\ Len(s) + 1 \in T
  BY DEF Texts, Positions, Is
<1>2. Min(T) \in T /\ \A y \in T : Min(T) <= y
  BY <1>1, MinIs
<1>3. RunEnd(s, i, C) = Min(T)
  BY DEF RunEnd
<1> HIDE DEF T
<1>4. \A j \in i..(Min(T) - 1) : Is(s, j, C)
  <2> TAKE j \in i..(Min(T) - 1)
  <2>1. j \in i..(Len(s) + 1) /\ ~(Min(T) <= j)
    BY <1>2 DEF T, Texts, Positions
  <2> QED
    BY <1>2, <2>1 DEF T
<1> QED
  BY <1>2, <1>3, <1>4 DEF T

\* There is one place where they end.
LEMMA RunEndIs ==
  ASSUME NEW s \in Texts, NEW i \in Positions(s), NEW C, NEW e \in i..(Len(s) + 1),
         \A j \in i..(e - 1) : Is(s, j, C), ~Is(s, e, C)
  PROVE  RunEnd(s, i, C) = e
<1> DEFINE m == RunEnd(s, i, C)
<1>1. /\ m \in i..(Len(s) + 1)
      /\ \A j \in i..(m - 1) : Is(s, j, C)
      /\ ~Is(s, m, C)
  BY RunEnds
<1> HIDE DEF m
<1>2. ~(m < e) /\ ~(e < m)
  BY <1>1 DEF Positions, Texts
<1> QED
  BY <1>1, <1>2 DEF m, Positions, Texts

-----------------------------------------------------------------------------
(* What a parser makes of a text depends only on the characters it has read  *)
(* and on the one that stopped it.                                           *)

\* From i to before e, t has d further on what s has; and at e it ends, or has the
\* same.
Alike(s, t, d, i, e) ==
  /\ \A j \in i..(e - 1) : j \in DOMAIN s /\ j + d \in DOMAIN t /\ t[j + d] = s[j]
  /\ e + d \in DOMAIN t => e \in DOMAIN s /\ t[e + d] = s[e]

\* A parser that began at i has read up to a position, or failed at one.
Outcome(r, i, s) ==
  /\ r.at \in i..(Len(s) + 1)
  /\ \/ r = Reads(r.at) /\ r.ok
     \/ r = Fails(r.at) /\ ~r.ok

\* The same outcome, d further on.
Moved(r, d) == [ok |-> r.ok, at |-> r.at + d]

LEMMA MovedReads == \A i, d : Moved(Reads(i), d) = Reads(i + d) /\ Moved(Fails(i), d) = Fails(i + d)
BY DEF Moved, Reads, Fails

LEMMA Results ==
  \A i : /\ Reads(i).ok /\ Reads(i).at = i
         /\ ~Fails(i).ok /\ Fails(i).at = i
BY DEF Reads, Fails

LEMMA OutcomesAre ==
  \A s, i, e : e \in i..(Len(s) + 1) => Outcome(Reads(e), i, s) /\ Outcome(Fails(e), i, s)
BY Results DEF Outcome

\* What is alike is of the same classes.
LEMMA AlikeIs ==
  ASSUME NEW s, NEW t, NEW d \in Int, NEW i \in Int, NEW e \in Int, Alike(s, t, d, i, e)
  PROVE  /\ \A j \in i..(e - 1) : \A C : Is(t, j + d, C) <=> Is(s, j, C)
         /\ \A C : Is(t, e + d, C) => Is(s, e, C)
BY DEF Alike, Is

\* Parts of what is alike are alike.
LEMMA AlikeWithin ==
  ASSUME NEW s, NEW t, NEW d \in Int, NEW i \in Int, NEW e \in Int, Alike(s, t, d, i, e),
         NEW k \in i..e, NEW m \in k..e
  PROVE  Alike(s, t, d, k, m)
<1>1. \A j \in k..(m - 1) : j \in i..(e - 1)
  OBVIOUS
<1>2. m = e \/ m \in i..(e - 1)
  OBVIOUS
<1> QED
  BY <1>1, <1>2 DEF Alike

\* The second text goes as far as what is alike.
LEMMA AlikeEnd ==
  ASSUME NEW s \in Texts, NEW t \in Texts, NEW d \in Int, NEW i \in Positions(s),
         NEW e \in i..(Len(s) + 1), Alike(s, t, d, i, e), i + d \in Positions(t)
  PROVE  e + d \in (i + d)..(Len(t) + 1)
<1>1. CASE e = i
  BY <1>1 DEF Positions, Texts
<1>2. CASE e > i
  <2>1. e - 1 \in i..(e - 1)
    BY <1>2 DEF Positions
  <2>2. (e - 1) + d \in DOMAIN t
    BY <2>1 DEF Alike
  <2> QED
    BY <2>2, <1>2 DEF Positions, Texts
<1> QED
  BY <1>1, <1>2 DEF Positions

\* A run: any number of characters, and what stops it.
LEMMA CharsAt ==
  ASSUME NEW s \in Texts, NEW i \in Positions(s), NEW C
  PROVE  /\ Chars(s, i, C).ok
         /\ Chars(s, i, C).at \in i..(Len(s) + 1)
         /\ \A j \in i..(Chars(s, i, C).at - 1) : Is(s, j, C)
         /\ ~Is(s, Chars(s, i, C).at, C)
BY RunEnds DEF Chars, Reads

\* It is read the same in a text that is alike.
LEMMA CharsMove ==
  ASSUME NEW s \in Texts, NEW t \in Texts, NEW d \in Int, NEW i \in Positions(s), NEW C,
         i + d \in Positions(t), Alike(s, t, d, i, Chars(s, i, C).at)
  PROVE  Chars(t, i + d, C) = Moved(Chars(s, i, C), d)
<1> DEFINE e == Chars(s, i, C).at
<1>1. /\ e \in i..(Len(s) + 1)
      /\ \A j \in i..(e - 1) : Is(s, j, C)
      /\ ~Is(s, e, C)
  BY CharsAt
<1>2. Chars(s, i, C) = Reads(e)
  BY DEF Chars, Reads
<1> HIDE DEF e
<1>3. Alike(s, t, d, i, e)
  BY DEF e
<1>4. e + d \in (i + d)..(Len(t) + 1)
  BY <1>1, <1>3, AlikeEnd
<1>5. ~Is(t, e + d, C)
  BY <1>1, <1>3, AlikeIs DEF Positions
<1> DEFINE k == i + d  m == e + d
<1>6. /\ k \in Positions(t) /\ m \in k..(Len(t) + 1) /\ ~Is(t, m, C)
      /\ \A j \in k..(m - 1) : Is(t, j, C)
  <2> SUFFICES ASSUME NEW j \in k..(m - 1)
               PROVE  Is(t, j, C)
    BY <1>4, <1>5
  <2>1. j - d \in i..(e - 1) /\ (j - d) + d = j
    BY <1>1 DEF Positions
  <2> QED
    BY <1>1, <1>3, <2>1, AlikeIs DEF Positions
<1>7. RunEnd(t, i + d, C) = e + d
  <2> HIDE DEF k, m
  <2>2. RunEnd(t, k, C) = m
    BY <1>6, RunEndIs
  <2> QED
    BY <2>2 DEF k, m
<1> QED
  BY <1>2, <1>7, MovedReads DEF Chars

\* A run of at least one.
LEMMA Chars1At ==
  ASSUME NEW s \in Texts, NEW i \in Positions(s), NEW C
  PROVE  /\ Outcome(Chars1(s, i, C), i, s)
         /\ Chars1(s, i, C).ok => Chars1(s, i, C).at > i
<1>1. CASE Is(s, i, C)
  <2>1. Chars1(s, i, C) = Reads(RunEnd(s, i, C))
    BY <1>1 DEF Chars1, Chars
  <2>2. RunEnd(s, i, C) \in i..(Len(s) + 1) /\ RunEnd(s, i, C) # i
    BY <1>1, RunEnds
  <2> QED
    BY <2>1, <2>2, OutcomesAre, Results DEF Positions, Texts
<1>2. CASE ~Is(s, i, C)
  <2>1. Chars1(s, i, C) = Fails(i) /\ i \in i..(Len(s) + 1)
    BY <1>2 DEF Chars1, Positions, Texts
  <2> QED
    BY <2>1, OutcomesAre, Results
<1> QED
  BY <1>1, <1>2

LEMMA Chars1Move ==
  ASSUME NEW s \in Texts, NEW t \in Texts, NEW d \in Int, NEW i \in Positions(s), NEW C,
         i + d \in Positions(t), Alike(s, t, d, i, Chars1(s, i, C).at)
  PROVE  Chars1(t, i + d, C) = Moved(Chars1(s, i, C), d)
<1>1. CASE Is(s, i, C)
  <2>1. Chars1(s, i, C) = Chars(s, i, C)
    BY <1>1 DEF Chars1
  <2>2. Chars(s, i, C).at \in i..(Len(s) + 1) /\ Chars(s, i, C).at # i
    BY <1>1, CharsAt
  <2>3. Is(t, i + d, C)
    BY <1>1, <2>1, <2>2, AlikeIs DEF Positions
  <2> QED
    BY <2>1, <2>3, CharsMove DEF Chars1
<1>2. CASE ~Is(s, i, C)
  <2>1. Chars1(s, i, C) = Fails(i)
    BY <1>2 DEF Chars1
  <2>2. Alike(s, t, d, i, i)
    BY <2>1 DEF Fails
  <2>3. ~Is(t, i + d, C)
    BY <1>2, <2>2, AlikeIs DEF Positions
  <2> QED
    BY <2>1, <2>3, MovedReads DEF Chars1
<1> QED
  BY <1>1, <1>2

\* One character.
LEMMA CharAt ==
  ASSUME NEW s \in Texts, NEW i \in Positions(s), NEW c
  PROVE  /\ Outcome(Char(s, i, c), i, s)
         /\ Char(s, i, c).ok => Char(s, i, c).at = i + 1
<1>1. i \in i..(Len(s) + 1) /\ (Is(s, i, {c}) => i + 1 \in i..(Len(s) + 1))
  BY DEF Is, Positions, Texts
<1> QED
  BY <1>1, OutcomesAre, Results DEF Char

LEMMA CharMoves ==
  ASSUME NEW s \in Texts, NEW t \in Texts, NEW d \in Int, NEW i \in Positions(s), NEW c,
         i + d \in Positions(t), Alike(s, t, d, i, Char(s, i, c).at)
  PROVE  Char(t, i + d, c) = Moved(Char(s, i, c), d)
<1>1. CASE Is(s, i, {c})
  <2>1. Char(s, i, c) = Reads(i + 1)
    BY <1>1 DEF Char
  <2>2. Alike(s, t, d, i, i + 1) /\ i \in Int
    BY <2>1 DEF Reads, Positions
  <2>3. Is(t, i + d, {c})
    BY <1>1, <2>2, AlikeIs DEF Positions
  <2> QED
    BY <2>1, <2>2, <2>3, MovedReads DEF Char
<1>2. CASE ~Is(s, i, {c})
  <2>1. Char(s, i, c) = Fails(i)
    BY <1>2 DEF Char
  <2>2. Alike(s, t, d, i, i) /\ i \in Int
    BY <2>1 DEF Fails, Positions
  <2>3. ~Is(t, i + d, {c})
    BY <1>2, <2>2, AlikeIs
  <2> QED
    BY <2>1, <2>3, MovedReads DEF Char
<1> QED
  BY <1>1, <1>2

-----------------------------------------------------------------------------
(* Labels                                                                    *)

\* A label without a tag ends before what is no character of it.
LEMMA LabelEnds ==
  ASSUME NEW s \in Texts, NEW i \in Positions(s)
  PROVE  /\ LabelEnd(s, i) \in i..(Len(s) + 1)
         /\ \A j \in i..(LabelEnd(s, i) - 1) : InLabel(s, j)
         /\ ~InLabel(s, LabelEnd(s, i))
<1> DEFINE T == {j \in i..(Len(s) + 1) : ~InLabel(s, j)}
<1>1. T \subseteq Nat /\ Len(s) + 1 \in T
  BY DEF Texts, Positions, Is, InLabel
<1>2. Min(T) \in T /\ \A y \in T : Min(T) <= y
  BY <1>1, MinIs
<1>3. LabelEnd(s, i) = Min(T)
  BY DEF LabelEnd
<1> HIDE DEF T
<1>4. \A j \in i..(Min(T) - 1) : InLabel(s, j)
  <2> TAKE j \in i..(Min(T) - 1)
  <2>1. j \in i..(Len(s) + 1) /\ ~(Min(T) <= j)
    BY <1>2 DEF T, Texts, Positions
  <2> QED
    BY <1>2, <2>1 DEF T
<1> QED
  BY <1>2, <1>3, <1>4 DEF T

LEMMA LabelEndIs ==
  ASSUME NEW s \in Texts, NEW i \in Positions(s), NEW e \in i..(Len(s) + 1),
         \A j \in i..(e - 1) : InLabel(s, j), ~InLabel(s, e)
  PROVE  LabelEnd(s, i) = e
<1> DEFINE m == LabelEnd(s, i)
<1>1. /\ m \in i..(Len(s) + 1)
      /\ \A j \in i..(m - 1) : InLabel(s, j)
      /\ ~InLabel(s, m)
  BY LabelEnds
<1> HIDE DEF m
<1>2. ~(m < e) /\ ~(e < m)
  BY <1>1 DEF Positions, Texts
<1> QED
  BY <1>1, <1>2 DEF m, Positions, Texts

\* How a label may be read that has no tag.
LEMMA UnicodeLabelAt ==
  ASSUME NEW s \in Texts, NEW i \in Positions(s)
  PROVE  \/ ~Is(s, i, LabelChars) /\ UnicodeLabel(s, i) = Fails(i)
         \/ /\ Is(s, i, LabelChars) /\ LabelEnd(s, i) \in (i + 1)..(Len(s) + 1)
            /\ \/ ~Is(s, LabelEnd(s, i), {"-"}) /\ UnicodeLabel(s, i) = Reads(LabelEnd(s, i))
               \/ /\ Is(s, LabelEnd(s, i), {"-"}) /\ LabelEnd(s, i) <= Len(s)
                  /\ ~Is(s, LabelEnd(s, i) + 1, LabelChars)
                  /\ UnicodeLabel(s, i) = Fails(LabelEnd(s, i) + 1)
<1>1. CASE ~Is(s, i, LabelChars)
  BY <1>1 DEF UnicodeLabel
<1>2. CASE Is(s, i, LabelChars)
  <2> DEFINE e == LabelEnd(s, i)
  <2>1. UnicodeLabel(s, i) = IF Is(s, e, {"-"}) THEN Fails(e + 1) ELSE Reads(e)
    BY <1>2 DEF UnicodeLabel
  <2>2. e \in i..(Len(s) + 1) /\ ~InLabel(s, e)
    BY LabelEnds
  <2> HIDE DEF e
  <2>3. e # i
    BY <1>2, <2>2 DEF InLabel
  <2>4. Is(s, e, {"-"}) => e <= Len(s) /\ ~Is(s, e + 1, LabelChars)
    <3>1. Is(s, e, {"-"}) => e \in DOMAIN s
      BY DEF Is
    <3> QED
      BY <2>2, <3>1 DEF InLabel, Texts
  <2>5. e \in (i + 1)..(Len(s) + 1)
    BY <2>2, <2>3 DEF Positions, Texts
  <2> QED
    BY <1>2, <2>1, <2>4, <2>5 DEF e
<1> QED
  BY <1>1, <1>2

\* A label reads at least one character, after its tag if it has one.
LEMMA LabelAt ==
  ASSUME NEW s \in Texts, NEW i \in Positions(s)
  PROVE  /\ Outcome(Label(s, i), i, s)
         /\ Label(s, i).ok => Label(s, i).at > i
         /\ HasTag(s, i) => i + 4 \in Positions(s) /\ Label(s, i).at >= i + 4
<1>1. CASE HasTag(s, i)
  <2>1. Is(s, i + 3, {"-"})
    <3>1. 4 \in 1..4 /\ i + 4 - 1 = i + 3 /\ <<"x", "n", "-", "-">>[4] = "-"
      BY DEF Positions
    <3> QED
      BY <1>1, <3>1 DEF HasTag
  <2>2. i + 4 \in Positions(s)
    BY <2>1 DEF Is, Positions, Texts
  <2>3. Label(s, i) = Chars1(s, i + 4, PunycodeChars)
    BY <1>1 DEF Label
  <2> DEFINE k == i + 4
  <2>4. Outcome(Chars1(s, k, PunycodeChars), k, s)
    <3> HIDE DEF k
    <3>1. k \in Positions(s)
      BY <2>2 DEF k
    <3> QED
      BY <3>1, Chars1At
  <2> QED
    BY <2>2, <2>3, <2>4 DEF Outcome, Positions, Texts
<1>2. CASE ~HasTag(s, i)
  <2>1. Label(s, i) = UnicodeLabel(s, i)
    BY <1>2 DEF Label
  <2>2. LabelEnd(s, i) \in i..(Len(s) + 1)
    BY LabelEnds
  <2> QED
    BY <1>2, <2>1, <2>2, UnicodeLabelAt, OutcomesAre, Results DEF Positions, Texts
<1> QED
  BY <1>1, <1>2

\* The tag, character by character.
LEMMA TagIs ==
  ASSUME NEW s, NEW i \in Int
  PROVE  HasTag(s, i) <=> /\ Is(s, i, {"x"}) /\ Is(s, i + 1, {"n"})
                          /\ Is(s, i + 2, {"-"}) /\ Is(s, i + 3, {"-"})
<1> DEFINE tag == <<"x", "n", "-", "-">>
<1>1. /\ tag[1] = "x" /\ tag[2] = "n" /\ tag[3] = "-" /\ tag[4] = "-"
      /\ i + 1 - 1 = i /\ i + 2 - 1 = i + 1 /\ i + 3 - 1 = i + 2 /\ i + 4 - 1 = i + 3
  OBVIOUS
<1>2. HasTag(s, i) <=> \A k \in 1..4 : Is(s, i + k - 1, {tag[k]})
  BY DEF HasTag
<1>3. \A k \in 1..4 : k \in {1, 2, 3, 4}
  OBVIOUS
<1>4. 1 \in 1..4 /\ 2 \in 1..4 /\ 3 \in 1..4 /\ 4 \in 1..4
  OBVIOUS
<1> HIDE DEF tag
<1>5. HasTag(s, i) => /\ Is(s, i + 1 - 1, {tag[1]}) /\ Is(s, i + 2 - 1, {tag[2]})
                      /\ Is(s, i + 3 - 1, {tag[3]}) /\ Is(s, i + 4 - 1, {tag[4]})
  BY <1>2, <1>4
<1>6. /\ Is(s, i + 1 - 1, {tag[1]}) /\ Is(s, i + 2 - 1, {tag[2]})
      /\ Is(s, i + 3 - 1, {tag[3]}) /\ Is(s, i + 4 - 1, {tag[4]})
      => HasTag(s, i)
  BY <1>2, <1>3
<1> QED
  BY <1>1, <1>5, <1>6

\* A hyphen is the one character of the tag that is none of a label.
LEMMA TagChars ==
  ASSUME NEW s, NEW i
  PROVE  /\ Is(s, i, {"x"}) \/ Is(s, i, {"n"}) => Is(s, i, LabelChars) /\ ~Is(s, i, {"-"})
         /\ Is(s, i, {"-"}) => ~Is(s, i, LabelChars)
BY DEF Is, LabelChars, Alphanumeric, Letters, Digits, Foreign

\* Labels are read the same in a text that is alike, and have a tag in both or in none.
LEMMA UnicodeLabelMoves ==
  ASSUME NEW s \in Texts, NEW t \in Texts, NEW d \in Int, NEW i \in Positions(s),
         i + d \in Positions(t), Alike(s, t, d, i, UnicodeLabel(s, i).at)
  PROVE  /\ UnicodeLabel(t, i + d) = Moved(UnicodeLabel(s, i), d)
         /\ HasTag(t, i + d) => HasTag(s, i)
<1> DEFINE le == LabelEnd(s, i)
<1>0. i \in Int /\ Len(s) \in Nat
  BY DEF Positions, Texts
<1>1. CASE ~Is(s, i, LabelChars) /\ UnicodeLabel(s, i) = Fails(i)
  <2>1. Alike(s, t, d, i, i)
    BY <1>1, Results
  <2>2. ~Is(t, i + d, LabelChars)
    BY <1>0, <1>1, <2>1, AlikeIs
  <2>3. ~HasTag(t, i + d)
    BY <1>0, <2>2, TagIs, TagChars
  <2> QED
    BY <1>1, <2>2, <2>3, MovedReads DEF UnicodeLabel
<1>2. ASSUME Is(s, i, LabelChars), le \in (i + 1)..(Len(s) + 1)
      PROVE  /\ \A j \in i..(le - 1) : InLabel(s, j)
             /\ ~InLabel(s, le) /\ ~Is(s, le, LabelChars)
  <2>1. /\ \A j \in i..(le - 1) : InLabel(s, j)
        /\ ~InLabel(s, le)
    BY LabelEnds
  <2> QED
    BY <2>1 DEF InLabel
<1> HIDE DEF le
\* Where the label ends in t.
<1>3. ASSUME Is(s, i, LabelChars), le \in (i + 1)..(Len(s) + 1),
             NEW e \in {le, le + 1}, e \in i..(Len(s) + 1), Alike(s, t, d, i, e),
             ~InLabel(t, le + d)
      PROVE  LabelEnd(t, i + d) = le + d /\ Is(t, i + d, LabelChars)
  <2>0. le \in Int /\ e \in Int /\ \A j \in i..(le - 1) : j \in Int /\ j \in i..(e - 1)
    BY <1>0, <1>3
  <2>1. \A j \in i..(le - 1) : InLabel(t, j + d)
    <3> TAKE j \in i..(le - 1)
    <3>1. InLabel(s, j) /\ (Is(t, j + d, LabelChars) <=> Is(s, j, LabelChars))
          /\ (Is(t, j + d, {"-"}) <=> Is(s, j, {"-"}))
      BY <1>0, <1>2, <1>3, <2>0, AlikeIs
    <3>2. CASE j = le - 1
      <4>1. j + 1 = le
        BY <2>0, <3>2
      <4> QED
        BY <1>2, <1>3, <3>1, <4>1 DEF InLabel
    <3>3. CASE j # le - 1
      <4>1. j + 1 \in i..(e - 1) /\ (j + 1) + d = (j + d) + 1
        BY <1>0, <1>3, <2>0, <3>3
      <4>2. Is(t, (j + 1) + d, LabelChars) <=> Is(s, j + 1, LabelChars)
        BY <1>0, <1>3, <2>0, <4>1, AlikeIs
      <4> QED
        BY <3>1, <4>1, <4>2 DEF InLabel
    <3> QED
      BY <3>2, <3>3
  <2> DEFINE k == i + d  m == le + d
  <2>2. e + d \in (i + d)..(Len(t) + 1)
    BY <1>3, AlikeEnd
  <2>3. /\ k \in Positions(t) /\ m \in k..(Len(t) + 1) /\ ~InLabel(t, m)
        /\ \A j \in k..(m - 1) : InLabel(t, j)
    <3>1. m \in k..(Len(t) + 1)
      BY <1>0, <1>3, <2>2 DEF Texts
    <3> SUFFICES ASSUME NEW j \in k..(m - 1)
                 PROVE  InLabel(t, j)
      BY <1>3, <3>1
    <3>2. j - d \in i..(le - 1) /\ (j - d) + d = j
      BY <1>0, <2>0
    <3> QED
      BY <2>1, <3>2
  <2>4. LabelEnd(t, i + d) = le + d
    <3> HIDE DEF k, m
    <3>1. LabelEnd(t, k) = m
      BY <2>3, LabelEndIs
    <3> QED
      BY <3>1 DEF k, m
  <2>5. Is(t, i + d, LabelChars)
    <3>1. i \in i..(e - 1)
      BY <1>0, <1>3
    <3> QED
      BY <1>0, <1>3, <2>0, <3>1, AlikeIs
  <2> QED
    BY <2>4, <2>5
<1>4. CASE /\ Is(s, i, LabelChars) /\ le \in (i + 1)..(Len(s) + 1)
           /\ ~Is(s, le, {"-"}) /\ UnicodeLabel(s, i) = Reads(le)
  <2>0. le \in Int /\ le \in i..(Len(s) + 1) /\ le \in {le, le + 1}
    BY <1>0, <1>4
  <2>1. Alike(s, t, d, i, le)
    BY <1>4, Results
  <2>2. ~Is(t, le + d, {"-"}) /\ ~Is(t, le + d, LabelChars)
    BY <1>0, <1>2, <1>4, <2>0, <2>1, AlikeIs
  <2>3. ~InLabel(t, le + d)
    BY <2>2 DEF InLabel
  <2>4. LabelEnd(t, i + d) = le + d /\ Is(t, i + d, LabelChars)
    BY <1>3, <1>4, <2>0, <2>1, <2>3
  <2>5. UnicodeLabel(t, i + d) = Reads(le + d)
    BY <2>2, <2>4 DEF UnicodeLabel
  <2>6. ASSUME HasTag(t, i + d) PROVE HasTag(s, i)
    <3>1. /\ Is(t, i + d, {"x"}) /\ Is(t, i + d + 1, {"n"})
          /\ Is(t, i + d + 2, {"-"}) /\ Is(t, i + d + 3, {"-"})
      BY <1>0, <2>6, TagIs
    <3>2. le # i + 1 /\ le # i + 2 /\ le # i + 3
      <4>1. le = i + 1 => le + d = i + d + 1
        BY <1>0
      <4>2. le = i + 2 => le + d = i + d + 2
        BY <1>0
      <4>3. le = i + 3 => le + d = i + d + 3
        BY <1>0
      <4> QED
        BY <2>2, <3>1, <4>1, <4>2, <4>3, TagChars
    <3>3. /\ i \in i..(le - 1) /\ i + 1 \in i..(le - 1)
          /\ i + 2 \in i..(le - 1) /\ i + 3 \in i..(le - 1)
          /\ (i + 1) + d = i + d + 1 /\ (i + 2) + d = i + d + 2 /\ (i + 3) + d = i + d + 3
      BY <1>0, <1>4, <3>2
    <3>4. \A j \in i..(le - 1) : \A C : Is(t, j + d, C) <=> Is(s, j, C)
      BY <1>0, <2>0, <2>1, AlikeIs
    <3>5. /\ Is(s, i, {"x"}) /\ Is(s, i + 1, {"n"})
          /\ Is(s, i + 2, {"-"}) /\ Is(s, i + 3, {"-"})
      BY <3>1, <3>3, <3>4
    <3> QED
      BY <1>0, <3>5, TagIs
  <2> QED
    BY <1>4, <2>5, <2>6, MovedReads
<1>5. CASE /\ Is(s, i, LabelChars) /\ le \in (i + 1)..(Len(s) + 1)
           /\ Is(s, le, {"-"}) /\ le <= Len(s) /\ ~Is(s, le + 1, LabelChars)
           /\ UnicodeLabel(s, i) = Fails(le + 1)
  <2>0. /\ le \in Int /\ le + 1 \in Int /\ le + 1 \in i..(Len(s) + 1)
        /\ le + 1 \in {le, le + 1} /\ le \in i..(le + 1 - 1) /\ (le + 1) + d = (le + d) + 1
    BY <1>0, <1>5
  <2>1. Alike(s, t, d, i, le + 1)
    BY <1>5, Results
  <2>2. /\ Is(t, le + d, {"-"}) /\ ~Is(t, le + d, LabelChars)
        /\ ~Is(t, (le + d) + 1, LabelChars)
        /\ Is(t, (le + d) + 1, {"-"}) => Is(s, le + 1, {"-"})
    <3> HIDE DEF le
    <3>1. /\ Is(t, le + d, {"-"}) <=> Is(s, le, {"-"})
          /\ Is(t, le + d, LabelChars) <=> Is(s, le, LabelChars)
      BY <1>0, <2>0, <2>1, AlikeIs
    <3>2. /\ Is(t, (le + 1) + d, LabelChars) => Is(s, le + 1, LabelChars)
          /\ Is(t, (le + 1) + d, {"-"}) => Is(s, le + 1, {"-"})
      BY <1>0, <2>0, <2>1, AlikeIs
    <3> QED
      BY <1>2, <1>5, <2>0, <3>1, <3>2
  <2>3. ~InLabel(t, le + d)
    BY <2>2 DEF InLabel
  <2>4. LabelEnd(t, i + d) = le + d /\ Is(t, i + d, LabelChars)
    BY <1>3, <1>5, <2>0, <2>1, <2>3
  <2>5. UnicodeLabel(t, i + d) = Fails((le + d) + 1)
    BY <2>2, <2>4 DEF UnicodeLabel
  <2>6. ASSUME HasTag(t, i + d) PROVE HasTag(s, i)
    <3>1. /\ Is(t, i + d, {"x"}) /\ Is(t, i + d + 1, {"n"})
          /\ Is(t, i + d + 2, {"-"}) /\ Is(t, i + d + 3, {"-"})
      BY <1>0, <2>6, TagIs
    <3>2. le # i + 1
      <4>1. le = i + 1 => le + d = i + d + 1
        BY <1>0
      <4> QED
        BY <2>2, <3>1, <4>1, TagChars
    <3>3. /\ i \in i..(le + 1 - 1) /\ i + 1 \in i..(le + 1 - 1)
          /\ i + 2 \in i..(le + 1 - 1)
          /\ (i + 1) + d = i + d + 1 /\ (i + 2) + d = i + d + 2 /\ (i + 3) + d = i + d + 3
      BY <1>0, <1>5, <3>2
    <3>4. \A j \in i..(le + 1 - 1) : \A C : Is(t, j + d, C) <=> Is(s, j, C)
      BY <1>0, <2>0, <2>1, AlikeIs
    <3>5. /\ Is(s, i, {"x"}) /\ Is(s, i + 1, {"n"}) /\ Is(s, i + 2, {"-"})
      BY <3>1, <3>3, <3>4
    <3>6. Is(s, i + 3, {"-"})
      <4>1. CASE le = i + 2
        <5>1. le + 1 = i + 3 /\ (le + d) + 1 = i + d + 3
          BY <1>0, <4>1
        <5> QED
          BY <2>2, <3>1, <5>1
      <4>2. CASE le # i + 2
        <5>1. i + 3 \in i..(le + 1 - 1)
          BY <1>0, <1>5, <3>2, <4>2
        <5> QED
          BY <3>1, <3>3, <3>4, <5>1
      <4> QED
        BY <4>1, <4>2
    <3> QED
      BY <1>0, <3>5, <3>6, TagIs
  <2>7. Moved(UnicodeLabel(s, i), d) = Fails((le + d) + 1)
    BY <1>5, <2>0, MovedReads
  <2> QED
    BY <2>5, <2>6, <2>7
<1> QED
  BY <1>1, <1>4, <1>5, UnicodeLabelAt DEF le

\* The same of any label.
LEMMA LabelMoves ==
  ASSUME NEW s \in Texts, NEW t \in Texts, NEW d \in Int, NEW i \in Positions(s),
         i + d \in Positions(t), Alike(s, t, d, i, Label(s, i).at)
  PROVE  /\ Label(t, i + d) = Moved(Label(s, i), d)
         /\ HasTag(t, i + d) <=> HasTag(s, i)
<1>0. i \in Int /\ Len(s) \in Nat /\ i + d \in Int
  BY DEF Positions, Texts
<1>1. CASE HasTag(s, i)
  <2> DEFINE r == Chars1(s, i + 4, PunycodeChars)
  <2>1. i + 4 \in Positions(s) /\ Label(s, i) = r /\ r.at >= i + 4
        /\ r.at \in i..(Len(s) + 1)
    BY <1>1, LabelAt DEF Label, Outcome
  <2>2. \A j \in i..(r.at - 1) : \A C : Is(t, j + d, C) <=> Is(s, j, C)
    <3> HIDE DEF r
    <3> QED BY <1>0, <2>1, AlikeIs
  <2>3. /\ i \in i..(r.at - 1) /\ i + 1 \in i..(r.at - 1)
        /\ i + 2 \in i..(r.at - 1) /\ i + 3 \in i..(r.at - 1)
        /\ (i + 1) + d = (i + d) + 1 /\ (i + 2) + d = (i + d) + 2 /\ (i + 3) + d = (i + d) + 3
    <3> HIDE DEF r
    <3> QED BY <1>0, <2>1
  <2>4. HasTag(t, i + d)
    <3> HIDE DEF r
    <3>1. /\ Is(s, i, {"x"}) /\ Is(s, i + 1, {"n"})
          /\ Is(s, i + 2, {"-"}) /\ Is(s, i + 3, {"-"})
      BY <1>0, <1>1, TagIs
    <3>2. /\ Is(t, i + d, {"x"}) /\ Is(t, (i + d) + 1, {"n"})
          /\ Is(t, (i + d) + 2, {"-"}) /\ Is(t, (i + d) + 3, {"-"})
      BY <2>2, <2>3, <3>1
    <3> QED
      BY <1>0, <3>2, TagIs
  <2>5. Alike(s, t, d, i + 4, r.at) /\ Alike(s, t, d, i, i + 4)
    <3> HIDE DEF r
    <3>1. i + 4 \in i..r.at /\ r.at \in (i + 4)..r.at /\ i \in i..r.at /\ i + 4 \in i..r.at
      BY <1>0, <2>1
    <3> QED
      BY <1>0, <2>1, <3>1, AlikeWithin
  <2>6. (i + 4) + d \in Positions(t) /\ (i + 4) + d = (i + d) + 4
    <3>1. i + 4 \in i..(Len(s) + 1)
      BY <1>0, <2>1 DEF Positions
    <3>2. (i + 4) + d \in (i + d)..(Len(t) + 1)
      BY <2>5, <3>1, AlikeEnd
    <3> QED
      BY <1>0, <3>2 DEF Positions, Texts
  <2>7. Chars1(t, (i + 4) + d, PunycodeChars) = Moved(r, d)
    BY <2>1, <2>5, <2>6, Chars1Move
  <2> QED
    BY <1>1, <2>1, <2>4, <2>6, <2>7 DEF Label
<1>2. CASE ~HasTag(s, i)
  <2>1. Label(s, i) = UnicodeLabel(s, i)
    BY <1>2 DEF Label
  <2>2. UnicodeLabel(t, i + d) = Moved(UnicodeLabel(s, i), d) /\ ~HasTag(t, i + d)
    BY <1>2, <2>1, UnicodeLabelMoves
  <2> QED
    BY <1>2, <2>1, <2>2 DEF Label
<1> QED
  BY <1>1, <1>2

-----------------------------------------------------------------------------
(* Domains                                                                   *)

\* As many graphemes, moved.
LEMMA GraphemesMove ==
  ASSUME NEW s \in Texts, NEW t \in Texts, NEW d \in Int, NEW i \in Positions(s),
         NEW e \in i..(Len(s) + 1), Alike(s, t, d, i, e)
  PROVE  Graphemes(t, i + d, e + d) = Graphemes(s, i, e)
<1> DEFINE T == {j \in i..(e - 1) : j = i \/ s[j] # "m"}
           U == {j \in (i + d)..(e + d - 1) : j = i + d \/ t[j] # "m"}
           f == [j \in T |-> j + d]
<1>0. i \in Int /\ e \in Int
  BY DEF Positions
<1>1. \A j \in i..(e - 1) : t[j + d] = s[j]
  BY DEF Alike
<1>2. f \in [T -> U]
  BY <1>0, <1>1
<1>3. \A j, k \in T : f[j] = f[k] => j = k
  BY <1>0
<1>4. \A k \in U : \E j \in T : f[j] = k
  <2> TAKE k \in U
  <2>1. k - d \in i..(e - 1) /\ (k - d) + d = k
    BY <1>0
  <2>2. k - d \in T
    BY <1>0, <1>1, <2>1
  <2> QED
    BY <2>1, <2>2
<1>5. IsFiniteSet(T)
  <2>1. IsFiniteSet(i..(e - 1))
    BY <1>0, FS_Interval
  <2>2. T \in SUBSET (i..(e - 1))
    OBVIOUS
  <2> HIDE DEF T
  <2> QED
    BY <2>1, <2>2, FS_Subset
<1>6. f \in Bijection(T, U)
  <2> HIDE DEF f, T, U
  <2> QED
    BY <1>2, <1>3, <1>4 DEF Bijection, Injection, Surjection, IsInjective
<1>7. Cardinality(U) = Cardinality(T)
  <2> HIDE DEF f, T, U
  <2> QED
    BY <1>5, <1>6, FS_Bijection DEF ExistsBijection
<1> QED
  BY <1>7 DEF Graphemes

\* A top level domain, moved.
LEMMA TopLevelMoves ==
  ASSUME NEW s \in Texts, NEW t \in Texts, NEW d \in Int, NEW i \in Positions(s),
         NEW e \in i..(Len(s) + 1), Alike(s, t, d, i, e),
         HasTag(t, i + d) <=> HasTag(s, i)
  PROVE  IsTopLevel(t, i + d, e + d) <=> IsTopLevel(s, i, e)
<1>0. i \in Int /\ e \in Int
  BY DEF Positions
<1>1. CASE HasTag(s, i)
  <2>1. (e + d) - ((i + d) + 4) = e - (i + 4)
    BY <1>0
  <2> QED
    BY <1>1, <2>1 DEF IsTopLevel
<1>2. CASE ~HasTag(s, i)
  <2>1. \A j \in i..(e - 1) : t[j + d] = s[j]
    BY DEF Alike
  <2> DEFINE C == Letters \cup Foreign
  <2>2. (\A j \in i..(e - 1) : s[j] \in C)
        <=> (\A j \in (i + d)..(e + d - 1) : t[j] \in C)
    <3> HIDE DEF C
    <3>1. ASSUME \A j \in i..(e - 1) : s[j] \in C, NEW j \in (i + d)..(e + d - 1)
          PROVE  t[j] \in C
      <4>1. j - d \in i..(e - 1) /\ (j - d) + d = j
        BY <1>0
      <4> QED
        BY <2>1, <3>1, <4>1
    <3>2. ASSUME \A j \in (i + d)..(e + d - 1) : t[j] \in C, NEW j \in i..(e - 1)
          PROVE  s[j] \in C
      <4>1. j + d \in (i + d)..(e + d - 1)
        BY <1>0
      <4> QED
        BY <2>1, <3>2, <4>1
    <3> QED
      BY <3>1, <3>2
  <2>3. Graphemes(t, i + d, e + d) = Graphemes(s, i, e)
    BY GraphemesMove
  <2> QED
    BY <1>2, <2>2, <2>3 DEF IsTopLevel
<1> QED
  BY <1>1, <1>2

\* What Domain makes of the labels from each position on.
Host(f, s, i, k) ==
  LET l == Label(s, k)
  IN  CASE l.ok /\ Is(s, l.at, {"."}) -> f[l.at + 1]
        [] l.ok /\ ~Is(s, l.at, {"."}) /\ k # i /\ IsTopLevel(s, k, l.at) -> l
        [] OTHER -> Fails(l.at)

Hosts(f, s, i) == \A k \in Positions(s) : f[k] = Host(f, s, i, k)

\* What a host is, case by case.
LEMMA HostCases ==
  ASSUME NEW f, NEW s, NEW i, NEW k
  PROVE  \/ /\ Label(s, k).ok /\ Is(s, Label(s, k).at, {"."})
            /\ Host(f, s, i, k) = f[Label(s, k).at + 1]
         \/ /\ Label(s, k).ok /\ ~Is(s, Label(s, k).at, {"."})
            /\ k # i /\ IsTopLevel(s, k, Label(s, k).at)
            /\ Host(f, s, i, k) = Label(s, k)
         \/ /\ Label(s, k).ok => ~Is(s, Label(s, k).at, {"."})
                                  /\ ~(k # i /\ IsTopLevel(s, k, Label(s, k).at))
            /\ Host(f, s, i, k) = Fails(Label(s, k).at)
<1> DEFINE l == Label(s, k)
<1>1. Host(f, s, i, k) =
        CASE l.ok /\ Is(s, l.at, {"."}) -> f[l.at + 1]
          [] l.ok /\ ~Is(s, l.at, {"."}) /\ k # i /\ IsTopLevel(s, k, l.at) -> l
          [] OTHER -> Fails(l.at)
  BY DEF Host
<1> HIDE DEF l
<1> QED
  BY <1>1 DEF l

\* The recursive function of Domain exists: it is Host at every position.
LEMMA DomainIsHost ==
  ASSUME NEW s \in Texts, NEW i \in Positions(s)
  PROVE  \E f : Hosts(f, s, i) /\ Domain(s, i) = f[i]
<1> DEFINE N == Len(s)
           From(f, n) == f = [k \in n..(N + 1) |-> Host(f, s, i, k)]
           Bad == {n \in Nat : n <= N + 1 /\ ~\E f : From(f, N + 2 - n)}
<1>0. N \in Nat
  BY DEF Texts
<1>1. Bad = {}
  <2> SUFFICES ASSUME Bad # {} PROVE FALSE
    OBVIOUS
  <2>1. PICK n \in Bad : \A m \in Bad : n <= m
    <3>1. Bad \subseteq Nat
      OBVIOUS
    <3> HIDE DEF Bad
    <3> QED BY <3>1, Least
  <2>2. n \in Nat /\ n <= N + 1 /\ ~\E f : From(f, N + 2 - n)
    OBVIOUS
  <2>3. n # 0
    <3>1. From([k \in (N + 2)..(N + 1) |-> 0], N + 2)
      BY <1>0
    <3> QED
      BY <1>0, <2>2, <3>1
  <2>4. n - 1 \in Nat /\ n - 1 <= N + 1 /\ ~(n <= n - 1)
    BY <1>0, <2>2, <2>3
  <2>5. n - 1 \notin Bad
    <3> HIDE DEF Bad
    <3> QED BY <2>1, <2>4
  <2>6. PICK f : From(f, N + 2 - (n - 1))
    BY <2>4, <2>5
  <2> DEFINE b == N + 2 - n
             g == [k \in b..(N + 1) |-> Host(f, s, i, k)]
  <2>7. b \in Positions(s) /\ b + 1 = N + 2 - (n - 1)
    BY <1>0, <2>2, <2>3 DEF Positions
  <2>8. f = [k \in (b + 1)..(N + 1) |-> Host(f, s, i, k)]
    BY <2>6, <2>7
  <2>9. \A k \in (b + 1)..(N + 1) : g[k] = f[k]
    <3> HIDE DEF N
    <3> QED BY <1>0, <2>7, <2>8 DEF Positions
  <2>10. \A k \in b..(N + 1) : Host(g, s, i, k) = Host(f, s, i, k)
    <3> TAKE k \in b..(N + 1)
    <3>1. k \in Positions(s)
      BY <1>0, <2>7 DEF Positions
    <3>2. Label(s, k).ok /\ Is(s, Label(s, k).at, {"."}) => Label(s, k).at + 1 \in (b + 1)..(N + 1)
      <4>1. Label(s, k).at \in k..(N + 1)
        BY <3>1, LabelAt DEF Outcome
      <4>2. Is(s, Label(s, k).at, {"."}) => Label(s, k).at \in 1..N
        BY DEF Is, Texts
      <4> HIDE DEF N
      <4> QED
        BY <1>0, <2>7, <4>1, <4>2 DEF Positions
    <3>3. Label(s, k).ok /\ Is(s, Label(s, k).at, {"."})
          => g[Label(s, k).at + 1] = f[Label(s, k).at + 1]
      <4> HIDE DEF g, b
      <4> QED BY <2>9, <3>2
    <3> HIDE DEF g, b
    <3> QED
      BY <3>3 DEF Host
  <2>11. From(g, N + 2 - n)
    BY <2>10
  <2> QED
    BY <2>2, <2>11
<1>2. \E f : From(f, 1)
  <2>1. N + 1 \notin Bad
    <3> HIDE DEF Bad
    <3> QED BY <1>1
  <2>2. N + 1 \in Nat /\ N + 1 <= N + 1 /\ N + 2 - (N + 1) = 1
    <3> HIDE DEF N
    <3> QED BY <1>0
  <2> HIDE DEF N, From
  <2> QED
    BY <2>1, <2>2
<1> DEFINE from == CHOOSE f : From(f, 1)
<1>3. From(from, 1)
  BY <1>2
<1>4. Domain(s, i) = from[i]
  BY DEF Domain, Host
<1>5. Hosts(from, s, i)
  <2>1. from = [k \in 1..(N + 1) |-> Host(from, s, i, k)]
    BY <1>3
  <2> HIDE DEF from
  <2> QED
    BY <2>1 DEF Hosts, Positions
<1> QED
  BY <1>4, <1>5

\* What is read as a domain, or where it fails.
LEMMA HostsAt ==
  ASSUME NEW s \in Texts, NEW i \in Positions(s), NEW f, Hosts(f, s, i)
  PROVE  \A k \in Positions(s) :
           /\ Outcome(f[k], k, s)
           /\ f[k].at >= Label(s, k).at
           /\ f[k].ok => f[k].at > k
<1> DEFINE N == Len(s)
           Good(k) == /\ Outcome(f[k], k, s)
                      /\ f[k].at >= Label(s, k).at
                      /\ f[k].ok => f[k].at > k
           Bad == {n \in 0..N : ~Good(N + 1 - n)}
<1>0. N \in Nat
  BY DEF Texts
<1>1. Bad = {}
  <2> SUFFICES ASSUME Bad # {} PROVE FALSE
    OBVIOUS
  <2>1. PICK n \in Bad : \A m \in Bad : n <= m
    <3>1. Bad \subseteq Nat
      OBVIOUS
    <3> HIDE DEF Bad
    <3> QED BY <3>1, Least
  <2> DEFINE k == N + 1 - n
             l == Label(s, k)
  <2>2. k \in Positions(s) /\ k \in Nat /\ ~Good(k) /\ n \in 0..N
    BY <1>0 DEF Positions
  <2>3. Outcome(l, k, s) /\ (l.ok => l.at > k) /\ l.at \in k..(N + 1)
    <3> HIDE DEF k
    <3> QED BY <2>2, LabelAt DEF Outcome
  <2>4. f[k] = Host(f, s, i, k)
    <3> HIDE DEF k
    <3> QED BY <2>2 DEF Hosts
  <2>5. CASE l.ok /\ Is(s, l.at, {"."}) /\ Host(f, s, i, k) = f[l.at + 1]
    <3> DEFINE m == l.at + 1
    <3>1. m \in (k + 1)..(N + 1)
      <4>1. l.at \in 1..N
        BY <2>5 DEF Is, Texts
      <4> HIDE DEF k, l, N
      <4> QED BY <1>0, <2>2, <2>3, <4>1
    <3>2. N + 1 - m \in 0..N /\ ~(n <= N + 1 - m) /\ N + 1 - (N + 1 - m) = m
      <4> HIDE DEF m, N
      <4> QED BY <1>0, <2>2, <3>1
    <3>3. N + 1 - m \notin Bad
      <4> HIDE DEF m, Bad, N
      <4> QED BY <2>1, <3>2
    <3>4. Good(m)
      BY <3>2, <3>3
    <3>5. Good(k)
      <4> HIDE DEF k, l
      <4>1. m \in Positions(s) /\ Label(s, m).at \in m..(N + 1)
        <5> HIDE DEF m
        <5>1. m \in Positions(s)
          BY <1>0, <2>2, <3>1 DEF Positions
        <5> QED
          BY <5>1, LabelAt DEF Outcome
      <4>2. f[k] = f[m]
        BY <2>4, <2>5
      <4> HIDE DEF m
      <4>3. f[m].at \in k..(N + 1) /\ f[m].at > k
        BY <1>0, <2>2, <3>1, <3>4 DEF Outcome
      <4>4. f[m].at >= l.at
        <5>1. m > l.at
          BY <2>3, <2>2 DEF m
        <5> QED
          BY <1>0, <2>2, <2>3, <3>1, <3>4, <4>3, <5>1 DEF Outcome
      <4>5. Label(s, k) = l
        BY DEF l
      <4> HIDE DEF N
      <4> QED
        BY <3>4, <4>2, <4>3, <4>4, <4>5 DEF Outcome, N
    <3> QED
      BY <2>2, <3>5
  <2>6. CASE Host(f, s, i, k) = l
    <3> HIDE DEF k
    <3>1. f[k] = Label(s, k)
      BY <2>4, <2>6 DEF l
    <3>2. l.at >= l.at
      <4> HIDE DEF l
      <4> QED BY <1>0, <2>2, <2>3
    <3> QED
      BY <2>2, <2>3, <3>1, <3>2
  <2>7. CASE Host(f, s, i, k) = Fails(l.at)
    <3> HIDE DEF k
    <3>1. f[k] = Fails(l.at) /\ l.at >= l.at
      <4> HIDE DEF l
      <4> QED BY <1>0, <2>2, <2>3, <2>4, <2>7
    <3> QED
      BY <2>2, <2>3, <3>1, OutcomesAre, Results
  <2> QED
    BY <2>5, <2>6, <2>7, HostCases
<1> QED
  <2> SUFFICES ASSUME NEW k \in Positions(s) PROVE Good(k)
    OBVIOUS
  <2>1. N + 1 - k \in 0..N /\ N + 1 - (N + 1 - k) = k
    <3>1. k \in 1..(N + 1)
      BY DEF Positions
    <3> HIDE DEF N
    <3> QED BY <1>0, <3>1
  <2>2. N + 1 - k \notin Bad
    <3> HIDE DEF Bad
    <3> QED BY <1>1
  <2> QED
    BY <2>1, <2>2

\* One label of a domain, and what comes after it if that moves as well.
LEMMA HostMoves ==
  ASSUME NEW s \in Texts, NEW t \in Texts, NEW d \in Int, NEW i \in Positions(s),
         NEW f, Hosts(f, s, i), NEW j, j = i + d, NEW g, Hosts(g, t, j),
         NEW k \in Positions(s), k + d \in Positions(t), Alike(s, t, d, k, f[k].at),
         \A m \in Positions(s) : m > k /\ m + d \in Positions(t) /\ Alike(s, t, d, m, f[m].at)
           => g[m + d] = Moved(f[m], d)
  PROVE  g[k + d] = Moved(f[k], d)
<1> DEFINE l == Label(s, k)
           e == l.at
<1>0. k \in Nat /\ Len(s) \in Nat /\ i \in Int
  BY DEF Positions, Texts
<1>1. /\ e \in k..(Len(s) + 1) /\ (l.ok => e > k)
      /\ f[k].at \in k..(Len(s) + 1) /\ f[k].at >= e
  BY LabelAt, HostsAt DEF Outcome
<1>2. e \in k..(f[k].at) /\ k \in k..(f[k].at)
  <2> HIDE DEF e
  <2> QED BY <1>0, <1>1
<1>3. Alike(s, t, d, k, e)
  <2>1. e \in k..e /\ f[k].at \in Int /\ k \in k..(f[k].at) /\ e \in k..(f[k].at)
    <3> HIDE DEF e
    <3> QED BY <1>0, <1>1, <1>2
  <2> HIDE DEF e
  <2> QED BY <1>0, <1>2, <2>1, AlikeWithin
<1>4. /\ Label(t, k + d) = Moved(l, d)
      /\ HasTag(t, k + d) <=> HasTag(s, k)
  BY <1>3, LabelMoves
<1>5. Label(t, k + d).ok = l.ok /\ Label(t, k + d).at = e + d
  BY <1>4 DEF Moved
<1>6. f[k] = Host(f, s, i, k) /\ g[k + d] = Host(g, t, j, k + d)
  BY DEF Hosts
<1>7. Is(t, e + d, {"."}) => Is(s, e, {"."})
  <2> HIDE DEF e
  <2> QED BY <1>0, <1>1, <1>3, AlikeIs
<1>8. CASE l.ok /\ Is(s, e, {"."}) /\ Host(f, s, i, k) = f[e + 1]
  <2> DEFINE m == e + 1
  <2>1. m \in Positions(s) /\ m > k
    <3>1. e \in 1..Len(s)
      BY <1>8 DEF Is, Texts
    <3> HIDE DEF e
    <3> QED BY <1>0, <1>1, <1>8, <3>1 DEF Positions
  <2>2. f[k] = f[m]
    BY <1>6, <1>8
  <2>3. f[m].at \in m..(Len(s) + 1)
    <3> HIDE DEF m
    <3> QED BY <2>1, HostsAt DEF Outcome
  <2>4. Alike(s, t, d, m, f[m].at) /\ e \in k..(f[m].at - 1) /\ Alike(s, t, d, k, m)
    <3>1. Alike(s, t, d, k, f[m].at)
      BY <2>2
    <3>2. m \in k..(f[m].at) /\ f[m].at \in m..(f[m].at) /\ f[m].at \in Int /\ k \in k..(f[m].at)
          /\ m \in k..m
      <4> HIDE DEF m
      <4> QED BY <1>0, <2>1, <2>3 DEF Positions
    <3>3. e \in k..(f[m].at - 1)
      <4>1. m - 1 = e /\ m - 1 \in k..(f[m].at - 1)
        <5>1. m - 1 = e
          <6> HIDE DEF e
          <6> QED BY <1>0, <1>1
        <5> HIDE DEF m
        <5> QED BY <5>1, <1>0, <2>1, <2>3 DEF Positions
      <4> HIDE DEF e, m
      <4> QED BY <4>1
    <3> HIDE DEF m, e
    <3> QED BY <1>0, <3>1, <3>2, <3>3, AlikeWithin
  <2>5. Is(t, e + d, {"."})
    <3>1. Alike(s, t, d, k, f[m].at) /\ f[m].at \in Int
      <4>1. f[m].at \in Int
        <5> HIDE DEF m
        <5> QED BY <1>0, <2>1, <2>3 DEF Positions
      <4> QED BY <2>2, <4>1
    <3> HIDE DEF e, m
    <3> QED BY <1>0, <1>8, <2>4, <3>1, AlikeIs
  <2>6. m + d \in Positions(t) /\ m + d = (e + d) + 1
    <3>1. m + d \in (k + d)..(Len(t) + 1)
      <4>1. m \in k..(Len(s) + 1)
        <5> HIDE DEF m
        <5> QED BY <1>0, <2>1 DEF Positions
      <4> HIDE DEF m
      <4> QED BY <2>4, <4>1, AlikeEnd
    <3>2. m + d = (e + d) + 1
      <4> HIDE DEF e
      <4> QED BY <1>0, <1>1
    <3> HIDE DEF m
    <3> QED BY <1>0, <3>1, <3>2 DEF Positions, Texts
  <2>7. g[m + d] = Moved(f[m], d)
    <3> HIDE DEF m
    <3> QED BY <2>1, <2>4, <2>6
  <2>8. Host(g, t, j, k + d) = g[(e + d) + 1]
    <3> HIDE DEF l, e
    <3> QED BY <1>5, <1>8, <2>5, HostCases
  <2> QED
    BY <1>6, <2>2, <2>6, <2>7, <2>8
<1>9. CASE /\ l.ok => ~Is(s, e, {"."})
           /\ \/ l.ok /\ k # i /\ IsTopLevel(s, k, e) /\ Host(f, s, i, k) = l
              \/ ~(l.ok /\ k # i /\ IsTopLevel(s, k, e)) /\ Host(f, s, i, k) = Fails(e)
  <2>1. IsTopLevel(t, k + d, e + d) <=> IsTopLevel(s, k, e)
    <3> HIDE DEF e
    <3> QED BY <1>1, <1>3, <1>4, TopLevelMoves
  <2>2. k + d # j <=> k # i
    BY <1>0
  <2>3. CASE l.ok /\ k # i /\ IsTopLevel(s, k, e) /\ Host(f, s, i, k) = l
    <3> DEFINE kd == k + d  ed == e + d
    <3>1. Host(g, t, j, kd) = Label(t, kd)
      <4>1. /\ Label(t, kd).ok /\ Label(t, kd).at = ed /\ ~Is(t, ed, {"."})
            /\ kd # j /\ IsTopLevel(t, kd, ed)
        BY <1>5, <1>7, <1>9, <2>1, <2>2, <2>3
      <4> HIDE DEF l, e, kd, ed
      <4> QED BY <4>1, HostCases
    <3> QED
      BY <1>4, <1>6, <2>3, <3>1
  <2>4. CASE ~(l.ok /\ k # i /\ IsTopLevel(s, k, e)) /\ Host(f, s, i, k) = Fails(e)
    <3> DEFINE kd == k + d  ed == e + d
    <3>1. Host(g, t, j, kd) = Fails(ed)
      <4>1. /\ Label(t, kd).at = ed /\ (Label(t, kd).ok => ~Is(t, ed, {"."}))
            /\ ~(Label(t, kd).ok /\ kd # j /\ IsTopLevel(t, kd, ed))
        BY <1>5, <1>7, <1>9, <2>1, <2>2, <2>4
      <4> HIDE DEF l, e, kd, ed
      <4> QED BY <4>1, HostCases
    <3> QED
      BY <1>6, <2>4, <3>1, MovedReads
  <2> QED
    BY <1>9, <2>3, <2>4
<1> QED
  BY <1>8, <1>9, HostCases

\* A domain is read the same in a text that is alike, by induction on what is left of it.
LEMMA DomainMoves ==
  ASSUME NEW s \in Texts, NEW t \in Texts, NEW d \in Int, NEW i \in Positions(s),
         i + d \in Positions(t), Alike(s, t, d, i, Domain(s, i).at)
  PROVE  Domain(t, i + d) = Moved(Domain(s, i), d)
<1>1. PICK f : Hosts(f, s, i) /\ Domain(s, i) = f[i]
  BY DomainIsHost
<1>2. PICK g : Hosts(g, t, i + d) /\ Domain(t, i + d) = g[i + d]
  <2> DEFINE j == i + d
  <2> HIDE DEF j
  <2>1. j \in Positions(t)
    BY DEF j
  <2>2. \E g : Hosts(g, t, j) /\ Domain(t, j) = g[j]
    BY <2>1, DomainIsHost
  <2> QED
    BY <2>2 DEF j
<1> DEFINE N == Len(s)
           Moves(k) == k + d \in Positions(t) /\ Alike(s, t, d, k, f[k].at)
                         => g[k + d] = Moved(f[k], d)
           Bad == {n \in 0..N : ~Moves(N + 1 - n)}
<1>0. N \in Nat
  BY DEF Texts
<1>3. Bad = {}
  <2> SUFFICES ASSUME Bad # {} PROVE FALSE
    OBVIOUS
  <2>1. PICK n \in Bad : \A m \in Bad : n <= m
    <3>1. Bad \subseteq Nat
      OBVIOUS
    <3> HIDE DEF Bad
    <3> QED BY <3>1, Least
  <2> DEFINE k == N + 1 - n
  <2>2. k \in Positions(s) /\ ~Moves(k) /\ n \in 0..N
    BY <1>0 DEF Positions
  <2>3. \A m \in Positions(s) : m > k /\ m + d \in Positions(t) /\ Alike(s, t, d, m, f[m].at)
          => g[m + d] = Moved(f[m], d)
    <3> SUFFICES ASSUME NEW m \in Positions(s), m > k
                 PROVE  Moves(m)
      OBVIOUS
    <3>1. m \in 1..(N + 1)
      BY DEF Positions
    <3>2. N + 1 - m \in 0..N /\ ~(n <= N + 1 - m) /\ N + 1 - (N + 1 - m) = m
      <4> HIDE DEF N
      <4> QED BY <1>0, <2>2, <3>1
    <3>3. N + 1 - m \notin Bad
      <4> HIDE DEF Bad, N
      <4> QED BY <2>1, <3>2
    <3> QED
      BY <3>2, <3>3
  <2> DEFINE j == i + d
  <2>4. Hosts(g, t, j) /\ j = i + d
    BY <1>2
  <2> HIDE DEF k, j
  <2> QED
    BY <1>1, <2>2, <2>3, <2>4, HostMoves
<1>4. Moves(i)
  <2>1. N + 1 - i \in 0..N /\ N + 1 - (N + 1 - i) = i
    <3>1. i \in 1..(N + 1)
      BY DEF Positions
    <3> HIDE DEF N
    <3> QED BY <1>0, <3>1
  <2>2. N + 1 - i \notin Bad
    <3> HIDE DEF Bad
    <3> QED BY <1>3
  <2> QED
    BY <2>1, <2>2
<1> QED
  BY <1>1, <1>2, <1>4

-----------------------------------------------------------------------------
(* Addresses and numbers                                                     *)

\* t begins with what s has before e, and does not have at e what s does not have.
LEMMA Stays ==
  ASSUME NEW s \in Texts, NEW t \in Texts, NEW i \in Positions(s), i \in Positions(t), NEW C, NEW c
  PROVE  /\ Alike(s, t, 0, i, Chars(s, i, C).at) => Chars(t, i, C) = Chars(s, i, C)
         /\ Alike(s, t, 0, i, Chars1(s, i, C).at) => Chars1(t, i, C) = Chars1(s, i, C)
         /\ Alike(s, t, 0, i, Char(s, i, c).at) => Char(t, i, c) = Char(s, i, c)
         /\ Alike(s, t, 0, i, Label(s, i).at) => Label(t, i) = Label(s, i)
         /\ Alike(s, t, 0, i, Domain(s, i).at) => Domain(t, i) = Domain(s, i)
<1>0. i + 0 = i /\ i + 0 \in Positions(t) /\ 0 \in Int
  BY DEF Positions
<1>1. \A r : Outcome(r, i, s) => Moved(r, 0) = r
  <2> TAKE r
  <2> HAVE Outcome(r, i, s)
  <2>1. r.at + 0 = r.at
    BY DEF Outcome, Positions
  <2>2. CASE r = Reads(r.at)
    BY <2>1, <2>2, MovedReads
  <2>3. CASE r = Fails(r.at)
    BY <2>1, <2>3, MovedReads
  <2> QED
    BY <2>2, <2>3 DEF Outcome
<1>2. /\ Outcome(Chars(s, i, C), i, s) /\ Outcome(Chars1(s, i, C), i, s)
      /\ Outcome(Char(s, i, c), i, s) /\ Outcome(Label(s, i), i, s)
      /\ Outcome(Domain(s, i), i, s)
  <2>1. Outcome(Chars(s, i, C), i, s)
    <3>1. Chars(s, i, C) = Reads(RunEnd(s, i, C))
      BY DEF Chars
    <3> QED
      BY <3>1, RunEnds, OutcomesAre
  <2>2. Outcome(Domain(s, i), i, s)
    BY DomainIsHost, HostsAt
  <2> QED
    BY <2>1, <2>2, Chars1At, CharAt, LabelAt
<1>3. Alike(s, t, 0, i, Chars(s, i, C).at) => Chars(t, i, C) = Chars(s, i, C)
  BY <1>0, <1>1, <1>2, CharsMove
<1>4. Alike(s, t, 0, i, Chars1(s, i, C).at) => Chars1(t, i, C) = Chars1(s, i, C)
  BY <1>0, <1>1, <1>2, Chars1Move
<1>5. Alike(s, t, 0, i, Char(s, i, c).at) => Char(t, i, c) = Char(s, i, c)
  BY <1>0, <1>1, <1>2, CharMoves
<1>6. Alike(s, t, 0, i, Label(s, i).at) => Label(t, i) = Label(s, i)
  BY <1>0, <1>1, <1>2, LabelMoves
<1>7. Alike(s, t, 0, i, Domain(s, i).at) => Domain(t, i) = Domain(s, i)
  BY <1>0, <1>1, <1>2, DomainMoves
<1> QED
  BY <1>3, <1>4, <1>5, <1>6, <1>7

\* A domain is of at least one character.
LEMMA DomainAt ==
  ASSUME NEW s \in Texts, NEW i \in Positions(s)
  PROVE  /\ Outcome(Domain(s, i), i, s)
         /\ Domain(s, i).ok => Domain(s, i).at > i
BY DomainIsHost, HostsAt

\* The parts of an address, each from where the one before it ends.
Username(s) == Chars1(s, Chars(s, 1, Blanks).at, UsernameChars)
Separator(s) == Char(s, Username(s).at, "@")
HostOf(s) == Domain(s, Separator(s).at)

\* An address fails with its first part that fails.
LEMMA AddressIs ==
  ASSUME NEW s
  PROVE  /\ Chars(s, 1, Blanks).ok /\ ~Username(s).ok => LightningAddress(s) = Username(s)
         /\ Chars(s, 1, Blanks).ok /\ Username(s).ok /\ ~Separator(s).ok
              => LightningAddress(s) = Separator(s)
         /\ Chars(s, 1, Blanks).ok /\ Username(s).ok /\ Separator(s).ok /\ ~HostOf(s).ok
              => LightningAddress(s) = HostOf(s)
         /\ Chars(s, 1, Blanks).ok /\ Username(s).ok /\ Separator(s).ok /\ HostOf(s).ok
              => LightningAddress(s) = Chars(s, HostOf(s).at, Blanks)
BY DEF LightningAddress, Then, Username, Separator, HostOf

\* An address is read part by part.
LEMMA AddressAt ==
  ASSUME NEW s \in Texts
  PROVE  LET b == Chars(s, 1, Blanks).at
             r == LightningAddress(s)
         IN  /\ b \in Positions(s)
             /\ \/ ~Username(s).ok /\ Username(s) = Fails(b) /\ r = Fails(b)
                \/ /\ Username(s).ok /\ Username(s).at \in (b + 1)..(Len(s) + 1)
                   /\ \/ ~Separator(s).ok /\ r = Fails(Username(s).at)
                      \/ /\ Separator(s).ok /\ Separator(s).at = Username(s).at + 1
                         /\ Separator(s).at \in Positions(s)
                         /\ Is(s, Username(s).at, {"@"})
                         /\ \/ /\ ~HostOf(s).ok /\ r = HostOf(s)
                               /\ r.at \in Separator(s).at..(Len(s) + 1)
                               /\ r = Fails(r.at)
                            \/ /\ HostOf(s).ok
                               /\ HostOf(s).at \in (Separator(s).at + 1)..(Len(s) + 1)
                               /\ r = Chars(s, HostOf(s).at, Blanks)
                               /\ r.at \in HostOf(s).at..(Len(s) + 1)
                               /\ r.ok /\ r = Reads(r.at)
<1> DEFINE b == Chars(s, 1, Blanks).at
           r == LightningAddress(s)
<1>0. Len(s) \in Nat /\ 1 \in Positions(s)
  BY DEF Texts, Positions
<1>1. Chars(s, 1, Blanks).ok /\ b \in Positions(s)
  BY <1>0, CharsAt DEF Positions
<1>2. \/ ~Username(s).ok /\ Username(s) = Fails(b)
      \/ Username(s).ok /\ Username(s).at \in (b + 1)..(Len(s) + 1)
  <2> HIDE DEF b
  <2>1. Outcome(Chars1(s, b, UsernameChars), b, s)
        /\ (Chars1(s, b, UsernameChars).ok => Chars1(s, b, UsernameChars).at > b)
    BY <1>1, Chars1At
  <2>2. ~Is(s, b, UsernameChars) => Chars1(s, b, UsernameChars) = Fails(b)
    BY DEF Chars1
  <2>3. Is(s, b, UsernameChars) => Chars1(s, b, UsernameChars).ok
    BY Results DEF Chars1, Chars
  <2>4. Username(s) = Chars1(s, b, UsernameChars)
    BY DEF Username, b
  <2> QED
    BY <1>0, <1>1, <2>1, <2>2, <2>3, <2>4 DEF Outcome, Positions
<1>3. CASE ~Username(s).ok /\ Username(s) = Fails(b)
  BY <1>1, <1>3, AddressIs
<1>4. CASE Username(s).ok /\ Username(s).at \in (b + 1)..(Len(s) + 1)
  <2> DEFINE u == Username(s).at
  <2>0. u \in Positions(s)
    <3> HIDE DEF b, u
    <3>1. u \in (b + 1)..(Len(s) + 1)
      BY <1>4 DEF u
    <3> QED BY <1>0, <1>1, <3>1 DEF Positions
  <2>1. \/ ~Separator(s).ok /\ Separator(s) = Fails(u)
        \/ Separator(s).ok /\ Separator(s).at = u + 1 /\ Is(s, u, {"@"})
    <3> HIDE DEF u
    <3>1. Separator(s) = Char(s, u, "@")
      BY DEF Separator, u
    <3> QED
      BY <3>1, Results DEF Char
  <2>2. CASE ~Separator(s).ok /\ Separator(s) = Fails(u)
    BY <1>1, <1>4, <2>2, AddressIs
  <2>3. CASE Separator(s).ok /\ Separator(s).at = u + 1 /\ Is(s, u, {"@"})
    <3> DEFINE k == Separator(s).at
    <3>1. k \in Positions(s)
      <4>1. u \in 1..Len(s)
        BY <2>3 DEF Is, Texts
      <4> HIDE DEF u
      <4> QED BY <2>3, <4>1, <1>0 DEF Positions
    <3>2. HostOf(s) = Domain(s, k)
      BY DEF HostOf
    <3> HIDE DEF k
    <3>3. Outcome(Domain(s, k), k, s) /\ (Domain(s, k).ok => Domain(s, k).at > k)
      BY <3>1, DomainAt
    <3>4. CASE ~HostOf(s).ok
      <4>1. r = HostOf(s)
        BY <1>1, <1>4, <2>3, <3>4, AddressIs
      <4> HIDE DEF r
      <4>2. r.at \in k..(Len(s) + 1) /\ r = Fails(r.at)
        BY <3>2, <3>3, <3>4, <4>1 DEF Outcome
      <4> QED
        BY <1>1, <1>4, <2>3, <3>1, <3>4, <4>1, <4>2 DEF k, r
    <3>5. CASE HostOf(s).ok
      <4> DEFINE h == HostOf(s).at
      <4>1. r = Chars(s, h, Blanks)
        BY <1>1, <1>4, <2>3, <3>5, AddressIs
      <4>2. h \in (k + 1)..(Len(s) + 1)
        BY <1>0, <3>1, <3>2, <3>3, <3>5 DEF Outcome, Positions
      <4>3. h \in Positions(s)
        <5> HIDE DEF h
        <5> QED BY <1>0, <3>1, <4>2 DEF Positions
      <4> HIDE DEF h, r
      <4>4. r.ok /\ r.at \in h..(Len(s) + 1)
        BY <4>1, <4>3, CharsAt
      <4>5. r = Reads(r.at)
        BY <4>1, Results DEF Chars
      <4> QED
        BY <1>1, <1>4, <2>3, <3>1, <3>5, <4>1, <4>2, <4>4, <4>5 DEF k, r, h
    <3> QED
      BY <3>4, <3>5
  <2> QED
    BY <1>4, <2>1, <2>2, <2>3, <1>1
<1> QED
  BY <1>1, <1>2, <1>3, <1>4

\* An address or its error depends only on what has been read and on what stopped it.
LEMMA AddressStays ==
  ASSUME NEW s \in Texts, NEW t \in Texts, Alike(s, t, 0, 1, LightningAddress(s).at)
  PROVE  LightningAddress(t) = LightningAddress(s)
<1> DEFINE r == LightningAddress(s)
           b == Chars(s, 1, Blanks).at
<1>0. Len(s) \in Nat /\ 1 \in Positions(s) /\ 1 \in Positions(t) /\ Len(t) \in Nat
  BY DEF Texts, Positions
<1>1. b \in Positions(s) /\ b \in Nat /\ Chars(s, 1, Blanks).ok
  BY <1>0, AddressAt, CharsAt DEF Positions
<1>2. r.at \in b..(Len(s) + 1)
  <2> HIDE DEF b, r
  <2>1. b..(Len(s) + 1) = {x \in Int : b <= x /\ x <= Len(s) + 1}
    BY <1>0, <1>1
  <2> QED
    BY <1>0, <1>1, AddressAt, Results DEF b, r, Positions
\* Where a part of the address ends the texts still agree.
<1>3. ASSUME NEW i \in 1..r.at, NEW e \in i..r.at
      PROVE  Alike(s, t, 0, i, e) /\ i \in Positions(t) /\ i \in Positions(s)
  <2>1. r.at \in Int /\ e \in Int /\ i \in Int /\ 1 \in 1..r.at /\ i \in 1..(Len(s) + 1)
    <3> HIDE DEF r, b
    <3> QED BY <1>0, <1>1, <1>2, <1>3 DEF Positions
  <2>2. Alike(s, t, 0, i, e) /\ Alike(s, t, 0, 1, i)
    <3>1. 1 \in 1..r.at /\ i \in 1..r.at /\ 0 \in Int
      BY <2>1
    <3> HIDE DEF r
    <3> QED BY <1>3, <2>1, <3>1, AlikeWithin DEF r
  <2>3. i + 0 \in (1 + 0)..(Len(t) + 1)
    <3>1. 1 + 0 \in Positions(t) /\ 0 \in Int
      BY <1>0
    <3> HIDE DEF r
    <3> QED BY <1>0, <2>1, <2>2, <3>1, AlikeEnd
  <2> HIDE DEF r
  <2> QED
    BY <1>0, <2>1, <2>2, <2>3 DEF Positions
<1>4. Chars(t, 1, Blanks) = Chars(s, 1, Blanks)
  <2>1. 1 \in 1..r.at /\ b \in 1..r.at
    <3> HIDE DEF r, b
    <3> QED BY <1>0, <1>1, <1>2 DEF Positions
  <2>2. Alike(s, t, 0, 1, b)
    <3> HIDE DEF r, b
    <3> QED BY <1>3, <2>1
  <2> QED
    BY <1>0, <2>2, Stays
<1>5. ASSUME Username(s).at \in b..r.at
      PROVE  Username(t) = Username(s)
  <2>1. b \in 1..r.at
    <3> HIDE DEF r, b
    <3> QED BY <1>0, <1>1, <1>2 DEF Positions
  <2>2. Alike(s, t, 0, b, Chars1(s, b, UsernameChars).at) /\ b \in Positions(t)
    <3>1. Username(s) = Chars1(s, b, UsernameChars)
      BY DEF Username
    <3> HIDE DEF r, b
    <3> QED BY <1>3, <1>5, <2>1, <3>1
  <2>3. Chars1(t, b, UsernameChars) = Chars1(s, b, UsernameChars)
    <3> HIDE DEF b
    <3> QED BY <1>1, <2>2, Stays
  <2> QED
    BY <1>4, <2>3 DEF Username
<1>6. CASE ~Username(s).ok /\ Username(s) = Fails(b) /\ r = Fails(b)
  <2>1. Username(s).at = b /\ r.at = b /\ b \in b..b
    BY <1>1, <1>6, Results
  <2>2. Username(t) = Username(s)
    <3> HIDE DEF b, r
    <3> QED BY <1>5, <2>1
  <2> QED
    BY <1>1, <1>4, <1>6, <2>2, AddressIs
<1>7. CASE /\ Username(s).ok /\ Username(s).at \in (b + 1)..(Len(s) + 1)
           /\ ~Separator(s).ok /\ r = Fails(Username(s).at)
  <2> DEFINE u == Username(s).at
  <2>0. r.at = u /\ u \in b..r.at /\ u \in 1..r.at /\ u \in u..r.at
    <3>1. r.at = u
      BY <1>7, Results
    <3>2. u \in (b + 1)..(Len(s) + 1)
      BY <1>7
    <3> HIDE DEF b, r, u
    <3> QED BY <1>0, <1>1, <3>1, <3>2 DEF Positions
  <2>1. Username(t) = Username(s)
    BY <1>5, <2>0
  <2>2. Alike(s, t, 0, u, u) /\ u \in Positions(t) /\ u \in Positions(s)
    <3> HIDE DEF r, u
    <3> QED BY <1>3, <2>0
  <2>3. Char(s, u, "@") = Fails(u)
    <3>1. Separator(s) = Char(s, u, "@")
      BY DEF Separator
    <3> HIDE DEF u
    <3> QED BY <1>7, <3>1, Results DEF Char
  <2>4. Char(t, u, "@") = Char(s, u, "@")
    <3> HIDE DEF u
    <3> QED BY <2>2, <2>3, Stays, Results
  <2>5. Separator(t) = Separator(s)
    BY <2>1, <2>4 DEF Separator
  <2> QED
    BY <1>1, <1>4, <1>7, <2>1, <2>5, AddressIs
<1>8. CASE /\ Username(s).ok /\ Username(s).at \in (b + 1)..(Len(s) + 1)
           /\ Separator(s).ok /\ Separator(s).at = Username(s).at + 1
           /\ Separator(s).at \in Positions(s)
           /\ \/ /\ ~HostOf(s).ok /\ r = HostOf(s)
                 /\ r.at \in Separator(s).at..(Len(s) + 1)
              \/ /\ HostOf(s).ok
                 /\ HostOf(s).at \in (Separator(s).at + 1)..(Len(s) + 1)
                 /\ r = Chars(s, HostOf(s).at, Blanks)
                 /\ r.at \in HostOf(s).at..(Len(s) + 1)
  <2> DEFINE u == Username(s).at  k == Separator(s).at  h == HostOf(s).at
  <2>0. /\ u \in b..r.at /\ u \in 1..r.at /\ k \in u..r.at /\ k \in 1..r.at
        /\ h \in k..r.at /\ h \in 1..r.at /\ k \in Positions(s) /\ h \in Positions(s)
        /\ r.at \in h..r.at
    <3>1. /\ u \in (b + 1)..(Len(s) + 1) /\ k = u + 1 /\ k \in Positions(s)
          /\ \/ r.at = h /\ r.at \in k..(Len(s) + 1)
             \/ h \in (k + 1)..(Len(s) + 1) /\ r.at \in h..(Len(s) + 1)
      BY <1>8
    <3> HIDE DEF b, r, u, k, h
    <3> QED BY <1>0, <1>1, <3>1 DEF Positions
  <2>1. Username(t) = Username(s)
    BY <1>5, <2>0
  <2>2. /\ Alike(s, t, 0, u, k) /\ u \in Positions(t) /\ u \in Positions(s)
        /\ Alike(s, t, 0, k, h) /\ k \in Positions(t)
        /\ Alike(s, t, 0, h, r.at) /\ h \in Positions(t)
    <3> HIDE DEF r, u, k, h
    <3> QED BY <1>3, <2>0
  <2>3. Separator(t) = Separator(s)
    <3>1. Separator(s) = Char(s, u, "@") /\ Char(s, u, "@").at = k
      BY DEF Separator
    <3>2. Char(t, u, "@") = Char(s, u, "@")
      <4> HIDE DEF u, k
      <4> QED BY <2>2, <3>1, Stays
    <3> QED
      BY <2>1, <3>1, <3>2 DEF Separator
  <2>4. HostOf(t) = HostOf(s)
    <3>1. HostOf(s) = Domain(s, k) /\ Domain(s, k).at = h /\ HostOf(t) = Domain(t, k)
      BY <2>3 DEF HostOf
    <3>2. Domain(t, k) = Domain(s, k)
      <4> HIDE DEF h, k
      <4> QED BY <2>0, <2>2, <3>1, Stays
    <3> QED
      BY <3>1, <3>2
  <2>5. CASE ~HostOf(s).ok
    BY <1>1, <1>4, <1>8, <2>1, <2>3, <2>4, <2>5, AddressIs
  <2>6. CASE HostOf(s).ok
    <3>1. r = Chars(s, h, Blanks) /\ LightningAddress(t) = Chars(t, h, Blanks)
      BY <1>1, <1>4, <1>8, <2>1, <2>3, <2>4, <2>6, AddressIs
    <3>2. Chars(t, h, Blanks) = Chars(s, h, Blanks)
      <4> HIDE DEF h, r
      <4> QED BY <2>0, <2>2, <3>1, Stays
    <3> QED
      BY <3>1, <3>2
  <2> QED
    BY <2>5, <2>6
<1> QED
  BY <1>6, <1>7, <1>8, AddressAt

\* An address is read, or fails, within the text.
LEMMA AddressReads ==
  ASSUME NEW s \in Texts
  PROVE  Outcome(LightningAddress(s), 1, s)
<1> DEFINE r == LightningAddress(s)
           b == Chars(s, 1, Blanks).at
<1>0. Len(s) \in Nat
  BY DEF Texts
<1>1. b \in 1..(Len(s) + 1)
  BY AddressAt DEF Positions
<1>2. CASE r = Fails(b)
  BY <1>1, <1>2, OutcomesAre
<1>3. CASE /\ Username(s).at \in (b + 1)..(Len(s) + 1) /\ r = Fails(Username(s).at)
  <2>1. Username(s).at \in 1..(Len(s) + 1)
    <3> HIDE DEF b
    <3> QED BY <1>0, <1>1, <1>3
  <2> QED
    BY <1>3, <2>1, OutcomesAre
<1>4. CASE /\ Username(s).at \in (b + 1)..(Len(s) + 1)
           /\ Separator(s).at \in Positions(s)
           /\ r.at \in Separator(s).at..(Len(s) + 1) /\ r = Fails(r.at)
  <2>1. r.at \in 1..(Len(s) + 1)
    <3> HIDE DEF b, r
    <3> QED BY <1>0, <1>4 DEF Positions
  <2> QED
    BY <1>4, <2>1, OutcomesAre
<1>5. CASE /\ Separator(s).at \in Positions(s)
           /\ HostOf(s).at \in (Separator(s).at + 1)..(Len(s) + 1)
           /\ r.at \in HostOf(s).at..(Len(s) + 1) /\ r = Reads(r.at)
  <2>1. r.at \in 1..(Len(s) + 1)
    <3> HIDE DEF b, r
    <3> QED BY <1>0, <1>5 DEF Positions
  <2> QED
    BY <1>5, <2>1, OutcomesAre
<1> QED
  BY <1>2, <1>3, <1>4, <1>5, AddressAt

\* A number is a plus and what digits and symbols follow it, blanks among them.
LEMMA NumberAt ==
  ASSUME NEW s \in Texts
  PROVE  LET b == Chars(s, 1, Blanks).at
         IN  /\ b \in Positions(s)
             /\ \A j \in 1..(b - 1) : Is(s, j, Blanks)
             /\ ~Is(s, b, Blanks)
             /\ \/ ~Is(s, b, {"+"}) /\ PhoneNumber(s) = Fails(b)
                \/ /\ Is(s, b, {"+"}) /\ b + 1 \in Positions(s)
                   /\ RunEnd(s, b + 1, DigitsAndSymbols) \in (b + 1)..(Len(s) + 1)
                   /\ PhoneNumber(s) = Reads(RunEnd(s, b + 1, DigitsAndSymbols))
<1> DEFINE b == Chars(s, 1, Blanks).at
<1>0. Len(s) \in Nat /\ 1 \in Positions(s)
  BY DEF Texts, Positions
<1>1. /\ Chars(s, 1, Blanks).ok /\ b \in Positions(s)
      /\ \A j \in 1..(b - 1) : Is(s, j, Blanks)
      /\ ~Is(s, b, Blanks)
  BY <1>0, CharsAt DEF Positions
<1>2. CASE ~Is(s, b, {"+"})
  <2>1. Char(s, b, "+") = Fails(b)
    BY <1>2 DEF Char
  <2> QED
    BY <1>1, <1>2, <2>1, Results DEF PhoneNumber, Then
<1>3. CASE Is(s, b, {"+"})
  <2> DEFINE k == b + 1  e == RunEnd(s, k, DigitsAndSymbols)
  <2>1. Char(s, b, "+") = Reads(k)
    BY <1>3 DEF Char
  <2>2. k \in Positions(s)
    <3>1. b \in 1..Len(s)
      BY <1>3 DEF Is, Texts
    <3> HIDE DEF b
    <3> QED BY <1>0, <3>1 DEF Positions
  <2>3. e \in k..(Len(s) + 1) /\ ~Is(s, e, DigitsAndSymbols)
    <3> HIDE DEF k
    <3> QED BY <2>2, RunEnds
  <2>4. RunEnd(s, e, Blanks) = e
    <3> HIDE DEF k
    <3>1. e \in Positions(s) /\ e \in e..(Len(s) + 1) /\ (\A j \in e..(e - 1) : FALSE)
      <4> HIDE DEF e
      <4> QED BY <1>0, <2>2, <2>3 DEF Positions
    <3>2. ~Is(s, e, Blanks)
      BY <2>3 DEF Is, DigitsAndSymbols
    <3> HIDE DEF e
    <3> QED BY <3>1, <3>2, RunEndIs
  <2>5. PhoneNumber(s) = Reads(e)
    <3>1. Chars(s, k, DigitsAndSymbols) = Reads(e) /\ Chars(s, e, Blanks) = Reads(e)
      BY <2>4 DEF Chars
    <3> HIDE DEF k, e
    <3> QED
      BY <1>1, <2>1, <3>1, Results DEF PhoneNumber, Then, b
  <2> QED
    BY <1>1, <1>3, <2>2, <2>3, <2>5
<1> QED
  BY <1>2, <1>3

\* A number is read, or fails, within the text.
LEMMA NumberReads ==
  ASSUME NEW s \in Texts
  PROVE  Outcome(PhoneNumber(s), 1, s)
<1> DEFINE b == Chars(s, 1, Blanks).at  e == RunEnd(s, b + 1, DigitsAndSymbols)
<1>0. Len(s) \in Nat
  BY DEF Texts
<1>1. b \in 1..(Len(s) + 1)
  BY NumberAt DEF Positions
<1>2. CASE PhoneNumber(s) = Fails(b)
  BY <1>1, <1>2, OutcomesAre
<1>3. CASE e \in (b + 1)..(Len(s) + 1) /\ PhoneNumber(s) = Reads(e)
  <2>1. e \in 1..(Len(s) + 1)
    <3> HIDE DEF b, e
    <3> QED BY <1>0, <1>1, <1>3
  <2> HIDE DEF e
  <2> QED
    BY <1>3, <2>1, OutcomesAre
<1> QED
  BY <1>2, <1>3, NumberAt

\* So does a number.
LEMMA NumberStays ==
  ASSUME NEW s \in Texts, NEW t \in Texts, Alike(s, t, 0, 1, PhoneNumber(s).at)
  PROVE  PhoneNumber(t) = PhoneNumber(s)
<1> DEFINE r == PhoneNumber(s)
           b == Chars(s, 1, Blanks).at
           k == b + 1
           e == RunEnd(s, k, DigitsAndSymbols)
<1>0. /\ Len(s) \in Nat /\ 1 \in Positions(s) /\ 1 \in Positions(t) /\ Len(t) \in Nat
      /\ 0 \in Int /\ 1 + 0 \in Positions(t)
  BY DEF Texts, Positions
<1>1. b \in Positions(s) /\ b \in Nat
  BY NumberAt DEF Positions
<1>2. b \in 1..r.at /\ r.at \in 1..(Len(s) + 1) /\ r.at \in Int
  <2>1. \/ r.at = b
        \/ k \in Positions(s) /\ e \in k..(Len(s) + 1) /\ r.at = e
    BY NumberAt, Results
  <2> HIDE DEF b, e, r
  <2> QED
    BY <1>0, <1>1, <2>1 DEF Positions
<1>3. Alike(s, t, 0, 1, b)
  <2>1. 1 \in 1..r.at
    <3> HIDE DEF b, r
    <3> QED BY <1>2
  <2> HIDE DEF b
  <2> QED
    BY <1>0, <1>2, <2>1, AlikeWithin
<1>4. Chars(t, 1, Blanks) = Chars(s, 1, Blanks)
  BY <1>0, <1>3, Stays
<1>5. CASE ~Is(s, b, {"+"}) /\ r = Fails(b)
  <2>1. ~Is(t, b, {"+"})
    <3>1. b + 0 = b /\ 1 \in Int /\ b \in Int
      <4> HIDE DEF b
      <4> QED BY <1>1
    <3> HIDE DEF b
    <3> QED BY <1>0, <1>3, <1>5, <3>1, AlikeIs
  <2> QED
    BY <1>4, <1>5, <2>1, NumberAt
<1>6. CASE Is(s, b, {"+"}) /\ k \in Positions(s) /\ e \in k..(Len(s) + 1) /\ r = Reads(e)
  <2>0. r.at = e /\ e \in Positions(s) /\ k \in 1..e /\ e \in k..e /\ b \in 1..(e - 1)
    <3>1. r.at = e
      BY <1>6, Results
    <3> HIDE DEF e, b, r
    <3> QED BY <1>0, <1>1, <1>6, <3>1 DEF Positions
  <2>1. Alike(s, t, 0, k, e) /\ Alike(s, t, 0, 1, e)
    <3>1. e \in Int
      <4> HIDE DEF e
      <4> QED BY <1>0, <2>0 DEF Positions
    <3> HIDE DEF e, k
    <3> QED BY <1>0, <2>0, <3>1, AlikeWithin
  <2>2. Is(t, b, {"+"})
    <3>1. b + 0 = b /\ 1 \in Int /\ e \in Int
      <4> HIDE DEF b, e
      <4> QED BY <1>0, <1>1, <2>0 DEF Positions
    <3> HIDE DEF b, e
    <3> QED BY <1>0, <1>6, <2>0, <2>1, <3>1, AlikeIs
  <2>3. k \in Positions(t)
    BY <1>4, <2>2, NumberAt
  <2>4. Chars(t, k, DigitsAndSymbols) = Chars(s, k, DigitsAndSymbols)
    <3>1. Chars(s, k, DigitsAndSymbols).at = e
      BY Results DEF Chars
    <3> HIDE DEF k, e
    <3> QED BY <1>6, <2>1, <2>3, <3>1, Stays
  <2>5. RunEnd(t, k, DigitsAndSymbols) = e
    BY <2>4, Results DEF Chars
  <2> QED
    BY <1>4, <1>6, <2>2, <2>5, NumberAt
<1> QED
  BY <1>5, <1>6, NumberAt

-----------------------------------------------------------------------------
(* Digits                                                                    *)

\* The recursive function of DigitsAmong.
DigitStep(f, s, m) ==
  IF m = 0 THEN <<>>
  ELSE IF s[m] \in Digits THEN Append(f[m - 1], s[m]) ELSE f[m - 1]

DigitsUpTo(f, s, n) == \A m \in 0..n : f[m] = DigitStep(f, s, m)

\* There is one such function, and it depends on no more than the characters it counts.
LEMMA DigitsUnique ==
  ASSUME NEW s, NEW n \in Nat, NEW f, DigitsUpTo(f, s, n),
         NEW g, NEW t, DigitsUpTo(g, t, n),
         \A m \in 1..n : s[m] = t[m]
  PROVE  \A m \in 0..n : f[m] = g[m]
<1> DEFINE Bad == {m \in 0..n : f[m] # g[m]}
<1>1. Bad = {}
  <2> SUFFICES ASSUME Bad # {} PROVE FALSE
    OBVIOUS
  <2>1. PICK m \in Bad : \A x \in Bad : m <= x
    <3>1. Bad \subseteq Nat
      OBVIOUS
    <3> HIDE DEF Bad
    <3> QED BY <3>1, Least
  <2>2. m \in 0..n /\ f[m] # g[m]
    OBVIOUS
  <2>3. m # 0
    BY <2>2 DEF DigitStep, DigitsUpTo
  <2>4. m - 1 \in 0..n /\ ~(m <= m - 1) /\ m \in 1..n
    BY <2>2, <2>3
  <2>5. m - 1 \notin Bad
    <3> HIDE DEF Bad
    <3> QED BY <2>1, <2>4
  <2>6. f[m - 1] = g[m - 1]
    BY <2>4, <2>5
  <2> QED
    BY <2>2, <2>3, <2>4, <2>6 DEF DigitStep, DigitsUpTo
<1> QED
  BY <1>1

\* The digits among the first n characters, from those among the first n - 1.
LEMMA DigitsAre ==
  ASSUME NEW s \in Texts
  PROVE  /\ DigitsAmong(s, 0) = <<>>
         /\ \A n \in 1..Len(s) :
              DigitsAmong(s, n) = IF s[n] \in Digits
                                  THEN Append(DigitsAmong(s, n - 1), s[n])
                                  ELSE DigitsAmong(s, n - 1)
<1> DEFINE N == Len(s)
           All(f, n) == f = [m \in 0..n |-> DigitStep(f, s, m)]
           Bad == {n \in 0..N : ~\E f : All(f, n)}
<1>0. N \in Nat
  BY DEF Texts
<1>1. Bad = {}
  <2> SUFFICES ASSUME Bad # {} PROVE FALSE
    OBVIOUS
  <2>1. PICK n \in Bad : \A m \in Bad : n <= m
    <3>1. Bad \subseteq Nat
      OBVIOUS
    <3> HIDE DEF Bad
    <3> QED BY <3>1, Least
  <2>2. n \in 0..N /\ ~\E f : All(f, n)
    OBVIOUS
  <2>3. n # 0
    <3>1. All([m \in 0..0 |-> <<>>], 0)
      BY DEF DigitStep
    <3> QED
      BY <2>2, <3>1
  <2>4. n - 1 \in 0..N /\ ~(n <= n - 1) /\ n \in Nat
    <3> HIDE DEF N
    <3> QED BY <1>0, <2>2, <2>3
  <2>5. n - 1 \notin Bad
    <3> HIDE DEF Bad
    <3> QED BY <2>1, <2>4
  <2>6. PICK f : All(f, n - 1)
    BY <2>4, <2>5
  <2> DEFINE g == [m \in 0..n |-> DigitStep(f, s, m)]
  <2>7. \A m \in 0..(n - 1) : g[m] = f[m]
    BY <2>4, <2>6
  <2>8. \A m \in 0..n : DigitStep(g, s, m) = DigitStep(f, s, m)
    <3> TAKE m \in 0..n
    <3>1. CASE m = 0
      BY <3>1 DEF DigitStep
    <3>2. CASE m # 0
      <4>1. m - 1 \in 0..(n - 1)
        BY <2>4, <3>2
      <4>2. g[m - 1] = f[m - 1]
        BY <2>7, <4>1
      <4> HIDE DEF g
      <4> QED BY <3>2, <4>2 DEF DigitStep
    <3> QED
      BY <3>1, <3>2
  <2>9. All(g, n)
    BY <2>8
  <2> QED
    BY <2>2, <2>9
<1>2. \A n \in 0..N : \E f : DigitsAmong(s, n) = f[n] /\ \A m \in 0..n : f[m] = DigitStep(f, s, m)
  <2> TAKE n \in 0..N
  <2> DEFINE among == CHOOSE f : All(f, n)
  <2>1. All(among, n)
    <3>1. \E f : All(f, n)
      BY <1>1
    <3> QED BY <3>1
  <2>2. DigitsAmong(s, n) = among[n]
    BY DEF DigitsAmong, DigitStep
  <2>3. \A m \in 0..n : among[m] = DigitStep(among, s, m)
    <3>1. among = [m \in 0..n |-> DigitStep(among, s, m)]
      BY <2>1
    <3> HIDE DEF among
    <3> QED BY <3>1
  <2> HIDE DEF among
  <2> QED
    BY <2>2, <2>3
<1>3. DigitsAmong(s, 0) = <<>>
  <2>1. 0 \in 0..N /\ 0 \in 0..0
    <3> HIDE DEF N
    <3> QED BY <1>0
  <2>2. PICK f : DigitsAmong(s, 0) = f[0] /\ \A m \in 0..0 : f[m] = DigitStep(f, s, m)
    <3> HIDE DEF N
    <3> QED BY <1>2, <2>1
  <2> QED
    BY <2>1, <2>2 DEF DigitStep
<1>4. ASSUME NEW n \in 1..N
      PROVE  DigitsAmong(s, n) = IF s[n] \in Digits
                                 THEN Append(DigitsAmong(s, n - 1), s[n])
                                 ELSE DigitsAmong(s, n - 1)
  <2>1. n \in 0..N /\ n - 1 \in 0..N /\ n # 0 /\ n - 1 \in Nat /\ n \in 0..n /\ n - 1 \in 0..(n - 1)
        /\ \A m \in 0..(n - 1) : m \in 0..n
    <3> HIDE DEF N
    <3> QED BY <1>0
  <2>2. PICK f : DigitsAmong(s, n) = f[n] /\ \A m \in 0..n : f[m] = DigitStep(f, s, m)
    <3> HIDE DEF N
    <3> QED BY <1>2, <2>1
  <2> DEFINE p == n - 1
  <2>3. p \in 0..N /\ p \in Nat /\ p \in 0..p
    BY <2>1
  <2>4. PICK g : DigitsAmong(s, p) = g[p] /\ \A m \in 0..p : g[m] = DigitStep(g, s, m)
    <3> HIDE DEF N, p
    <3> QED BY <1>2, <2>3
  <2>5. \A m \in 0..p : f[m] = DigitStep(f, s, m)
    BY <2>1, <2>2
  <2>6. f[p] = g[p]
    <3>1. /\ \A m \in 1..p : s[m] = s[m]
          /\ DigitsUpTo(f, s, p) /\ DigitsUpTo(g, s, p)
      BY <2>4, <2>5 DEF DigitsUpTo
    <3> HIDE DEF p
    <3>2. \A m \in 0..p : f[m] = g[m]
      BY <2>3, <3>1, DigitsUnique
    <3> QED BY <2>3, <3>2
  <2>7. f[n] = DigitStep(f, s, n)
    BY <2>1, <2>2
  <2> QED
    BY <2>1, <2>2, <2>4, <2>6, <2>7 DEF DigitStep
<1> QED
  BY <1>3, <1>4

\* They are digits.
LEMMA DigitsType ==
  ASSUME NEW s \in Texts
  PROVE  \A n \in 0..Len(s) : DigitsAmong(s, n) \in Seq(Digits)
<1> DEFINE Bad == {n \in 0..Len(s) : DigitsAmong(s, n) \notin Seq(Digits)}
<1>0. Len(s) \in Nat
  BY DEF Texts
<1>1. Bad = {}
  <2> SUFFICES ASSUME Bad # {} PROVE FALSE
    OBVIOUS
  <2>1. PICK n \in Bad : \A m \in Bad : n <= m
    <3>1. Bad \subseteq Nat
      OBVIOUS
    <3> HIDE DEF Bad
    <3> QED BY <3>1, Least
  <2>2. n \in 0..Len(s) /\ DigitsAmong(s, n) \notin Seq(Digits)
    OBVIOUS
  <2>3. n # 0
    <3>1. DigitsAmong(s, 0) = <<>> /\ <<>> \in Seq(Digits)
      BY DigitsAre
    <3> QED
      BY <2>2, <3>1
  <2>4. n - 1 \in 0..Len(s) /\ ~(n <= n - 1) /\ n \in 1..Len(s)
    BY <1>0, <2>2, <2>3
  <2>5. n - 1 \notin Bad
    <3> HIDE DEF Bad
    <3> QED BY <2>1, <2>4
  <2>6. DigitsAmong(s, n - 1) \in Seq(Digits)
    BY <2>4, <2>5
  <2>7. DigitsAmong(s, n) = IF s[n] \in Digits
                            THEN Append(DigitsAmong(s, n - 1), s[n])
                            ELSE DigitsAmong(s, n - 1)
    BY <2>4, DigitsAre
  <2> QED
    BY <2>2, <2>6, <2>7
<1> QED
  BY <1>1

\* Texts that begin alike begin with the same digits.
LEMMA DigitsAgree ==
  ASSUME NEW s \in Texts, NEW t \in Texts, NEW n \in 0..Len(s), n <= Len(t),
         \A j \in 1..n : s[j] = t[j]
  PROVE  \A m \in 0..n : DigitsAmong(t, m) = DigitsAmong(s, m)
<1> DEFINE Bad == {m \in 0..n : DigitsAmong(t, m) # DigitsAmong(s, m)}
<1>0. Len(s) \in Nat /\ Len(t) \in Nat /\ n \in Nat
  BY DEF Texts
<1>1. Bad = {}
  <2> SUFFICES ASSUME Bad # {} PROVE FALSE
    OBVIOUS
  <2>1. PICK m \in Bad : \A x \in Bad : m <= x
    <3>1. Bad \subseteq Nat
      OBVIOUS
    <3> HIDE DEF Bad
    <3> QED BY <3>1, Least
  <2>2. m \in 0..n /\ DigitsAmong(t, m) # DigitsAmong(s, m)
    OBVIOUS
  <2>3. m # 0
    BY <2>2, DigitsAre
  <2>4. m - 1 \in 0..n /\ ~(m <= m - 1) /\ m \in 1..Len(s) /\ m \in 1..Len(t) /\ m \in 1..n
    BY <1>0, <2>2, <2>3
  <2>5. m - 1 \notin Bad
    <3> HIDE DEF Bad
    <3> QED BY <2>1, <2>4
  <2>6. DigitsAmong(t, m - 1) = DigitsAmong(s, m - 1) /\ s[m] = t[m]
    BY <2>4, <2>5
  <2>7. /\ DigitsAmong(s, m) = IF s[m] \in Digits
                               THEN Append(DigitsAmong(s, m - 1), s[m])
                               ELSE DigitsAmong(s, m - 1)
        /\ DigitsAmong(t, m) = IF t[m] \in Digits
                               THEN Append(DigitsAmong(t, m - 1), t[m])
                               ELSE DigitsAmong(t, m - 1)
    BY <2>4, DigitsAre
  <2> QED
    BY <2>2, <2>6, <2>7
<1> QED
  BY <1>1

\* What a prefix is, element by element.
LEMMA PrefixIs ==
  ASSUME NEW S, NEW a \in Seq(S), NEW b \in Seq(S)
  PROVE  IsPrefix(a, b) <=> Len(a) <= Len(b) /\ \A j \in 1..Len(a) : a[j] = b[j]
<1>1. SubSeq(a, 1, Len(a)) = a
  OBVIOUS
<1>2. ASSUME Len(a) <= Len(b)
      PROVE  /\ SubSeq(b, 1, Len(a)) \in Seq(S) /\ Len(SubSeq(b, 1, Len(a))) = Len(a)
             /\ \A j \in 1..Len(a) : SubSeq(b, 1, Len(a))[j] = b[j]
  BY <1>2
<1> DEFINE p == SubSeq(b, 1, Len(a))
<1>3. IsPrefix(a, b) <=> Len(a) <= Len(b) /\ a = p
  BY <1>1 DEF IsPrefix
<1> HIDE DEF p
<1>4. ASSUME Len(a) <= Len(b), \A j \in 1..Len(a) : a[j] = b[j]
      PROVE  a = p
  <2>1. p \in Seq(S) /\ Len(p) = Len(a) /\ \A j \in 1..Len(a) : p[j] = a[j]
    BY <1>2, <1>4 DEF p
  <2> QED
    BY <2>1
<1>5. ASSUME Len(a) <= Len(b), a = p
      PROVE  \A j \in 1..Len(a) : a[j] = b[j]
  BY <1>2, <1>5 DEF p
<1> QED
  BY <1>3, <1>4, <1>5

\* The digits among more characters begin with those among fewer.
LEMMA DigitsGrow ==
  ASSUME NEW s \in Texts, NEW m \in 0..Len(s)
  PROVE  \A n \in m..Len(s) : IsPrefix(DigitsAmong(s, m), DigitsAmong(s, n))
<1> DEFINE Bad == {n \in m..Len(s) : ~IsPrefix(DigitsAmong(s, m), DigitsAmong(s, n))}
<1>0. Len(s) \in Nat /\ m \in Nat
  BY DEF Texts
<1>1. Bad = {}
  <2> SUFFICES ASSUME Bad # {} PROVE FALSE
    OBVIOUS
  <2>1. PICK n \in Bad : \A x \in Bad : n <= x
    <3>1. Bad \subseteq Nat
      BY <1>0
    <3> HIDE DEF Bad
    <3> QED BY <3>1, Least
  <2>2. n \in m..Len(s) /\ ~IsPrefix(DigitsAmong(s, m), DigitsAmong(s, n))
    OBVIOUS
  <2>3. n # m
    <3>1. DigitsAmong(s, m) \in Seq(Digits)
      BY DigitsType
    <3> QED
      BY <2>2, <3>1, PrefixIs
  <2>4. n - 1 \in m..Len(s) /\ ~(n <= n - 1) /\ n \in 1..Len(s) /\ n - 1 \in 0..Len(s) /\ n \in 0..Len(s)
    BY <1>0, <2>2, <2>3
  <2>5. n - 1 \notin Bad
    <3> HIDE DEF Bad
    <3> QED BY <2>1, <2>4
  <2> DEFINE a == DigitsAmong(s, m)  b == DigitsAmong(s, n - 1)  c == DigitsAmong(s, n)
  <2>6. IsPrefix(a, b)
    BY <2>4, <2>5
  <2>7. c = IF s[n] \in Digits THEN Append(b, s[n]) ELSE b
    BY <2>4, DigitsAre
  <2>8. a \in Seq(Digits) /\ b \in Seq(Digits) /\ c \in Seq(Digits)
    <3> DEFINE p == n - 1
    <3>1. p \in 0..Len(s)
      BY <2>4
    <3>2. DigitsAmong(s, p) \in Seq(Digits)
      <4> HIDE DEF p
      <4> QED BY <3>1, DigitsType
    <3> QED
      BY <2>4, <3>2, DigitsType
  <2>9. ~IsPrefix(a, c)
    BY <2>2
  <2> HIDE DEF a, b, c
  <2>10. Len(a) <= Len(b) /\ \A j \in 1..Len(a) : a[j] = b[j]
    BY <2>6, <2>8, PrefixIs
  <2>11. CASE c = b
    BY <2>6, <2>9, <2>11
  <2>12. CASE c = Append(b, s[n]) /\ s[n] \in Digits
    <3>1. Len(c) = Len(b) + 1 /\ \A j \in 1..Len(b) : c[j] = b[j]
      BY <2>8, <2>12
    <3>2. Len(a) <= Len(c) /\ \A j \in 1..Len(a) : a[j] = c[j]
      BY <2>8, <2>10, <3>1
    <3> QED
      BY <2>8, <2>9, <3>2, PrefixIs
  <2> QED
    BY <2>7, <2>11, <2>12
<1> QED
  BY <1>1

\* What is said of an outcome.
LEMMA VerdictIs ==
  ASSUME NEW s \in Texts, NEW r, Outcome(r, 1, s)
  PROVE  /\ r.ok /\ r.at > Len(s) => Verdict(s, r) = [is |-> "valid", at |-> 0]
         /\ r.ok /\ r.at <= Len(s) => Verdict(s, r) = [is |-> "excess", at |-> r.at - 1]
         /\ ~r.ok /\ r.at > Len(s) => Verdict(s, r) = Incomplete
         /\ ~r.ok /\ r.at <= Len(s) => Verdict(s, r) = [is |-> "unexpected", at |-> r.at - 1]
         /\ r.at > Len(s) <=> ~(r.at <= Len(s))
         /\ r.at \in 1..(Len(s) + 1)
<1>1. r.at \in 1..(Len(s) + 1) /\ (r.at > Len(s) <=> ~(r.at <= Len(s)))
  BY DEF Outcome, Texts
<1> QED
  BY <1>1 DEF Verdict, Incomplete

\* What may be said of the beginning of a number.
LEMMA PrefixVerdictIs ==
  ASSUME NEW s \in Texts
  PROVE  LET r == PhoneNumber(s)
             digits == DigitsAmong(s, r.at - 1)
         IN  /\ r.at \in 1..(Len(s) + 1)
             /\ \/ r.at <= Len(s) /\ PrefixVerdict(s) = [is |-> "invalid", at |-> r.at - 1]
                \/ ~r.ok /\ r.at = Len(s) + 1 /\ PrefixVerdict(s) = Incomplete
                \/ /\ r.ok /\ r.at = Len(s) + 1
                   /\ \/ digits = <<>> /\ PrefixVerdict(s) = Incomplete
                      \/ /\ digits # <<>> /\ (\E c \in AllowedCodes : IsPrefix(c, digits))
                         /\ PrefixVerdict(s) = [is |-> "valid", at |-> 0]
                      \/ /\ digits # <<>> /\ (\A c \in AllowedCodes : ~IsPrefix(c, digits))
                         /\ (\E c \in AllowedCodes : IsPrefix(digits, c))
                         /\ PrefixVerdict(s) = Incomplete
                      \/ /\ digits # <<>> /\ (\A c \in AllowedCodes : ~IsPrefix(c, digits))
                         /\ (\A c \in AllowedCodes : ~IsPrefix(digits, c))
                         /\ PrefixVerdict(s) = [is |-> "unsupported", at |-> 0]
<1> DEFINE r == PhoneNumber(s)
           digits == DigitsAmong(s, r.at - 1)
           v == ParsePhoneNumber(s)
           some == \E c \in AllowedCodes : IsPrefix(c, digits)
           begun == \E c \in AllowedCodes : IsPrefix(digits, c)
<1>0. Len(s) \in Nat
  BY DEF Texts
<1>1. Outcome(r, 1, s)
  BY NumberReads
<1>2. r.at \in 1..(Len(s) + 1)
  BY <1>1 DEF Outcome
<1>3. v = IF Verdict(s, r).is = "valid" /\ digits = <<>> THEN Incomplete ELSE Verdict(s, r)
  BY DEF ParsePhoneNumber, DigitsOf
<1>4. PrefixVerdict(s) =
        CASE v.is = "incomplete" -> v
          [] v.is \in {"excess", "unexpected"} -> [v EXCEPT !.is = "invalid"]
          [] v.is = "valid" ->
               CASE some -> v
                 [] ~some /\ begun -> Incomplete
                 [] OTHER -> [is |-> "unsupported", at |-> 0]
  <2>1. ~some <=> \A c \in AllowedCodes : ~IsPrefix(c, digits)
    OBVIOUS
  <2> QED
    BY <2>1 DEF PrefixVerdict, DigitsOf
<1>5. Incomplete.is = "incomplete"
  BY DEF Incomplete
<1> HIDE DEF r, digits, v, some, begun
<1>6. CASE r.at <= Len(s)
  <2>1. v = [is |-> "excess", at |-> r.at - 1] \/ v = [is |-> "unexpected", at |-> r.at - 1]
    BY <1>1, <1>3, <1>6, VerdictIs
  <2>2. PrefixVerdict(s) = [is |-> "invalid", at |-> r.at - 1]
    BY <1>4, <2>1
  <2> QED
    BY <1>2, <1>6, <2>2 DEF r
<1>7. CASE ~r.ok /\ r.at > Len(s)
  <2>1. v = Incomplete
    BY <1>1, <1>3, <1>5, <1>7, VerdictIs
  <2>2. PrefixVerdict(s) = Incomplete /\ r.at = Len(s) + 1
    BY <1>0, <1>2, <1>4, <1>5, <1>7, <2>1
  <2> QED
    BY <1>2, <1>7, <2>2 DEF r
<1>8. CASE r.ok /\ r.at > Len(s)
  <2>0. r.at = Len(s) + 1 /\ Verdict(s, r) = [is |-> "valid", at |-> 0]
    BY <1>0, <1>1, <1>2, <1>8, VerdictIs
  <2>1. CASE digits = <<>>
    <3>1. v = Incomplete
      BY <1>3, <1>5, <2>0, <2>1
    <3>2. PrefixVerdict(s) = Incomplete
      BY <1>4, <1>5, <3>1
    <3> QED
      BY <1>2, <1>8, <2>0, <2>1, <3>2 DEF r, digits
  <2>2. CASE digits # <<>>
    <3>1. v = [is |-> "valid", at |-> 0]
      BY <1>3, <2>0, <2>2
    <3>2. PrefixVerdict(s) = CASE some -> [is |-> "valid", at |-> 0]
                               [] ~some /\ begun -> Incomplete
                               [] OTHER -> [is |-> "unsupported", at |-> 0]
      BY <1>4, <3>1
    <3>3. \/ some /\ PrefixVerdict(s) = [is |-> "valid", at |-> 0]
          \/ ~some /\ begun /\ PrefixVerdict(s) = Incomplete
          \/ ~some /\ ~begun /\ PrefixVerdict(s) = [is |-> "unsupported", at |-> 0]
      BY <3>2
    <3> QED
      BY <1>2, <1>8, <2>0, <2>2, <3>3 DEF r, digits, some, begun
  <2> QED
    BY <2>1, <2>2
<1> QED
  BY <1>0, <1>2, <1>6, <1>7, <1>8

-----------------------------------------------------------------------------
(* Errors                                                                    *)

\* A character more.
LEMMA Appended ==
  ASSUME NEW s \in Texts, NEW c \in Characters
  PROVE  /\ Append(s, c) \in Texts /\ Len(Append(s, c)) = Len(s) + 1
         /\ \A j \in 1..Len(s) : Append(s, c)[j] = s[j]
         /\ Append(s, c)[Len(s) + 1] = c
BY DEF Texts

\* A text that begins like another agrees with it up to where both have a character.
LEMMA AlikeBefore ==
  ASSUME NEW s \in Texts, NEW t \in Texts, NEW e \in 1..(Len(s) + 1),
         \A j \in 1..(e - 1) : j <= Len(t) /\ t[j] = s[j],
         e <= Len(t) => e <= Len(s) /\ t[e] = s[e]
  PROVE  Alike(s, t, 0, 1, e)
BY DEF Alike, Texts

\* What is typed after an error of an address changes nothing.
LEMMA AddressErrorsStay ==
  ASSUME NEW s \in Texts, NEW c \in Characters,
         ParseLightningAddress(s).is \notin {"valid", "incomplete"}
  PROVE  ParseLightningAddress(Append(s, c)) = ParseLightningAddress(s)
<1> DEFINE r == LightningAddress(s)  t == Append(s, c)
<1>0. Len(s) \in Nat
  BY DEF Texts
<1>1. Outcome(r, 1, s) /\ t \in Texts
  BY AddressReads, Appended
<1>2. r.at \in 1..Len(s)
  <2>1. Verdict(s, r).is \notin {"valid", "incomplete"}
    BY DEF ParseLightningAddress
  <2> HIDE DEF r
  <2>2. r.at \in 1..(Len(s) + 1) /\ r.at <= Len(s)
    BY <1>1, <2>1, VerdictIs DEF Incomplete
  <2> QED
    BY <1>0, <2>2
<1>3. Alike(s, t, 0, 1, r.at)
  <2> HIDE DEF r
  <2>1. /\ r.at \in 1..(Len(s) + 1)
        /\ \A j \in 1..(r.at - 1) : j <= Len(t) /\ t[j] = s[j]
        /\ r.at <= Len(t) => r.at <= Len(s) /\ t[r.at] = s[r.at]
    BY <1>0, <1>2, Appended
  <2> HIDE DEF t
  <2> QED
    BY <1>1, <2>1, AlikeBefore
<1>4. LightningAddress(t) = r
  <2> HIDE DEF t
  <2> QED BY <1>1, <1>3, AddressStays
<1>5. Outcome(r, 1, t) /\ r.at <= Len(t)
  BY <1>0, <1>1, <1>2, Appended DEF Outcome
<1>6. Verdict(t, r) = Verdict(s, r)
  <2> HIDE DEF r, t
  <2> QED BY <1>1, <1>2, <1>5, VerdictIs
<1> QED
  BY <1>4, <1>6 DEF ParseLightningAddress

\* What is typed after an error of a number leaves it an error; at its place if it has one.
LEMMA NumberErrorsStay ==
  ASSUME NEW s \in Texts, NEW c \in Characters
  PROVE  /\ PrefixVerdict(s).is = "invalid" => PrefixVerdict(Append(s, c)) = PrefixVerdict(s)
         /\ PrefixVerdict(s).is = "unsupported"
              => PrefixVerdict(Append(s, c)).is \in {"unsupported", "invalid"}
<1> DEFINE r == PhoneNumber(s)  t == Append(s, c)  q == PhoneNumber(t)
<1>0. Len(s) \in Nat /\ t \in Texts
  BY Appended DEF Texts
<1>1. ASSUME PrefixVerdict(s).is = "invalid"
      PROVE  PrefixVerdict(t) = PrefixVerdict(s)
  <2>1. r.at \in 1..Len(s) /\ PrefixVerdict(s) = [is |-> "invalid", at |-> r.at - 1]
    <3>1. /\ r.at \in 1..(Len(s) + 1) /\ r.at <= Len(s)
          /\ PrefixVerdict(s) = [is |-> "invalid", at |-> r.at - 1]
      BY <1>1, PrefixVerdictIs DEF Incomplete
    <3> HIDE DEF r
    <3> QED BY <1>0, <3>1
  <2>2. Alike(s, t, 0, 1, r.at)
    <3> HIDE DEF r
    <3>1. /\ r.at \in 1..(Len(s) + 1)
          /\ \A j \in 1..(r.at - 1) : j <= Len(t) /\ t[j] = s[j]
          /\ r.at <= Len(t) => r.at <= Len(s) /\ t[r.at] = s[r.at]
      BY <1>0, <2>1, Appended
    <3> HIDE DEF t
    <3> QED
      BY <1>0, <3>1, AlikeBefore
  <2>3. q = r
    <3> HIDE DEF t
    <3> QED BY <1>0, <2>2, NumberStays DEF r, q
  <2>4. q.at <= Len(t) /\ q.at # Len(t) + 1
    <3> HIDE DEF r, q
    <3> QED BY <1>0, <2>1, <2>3, Appended
  <2>5. PrefixVerdict(t) = [is |-> "invalid", at |-> q.at - 1]
    <3> HIDE DEF t
    <3> QED BY <1>0, <2>4, PrefixVerdictIs DEF q
  <2> HIDE DEF q, r
  <2> QED
    BY <2>1, <2>3, <2>5
<1>2. ASSUME PrefixVerdict(s).is = "unsupported"
      PROVE  PrefixVerdict(t).is \in {"unsupported", "invalid"}
  <2> DEFINE b == Chars(s, 1, Blanks).at
             before == DigitsAmong(s, r.at - 1)
             digits == DigitsAmong(t, q.at - 1)
  <2>1. /\ r.ok /\ r.at = Len(s) + 1 /\ before # <<>>
        /\ \A a \in AllowedCodes : ~IsPrefix(a, before) /\ ~IsPrefix(before, a)
    BY <1>2, PrefixVerdictIs DEF Incomplete
  <2>2. Is(s, b, {"+"}) /\ b + 1 \in Positions(s) /\ b \in 1..Len(s) /\ r = Reads(RunEnd(s, b + 1, DigitsAndSymbols))
        /\ RunEnd(s, b + 1, DigitsAndSymbols) = Len(s) + 1
    <3>1. Is(s, b, {"+"}) => b \in 1..Len(s)
      BY DEF Is, Texts
    <3> QED
      BY <2>1, <3>1, NumberAt, Results
  <2>3. /\ \A j \in 1..(b - 1) : Is(s, j, Blanks)
        /\ \A j \in (b + 1)..Len(s) : Is(s, j, DigitsAndSymbols)
    <3> DEFINE k == b + 1
    <3>1. \A j \in k..(RunEnd(s, k, DigitsAndSymbols) - 1) : Is(s, j, DigitsAndSymbols)
      <4>1. k \in Positions(s)
        BY <2>2
      <4> HIDE DEF k
      <4> QED BY <4>1, RunEnds
    <3>2. Len(s) + 1 - 1 = Len(s)
      BY <1>0
    <3> QED
      BY <2>2, <3>1, <3>2, NumberAt
  <2>4. /\ \A j \in 1..Len(s) : \A C : Is(t, j, C) <=> Is(s, j, C)
        /\ Len(t) = Len(s) + 1
    BY <1>0, Appended DEF Is, Texts
  <2>5. Chars(t, 1, Blanks).at = b
    <3>1. b \in 1..(Len(t) + 1) /\ 1 \in Positions(t) /\ \A j \in 1..(b - 1) : Is(t, j, Blanks)
      <4> HIDE DEF b, t
      <4> QED BY <1>0, <2>2, <2>3, <2>4 DEF Positions
    <3>2. ~Is(t, b, Blanks)
      <4>1. ~Is(s, b, Blanks)
        BY NumberAt
      <4> HIDE DEF b, t
      <4> QED BY <2>2, <2>4, <4>1
    <3>3. RunEnd(t, 1, Blanks) = b
      <4> HIDE DEF b, t
      <4> QED BY <1>0, <3>1, <3>2, RunEndIs
    <3> QED
      BY <3>3, Results DEF Chars
  <2>6. Is(t, b, {"+"})
    <3> HIDE DEF b, t
    <3> QED BY <2>2, <2>4
  <2>7. /\ b + 1 \in Positions(t) /\ q = Reads(RunEnd(t, b + 1, DigitsAndSymbols))
    <3> HIDE DEF t, b
    <3> QED BY <1>0, <2>5, <2>6, NumberAt DEF q
  <2>8. RunEnd(t, b + 1, DigitsAndSymbols) \in (Len(s) + 1)..(Len(s) + 2)
    <3> DEFINE k == b + 1  e == RunEnd(t, k, DigitsAndSymbols)
    <3>1. e \in k..(Len(t) + 1) /\ ~Is(t, e, DigitsAndSymbols)
      <4>1. k \in Positions(t)
        BY <2>7
      <4> HIDE DEF k, t
      <4> QED BY <1>0, <4>1, RunEnds
    <3>2. \A j \in k..Len(s) : Is(t, j, DigitsAndSymbols)
      <4>1. k \in 1..(Len(s) + 1) /\ \A j \in k..Len(s) : j \in 1..Len(s)
        <5> HIDE DEF b
        <5> QED BY <1>0, <2>2 DEF Positions
      <4> HIDE DEF t
      <4> QED BY <2>3, <2>4, <4>1
    <3>3. k \in Nat
      <4> HIDE DEF b
      <4> QED BY <2>2
    <3> HIDE DEF e, k
    <3>4. e \in (Len(s) + 1)..(Len(s) + 2)
      <4> HIDE DEF t
      <4> QED BY <1>0, <2>4, <3>1, <3>2, <3>3
    <3> QED
      BY <3>4 DEF e, k
  <2>9. q.ok /\ q.at \in (Len(s) + 1)..(Len(s) + 2)
    <3> HIDE DEF b, t, q
    <3> QED BY <2>7, <2>8, Results
  <2>10. IsPrefix(before, digits) /\ before \in Seq(Digits) /\ digits \in Seq(Digits)
    <3>1. r.at - 1 = Len(s) /\ q.at - 1 \in Len(s)..Len(t) /\ Len(s) \in 0..Len(t)
          /\ Len(s) \in 0..Len(s) /\ q.at - 1 \in 0..Len(t) /\ Len(s) <= Len(t)
      <4> HIDE DEF r, q, t
      <4> QED BY <1>0, <2>1, <2>4, <2>9
    <3>2. before = DigitsAmong(t, Len(s))
      <4>1. \A j \in 1..Len(s) : s[j] = t[j]
        BY Appended
      <4>2. DigitsAmong(t, Len(s)) = DigitsAmong(s, Len(s))
        <5> HIDE DEF t
        <5> QED BY <1>0, <3>1, <4>1, DigitsAgree
      <4> QED
        BY <3>1, <4>2
    <3>3. DigitsAmong(t, Len(s)) \in Seq(Digits) /\ digits \in Seq(Digits)
      <4> DEFINE p == q.at - 1
      <4>1. p \in 0..Len(t)
        BY <3>1
      <4>2. DigitsAmong(t, p) \in Seq(Digits) /\ DigitsAmong(t, Len(s)) \in Seq(Digits)
        <5> HIDE DEF p, t
        <5> QED BY <1>0, <3>1, <4>1, DigitsType
      <4> QED
        BY <4>2
    <3>4. IsPrefix(DigitsAmong(t, Len(s)), digits)
      <4> DEFINE p == q.at - 1
      <4>1. p \in Len(s)..Len(t)
        BY <3>1
      <4>2. IsPrefix(DigitsAmong(t, Len(s)), DigitsAmong(t, p))
        <5> HIDE DEF p, t
        <5> QED BY <1>0, <3>1, <4>1, DigitsGrow
      <4> QED
        BY <4>2
    <3> QED
      BY <3>2, <3>3, <3>4
  <2>11. digits # <<>> /\ \A a \in AllowedCodes : ~IsPrefix(a, digits) /\ ~IsPrefix(digits, a)
    <3> HIDE DEF before, digits
    <3>1. Len(before) <= Len(digits) /\ \A j \in 1..Len(before) : before[j] = digits[j]
      BY <2>10, PrefixIs
    <3>2. \A a \in AllowedCodes : a \in Seq(Digits)
      BY PhoneNumbersAssumption DEF AllowedCodes
    <3>3. digits # <<>>
      BY <2>1, <2>10, <3>1
    <3> SUFFICES ASSUME NEW a \in AllowedCodes
                 PROVE  ~IsPrefix(a, digits) /\ ~IsPrefix(digits, a)
      BY <3>3
    <3>4. a \in Seq(Digits)
      BY <3>2
    <3>5. ASSUME IsPrefix(a, digits)
          PROVE  FALSE
      <4>1. Len(a) <= Len(digits) /\ \A j \in 1..Len(a) : a[j] = digits[j]
        BY <2>10, <3>4, <3>5, PrefixIs
      <4>2. CASE Len(a) <= Len(before)
        <5>1. \A j \in 1..Len(a) : a[j] = before[j]
          BY <2>10, <3>1, <3>4, <4>1, <4>2
        <5> QED
          BY <2>1, <2>10, <3>4, <4>2, <5>1, PrefixIs
      <4>3. CASE Len(before) <= Len(a)
        <5>1. \A j \in 1..Len(before) : before[j] = a[j]
          BY <2>10, <3>1, <3>4, <4>1, <4>3
        <5> QED
          BY <2>1, <2>10, <3>4, <4>3, <5>1, PrefixIs
      <4> QED
        BY <2>10, <3>4, <4>2, <4>3
    <3>6. ASSUME IsPrefix(digits, a)
          PROVE  FALSE
      <4>1. Len(digits) <= Len(a) /\ \A j \in 1..Len(digits) : digits[j] = a[j]
        BY <2>10, <3>4, <3>6, PrefixIs
      <4>2. Len(before) <= Len(a) /\ \A j \in 1..Len(before) : before[j] = a[j]
        BY <2>10, <3>1, <3>4, <4>1
      <4> QED
        BY <2>1, <2>10, <3>4, <4>2, PrefixIs
    <3> QED
      BY <3>5, <3>6
  <2>12. \/ PrefixVerdict(t) = [is |-> "invalid", at |-> q.at - 1]
         \/ PrefixVerdict(t) = [is |-> "unsupported", at |-> 0]
    <3> HIDE DEF t, b
    <3> QED BY <1>0, <2>9, <2>11, PrefixVerdictIs DEF q
  <2> HIDE DEF q
  <2> QED
    BY <2>12
<1> QED
  BY <1>1, <1>2

\* The first n characters of a text.
LEMMA Beginning ==
  ASSUME NEW s \in Texts, NEW n \in 0..Len(s)
  PROVE  /\ SubSeq(s, 1, n) \in Texts /\ Len(SubSeq(s, 1, n)) = n
         /\ \A j \in 1..n : SubSeq(s, 1, n)[j] = s[j]
BY DEF Texts

\* What is left of an address that is cut off at its error.
LEMMA AddressCut ==
  ASSUME NEW s \in Texts, ParseLightningAddress(s).is \notin {"valid", "incomplete"}
  PROVE  LET v == ParseLightningAddress(s)
             t == SubSeq(s, 1, v.at)
         IN  \/ v.is = "excess" /\ ParseLightningAddress(t).is = "valid"
             \/ v.is = "unexpected" /\ ParseLightningAddress(t).is = "incomplete"
<1> DEFINE r == LightningAddress(s)
           v == ParseLightningAddress(s)
           t == SubSeq(s, 1, v.at)
<1>0. Len(s) \in Nat
  BY DEF Texts
<1>1. Outcome(r, 1, s) /\ v = Verdict(s, r)
  BY AddressReads DEF ParseLightningAddress
<1>2. /\ r.at \in 1..Len(s) /\ v.at = r.at - 1
      /\ \/ v.is = "excess" /\ r.ok
         \/ v.is = "unexpected" /\ ~r.ok
  <2> HIDE DEF r, v
  <2>1. r.at \in 1..(Len(s) + 1) /\ r.at <= Len(s)
    BY <1>1, VerdictIs DEF Incomplete, v
  <2>2. r.at \in 1..Len(s)
    BY <1>0, <2>1
  <2> QED
    BY <1>1, <2>2, VerdictIs
<1>3. v.at \in 0..Len(s)
  <2> HIDE DEF v, r
  <2> QED BY <1>0, <1>2
<1>4. t \in Texts /\ Len(t) = v.at /\ \A j \in 1..v.at : t[j] = s[j]
  <2> DEFINE n == v.at
  <2>1. n \in 0..Len(s)
    BY <1>3
  <2>2. SubSeq(s, 1, n) \in Texts /\ Len(SubSeq(s, 1, n)) = n
        /\ \A j \in 1..n : SubSeq(s, 1, n)[j] = s[j]
    <3> HIDE DEF n
    <3> QED BY <2>1, Beginning
  <2> QED
    BY <2>2
<1>5. Alike(s, t, 0, 1, r.at)
  <2> HIDE DEF r, v, t
  <2>1. /\ r.at \in 1..(Len(s) + 1)
        /\ \A j \in 1..(r.at - 1) : j <= Len(t) /\ t[j] = s[j]
        /\ r.at <= Len(t) => r.at <= Len(s) /\ t[r.at] = s[r.at]
    BY <1>0, <1>2, <1>4
  <2> QED
    BY <1>4, <2>1, AlikeBefore
<1>6. LightningAddress(t) = r
  <2> HIDE DEF t
  <2> QED BY <1>4, <1>5, AddressStays
<1>7. Outcome(r, 1, t) /\ r.at > Len(t)
  <2>1. Outcome(LightningAddress(t), 1, t)
    <3> HIDE DEF t
    <3> QED BY <1>4, AddressReads
  <2> HIDE DEF r, v, t
  <2> QED
    BY <1>0, <1>2, <1>4, <1>6, <2>1
<1>8. ParseLightningAddress(t) = Verdict(t, r)
  BY <1>6 DEF ParseLightningAddress
<1> HIDE DEF r, v, t
<1>9. IF r.ok THEN ParseLightningAddress(t).is = "valid" ELSE ParseLightningAddress(t).is = "incomplete"
  BY <1>4, <1>7, <1>8, VerdictIs DEF Incomplete
<1> QED
  BY <1>2, <1>9 DEF v, t

\* What is left of a number that is cut off at its error.
LEMMA NumberCut ==
  ASSUME NEW s \in Texts, PrefixVerdict(s).is = "invalid"
  PROVE  PrefixVerdict(SubSeq(s, 1, PrefixVerdict(s).at)).is \in {"valid", "incomplete", "unsupported"}
<1> DEFINE r == PhoneNumber(s)
           n == PrefixVerdict(s).at
           t == SubSeq(s, 1, n)
<1>0. Len(s) \in Nat
  BY DEF Texts
<1>1. r.at \in 1..Len(s) /\ n = r.at - 1
  <2>1. r.at \in 1..(Len(s) + 1) /\ r.at <= Len(s) /\ n = r.at - 1
    BY PrefixVerdictIs DEF Incomplete
  <2> HIDE DEF r, n
  <2> QED
    BY <1>0, <2>1
<1>2. n \in 0..Len(s)
  <2> HIDE DEF n, r
  <2> QED BY <1>0, <1>1
<1>3. t \in Texts /\ Len(t) = n /\ \A j \in 1..n : t[j] = s[j]
  <2> HIDE DEF n
  <2> QED BY <1>2, Beginning
<1>4. Alike(s, t, 0, 1, r.at)
  <2> HIDE DEF r, n, t
  <2>1. /\ r.at \in 1..(Len(s) + 1)
        /\ \A j \in 1..(r.at - 1) : j <= Len(t) /\ t[j] = s[j]
        /\ r.at <= Len(t) => r.at <= Len(s) /\ t[r.at] = s[r.at]
    BY <1>0, <1>1, <1>3
  <2> QED
    BY <1>3, <2>1, AlikeBefore
<1>5. PhoneNumber(t) = r
  <2> HIDE DEF t
  <2> QED BY <1>3, <1>4, NumberStays
<1>6. ~(r.at <= Len(t))
  <2> HIDE DEF t, n, r
  <2> QED BY <1>0, <1>1, <1>3
<1>7. PrefixVerdict(t).is \in {"valid", "incomplete", "unsupported"}
  <2> HIDE DEF t, r
  <2> QED BY <1>3, <1>5, <1>6, PrefixVerdictIs DEF Incomplete
<1> QED
  BY <1>7

-----------------------------------------------------------------------------
(* The field                                                                 *)

\* The field shows what the parser says of its text.
FieldTyped ==
  /\ kind \in {"address", "phone"}
  /\ text \in Texts
  /\ verdict = VerdictOn(text)

\* An error is at a character of the text.
LEMMA ErrorIsBefore ==
  ASSUME FieldTyped, HasPosition
  PROVE  verdict.at \in 0..Len(text)
<1>0. text \in Texts /\ Len(text) \in Nat
  BY DEF FieldTyped, Texts
<1>1. CASE kind = "address"
  <2> DEFINE r == LightningAddress(text)
  <2>1. Outcome(r, 1, text) /\ verdict = Verdict(text, r)
    BY <1>0, <1>1, AddressReads DEF FieldTyped, VerdictOn, ParseLightningAddress
  <2>2. r.at \in 1..(Len(text) + 1) /\ verdict.at = r.at - 1
    <3> HIDE DEF r
    <3> QED BY <1>0, <2>1, VerdictIs DEF HasPosition, Incomplete
  <2> HIDE DEF r
  <2> QED
    BY <1>0, <2>2
<1>2. CASE kind # "address"
  <2> DEFINE r == PhoneNumber(text)
  <2>1. verdict = PrefixVerdict(text)
    BY <1>2 DEF FieldTyped, VerdictOn
  <2>2. r.at \in 1..(Len(text) + 1) /\ verdict.at = r.at - 1
    BY <1>0, <2>1, PrefixVerdictIs DEF HasPosition, Incomplete
  <2> HIDE DEF r
  <2> QED
    BY <1>0, <2>2
<1> QED
  BY <1>1, <1>2

\* Every step shows the verdict on the text it leaves.
LEMMA FieldTypedStep ==
  ASSUME FieldTyped, [FieldNext]_fieldVars
  PROVE  FieldTyped' /\ kind' = kind /\ (fieldVars' # fieldVars => verdict' = VerdictOn(text'))
<1>0. text \in Texts /\ Len(text) \in Nat
  BY DEF FieldTyped, Texts
<1>1. ASSUME NEW s \in Texts, Shows(s)
      PROVE  FieldTyped' /\ kind' = kind /\ verdict' = VerdictOn(text')
  BY <1>1 DEF FieldTyped, Shows, VerdictOn
<1>2. ASSUME NEW c \in Characters, Type(c)
      PROVE  \E s \in Texts : Shows(s)
  BY <1>0, <1>2, Appended DEF Type
<1>3. CASE Erase
  <2>1. Shows(Front(text)) /\ Len(text) - 1 \in 0..Len(text)
    BY <1>0, <1>3 DEF Erase, Texts
  <2>2. Front(text) \in Texts
    <3> DEFINE n == Len(text) - 1
    <3>1. n \in 0..Len(text)
      BY <2>1
    <3>2. SubSeq(text, 1, n) \in Texts
      <4> HIDE DEF n
      <4> QED BY <1>0, <3>1, Beginning
    <3> QED
      BY <3>2 DEF Front
  <2> QED
    BY <1>1, <2>1, <2>2
<1>4. CASE CutOff
  <2>1. SubSeq(text, 1, verdict.at) \in Texts
    <3> DEFINE n == verdict.at
    <3>1. n \in 0..Len(text)
      BY <1>4, ErrorIsBefore DEF CutOff
    <3>2. SubSeq(text, 1, n) \in Texts
      <4> HIDE DEF n
      <4> QED BY <1>0, <3>1, Beginning
    <3> QED
      BY <3>2
  <2> QED
    BY <1>1, <1>4, <2>1 DEF CutOff
<1>5. CASE UNCHANGED fieldVars
  BY <1>5 DEF fieldVars, FieldTyped, VerdictOn
<1> QED
  BY <1>1, <1>2, <1>3, <1>4, <1>5 DEF FieldNext

\* The field's type: its text is made of the parser's characters, and the verdict
\* that parse_lightning_address or parse_phone_number_prefix gave is that of this
\* text.  The theorems below say what such verdicts are worth.
LEMMA FieldTypes == FieldSpec => []FieldTyped
<1>1. FieldInit => FieldTyped
  BY InputFieldAssumption DEF FieldInit, FieldTyped, VerdictOn, Texts
<1>2. FieldTyped /\ [FieldNext]_fieldVars => FieldTyped'
  BY FieldTypedStep
<1> QED
  BY <1>1, <1>2, PTL DEF FieldSpec

\* Errors stay where they are when the user types on, for every text.  A refusal
\* depends on what was read and on the character that stopped it, which typing at the
\* end does not change.
THEOREM ErrorsDoStay == FieldSpec => ErrorsStay
<1> DEFINE Stay == (\E c \in Characters : text' = Append(text, c)) /\ Refused
                     => Refused' /\ (HasPosition => verdict' = verdict)
<1>1. ASSUME FieldTyped, [FieldNext]_fieldVars
      PROVE  [Stay]_fieldVars
  <2> SUFFICES ASSUME NEW c \in Characters, text' = Append(text, c), Refused
               PROVE  Refused' /\ (HasPosition => verdict' = verdict)
    OBVIOUS
  <2>0. text \in Texts /\ verdict = VerdictOn(text)
    BY <1>1 DEF FieldTyped
  <2>1. text' # text
    BY <2>0, Appended DEF Texts
  <2>2. kind' = kind /\ verdict' = VerdictOn(Append(text, c))
    BY <1>1, <2>1, FieldTypedStep DEF fieldVars
  <2>3. verdict.is \notin {"valid", "incomplete"}
    BY DEF Refused, IsValid, IsIncomplete
  <2>4. CASE kind = "address"
    <3>1. verdict' = verdict
      BY <2>0, <2>2, <2>3, <2>4, AddressErrorsStay DEF VerdictOn
    <3> QED
      BY <2>3, <3>1 DEF Refused, IsValid, IsIncomplete
  <2>5. CASE kind # "address"
    <3>1. verdict = PrefixVerdict(text) /\ verdict' = PrefixVerdict(Append(text, c))
      BY <2>0, <2>2, <2>5 DEF VerdictOn
    <3>2. verdict.is \in {"invalid", "unsupported"}
      BY <2>0, <2>3, <3>1, PrefixVerdictIs DEF Incomplete
    <3>3. /\ verdict.is = "invalid" => verdict' = verdict
          /\ verdict.is = "unsupported" => verdict'.is \in {"unsupported", "invalid"}
      BY <2>0, <3>1, NumberErrorsStay
    <3> QED
      BY <3>2, <3>3 DEF Refused, IsValid, IsIncomplete, HasPosition
  <2> QED
    BY <2>4, <2>5
<1>2. FieldSpec => []FieldTyped
  BY FieldTypes
<1> QED
  BY <1>1, <1>2, PTL DEF FieldSpec, ErrorsStay

\* What the parsers say has to be removed is what was wrong: without it the text is
\* not refused for a character again, and an address with an excess suffix is one.
THEOREM CutsAreAccepted == FieldSpec => CutIsAccepted
<1> DEFINE Accepted == CutOff => /\ ~HasPosition'
                                 /\ verdict.is = "excess" => IsValid'
                                 /\ verdict.is = "unexpected" => IsIncomplete'
<1>1. ASSUME FieldTyped, [FieldNext]_fieldVars
      PROVE  [Accepted]_fieldVars
  <2> SUFFICES ASSUME CutOff PROVE Accepted
    OBVIOUS
  <2>0. text \in Texts /\ verdict = VerdictOn(text)
    BY <1>1 DEF FieldTyped
  <2>1. /\ verdict.is \in {"unexpected", "excess", "invalid"}
        /\ verdict' = VerdictOn(SubSeq(text, 1, verdict.at))
    BY DEF CutOff, Shows, HasPosition
  <2>2. CASE kind = "address"
    <3>1. verdict = ParseLightningAddress(text)
          /\ verdict' = ParseLightningAddress(SubSeq(text, 1, verdict.at))
      BY <2>0, <2>1, <2>2 DEF VerdictOn
    <3>2. \/ verdict.is = "excess" /\ verdict'.is = "valid"
          \/ verdict.is = "unexpected" /\ verdict'.is = "incomplete"
      BY <2>0, <2>1, <3>1, AddressCut
    <3> QED
      BY <3>2 DEF HasPosition, IsValid, IsIncomplete
  <2>3. CASE kind # "address"
    <3>1. verdict = PrefixVerdict(text)
          /\ verdict' = PrefixVerdict(SubSeq(text, 1, verdict.at))
      BY <2>0, <2>1, <2>3 DEF VerdictOn
    <3>2. verdict.is = "invalid"
      BY <2>0, <2>1, <3>1, PrefixVerdictIs DEF Incomplete
    <3>3. verdict'.is \in {"valid", "incomplete", "unsupported"}
      BY <2>0, <3>1, <3>2, NumberCut
    <3> QED
      BY <3>2, <3>3 DEF HasPosition
  <2> QED
    BY <2>2, <2>3
<1>2. FieldSpec => []FieldTyped
  BY FieldTypes
<1> QED
  BY <1>1, <1>2, PTL DEF FieldSpec, CutIsAccepted

-----------------------------------------------------------------------------
(* What is incomplete can become valid                                       *)

\* t is s and what is typed after it.
Extends(t, s) == Len(s) <= Len(t) /\ \A j \in 1..Len(s) : t[j] = s[j]

LEMMA Extended ==
  ASSUME NEW s \in Texts, NEW e \in Texts
  PROVE  /\ s \o e \in Texts /\ Len(s \o e) = Len(s) + Len(e) /\ Extends(s \o e, s)
         /\ \A j \in 1..Len(e) : (s \o e)[Len(s) + j] = e[j]
BY DEF Texts, Extends

LEMMA ExtendsIs ==
  ASSUME NEW s \in Texts, NEW t \in Texts, Extends(t, s)
  PROVE  \A j \in 1..Len(s) : \A C : Is(t, j, C) <=> Is(s, j, C)
BY DEF Texts, Extends, Is

\* What stopped a parser inside s stops it in t.
LEMMA ExtendsAlike ==
  ASSUME NEW s \in Texts, NEW t \in Texts, Extends(t, s), NEW i \in Positions(s),
         NEW e \in i..Len(s)
  PROVE  Alike(s, t, 0, i, e) /\ i \in Positions(t)
<1>1. \A j \in i..e : j \in 1..Len(s) /\ j \in 1..Len(t) /\ j + 0 = j
  BY DEF Positions, Extends, Texts
<1>2. e \in i..e /\ \A j \in i..(e - 1) : j \in i..e
  BY DEF Positions
<1>3. i \in Positions(t)
  BY DEF Positions, Extends, Texts
<1> QED
  BY <1>1, <1>2, <1>3 DEF Alike, Extends, Texts

\* A run that ends with s goes on in t up to what is not of it.
LEMMA RunGoesOn ==
  ASSUME NEW s \in Texts, NEW t \in Texts, Extends(t, s), NEW i \in Positions(s), NEW C,
         \A j \in i..Len(s) : Is(s, j, C),
         NEW e \in (Len(s) + 1)..(Len(t) + 1),
         \A j \in (Len(s) + 1)..(e - 1) : Is(t, j, C), ~Is(t, e, C)
  PROVE  RunEnd(t, i, C) = e
<1>1. i \in Positions(t) /\ e \in i..(Len(t) + 1)
  BY DEF Positions, Extends, Texts
<1>2. \A j \in i..(e - 1) : Is(t, j, C)
  <2> TAKE j \in i..(e - 1)
  <2>1. (j \in i..Len(s) /\ j \in 1..Len(s)) \/ j \in (Len(s) + 1)..(e - 1)
    BY DEF Positions, Texts
  <2> QED
    BY <2>1, ExtendsIs
<1> QED
  BY <1>1, <1>2, RunEndIs

\* A label that the text ends with is read up to a dot.
LEMMA LabelBeforeDot ==
  ASSUME NEW s \in Texts, NEW t \in Texts, Extends(t, s), NEW k \in Positions(s),
         Label(s, k).ok, Label(s, k).at = Len(s) + 1, Is(t, Len(s) + 1, {"."})
  PROVE  Label(t, k) = Reads(Len(s) + 1)
<1> DEFINE n == Len(s) + 1
<1>0. Len(s) \in Nat /\ Len(t) \in Nat /\ k \in Nat /\ k \in 1..Len(s) /\ n \in 1..Len(t)
  <2>1. k \in 1..(Len(s) + 1) /\ k # Len(s) + 1
    BY LabelAt DEF Positions
  <2>2. n \in DOMAIN t
    BY DEF Is
  <2> QED
    BY <2>1, <2>2 DEF Texts
<1>1. /\ ~Is(t, n, LabelChars) /\ ~Is(t, n, {"-"}) /\ ~Is(t, n, PunycodeChars)
      /\ ~Is(t, n, {"x"}) /\ ~Is(t, n, {"n"})
  BY DEF Is, LabelChars, PunycodeChars, Alphanumeric, Letters, Digits, Foreign
<1>2. \A j \in 1..Len(s) : \A C : Is(t, j, C) <=> Is(s, j, C)
  BY ExtendsIs
<1>3. CASE HasTag(s, k)
  <2>1. k + 4 \in Positions(s) /\ Label(s, k) = Chars1(s, k + 4, PunycodeChars)
    BY <1>3, LabelAt DEF Label
  <2> DEFINE i == k + 4
  <2>2. Is(s, i, PunycodeChars) /\ RunEnd(s, i, PunycodeChars) = n
    BY <2>1, Results DEF Chars1, Chars
  <2>3. i \in 1..Len(s) /\ \A j \in i..Len(s) : Is(s, j, PunycodeChars)
    <3>1. \A j \in i..(RunEnd(s, i, PunycodeChars) - 1) : Is(s, j, PunycodeChars)
      <4> HIDE DEF i
      <4> QED BY <2>1, RunEnds DEF i
    <3>2. i \in DOMAIN s /\ n - 1 = Len(s)
      BY <1>0, <2>2 DEF Is
    <3> QED
      BY <2>2, <3>1, <3>2 DEF Texts
  <2>4. RunEnd(t, i, PunycodeChars) = n
    <3> HIDE DEF i
    <3>1. n \in (Len(s) + 1)..(Len(t) + 1) /\ \A j \in (Len(s) + 1)..(n - 1) : FALSE
      BY <1>0
    <3>2. i \in Positions(s)
      BY <1>0, <2>3 DEF Positions
    <3> HIDE DEF n
    <3> QED BY <1>1, <2>3, <3>1, <3>2, RunGoesOn
  <2>5. Is(t, i, PunycodeChars)
    <3> HIDE DEF i
    <3> QED BY <1>2, <2>2, <2>3
  <2>6. HasTag(t, k)
    <3>1. k \in 1..Len(s) /\ k + 1 \in 1..Len(s) /\ k + 2 \in 1..Len(s) /\ k + 3 \in 1..Len(s)
      BY <1>0, <2>3
    <3>2. k \in Int
      BY <1>0
    <3> QED
      BY <1>2, <1>3, <3>1, <3>2, TagIs
  <2>7. Label(t, k) = Chars1(t, i, PunycodeChars)
    BY <2>6 DEF Label
  <2> QED
    BY <2>4, <2>5, <2>7 DEF Chars1, Chars
<1>4. CASE ~HasTag(s, k)
  <2>1. Label(s, k) = UnicodeLabel(s, k)
    BY <1>4 DEF Label
  <2>2. Is(s, k, LabelChars) /\ LabelEnd(s, k) = n
    BY <2>1, UnicodeLabelAt, Results
  <2>3. \A j \in k..Len(s) : InLabel(s, j)
    <3>1. \A j \in k..(LabelEnd(s, k) - 1) : InLabel(s, j)
      BY LabelEnds
    <3>2. n - 1 = Len(s)
      BY <1>0
    <3> QED BY <2>2, <3>1, <3>2
  <2>4. \A j \in k..Len(s) : InLabel(t, j)
    <3> TAKE j \in k..Len(s)
    <3>1. j \in 1..Len(s) /\ InLabel(s, j) /\ (j + 1 \in 1..Len(s) \/ j + 1 = Len(s) + 1)
      BY <1>0, <2>3
    <3>2. ~Is(s, Len(s) + 1, LabelChars)
      BY DEF Is, Texts
    <3>3. Is(s, j + 1, LabelChars) => Is(t, j + 1, LabelChars)
      <4>1. CASE j + 1 \in 1..Len(s)
        BY <1>2, <4>1
      <4>2. CASE j + 1 = Len(s) + 1
        BY <3>2, <4>2
      <4> QED BY <3>1, <4>1, <4>2
    <3> QED
      BY <1>2, <3>1, <3>3 DEF InLabel
  <2>5. ~InLabel(t, n)
    <3> HIDE DEF n
    <3> QED BY <1>1 DEF InLabel
  <2>6. LabelEnd(t, k) = n
    <3>1. k \in Positions(t) /\ n \in k..(Len(t) + 1) /\ \A j \in k..(n - 1) : j \in k..Len(s)
      BY <1>0 DEF Positions
    <3> HIDE DEF n
    <3> QED BY <2>4, <2>5, <3>1, LabelEndIs
  <2>7. UnicodeLabel(t, k) = Reads(n)
    <3>1. Is(t, k, LabelChars)
      BY <1>0, <1>2, <2>2
    <3> HIDE DEF n
    <3> QED BY <1>1, <2>6, <3>1 DEF UnicodeLabel
  <2>8. ~HasTag(t, k)
    <3> SUFFICES ASSUME HasTag(t, k) PROVE FALSE
      OBVIOUS
    <3>1. /\ Is(t, k, {"x"}) /\ Is(t, k + 1, {"n"}) /\ Is(t, k + 2, {"-"}) /\ Is(t, k + 3, {"-"})
          /\ k \in Int
      BY <1>0, TagIs
    <3>2. k # n /\ k + 1 # n /\ k + 2 # n /\ k + 3 # n
      <4> HIDE DEF n
      <4> QED BY <1>1, <3>1
    <3>3. k + 1 \in 1..Len(s) /\ k + 2 \in 1..Len(s) /\ k + 3 \in 1..Len(s)
      BY <1>0, <3>2
    <3> QED
      BY <1>0, <1>2, <1>4, <3>1, <3>3, TagIs
  <2> QED
    BY <2>7, <2>8 DEF Label
<1> QED
  BY <1>3, <1>4

\* A letter completes a label that is not complete.
LEMMA LabelCompleted ==
  ASSUME NEW s \in Texts, NEW t \in Texts, Extends(t, s), Len(t) = Len(s) + 1, t[Len(s) + 1] = "l",
         NEW k \in Positions(s), ~Label(s, k).ok, Label(s, k).at = Len(s) + 1
  PROVE  Label(t, k) = Reads(Len(t) + 1)
<1> DEFINE n == Len(s) + 1
<1>0. Len(s) \in Nat /\ Len(t) \in Nat /\ k \in Nat /\ k \in 1..n /\ n \in 1..Len(t)
      /\ Len(t) = n /\ k \in Positions(t)
  BY DEF Positions, Texts
<1>1. /\ Is(t, n, LabelChars) /\ ~Is(t, n, {"-"}) /\ Is(t, n, PunycodeChars)
      /\ ~Is(t, n, {"x"}) /\ ~Is(t, n, {"n"})
      /\ \A C : ~Is(t, n + 1, C)
  BY <1>0 DEF Is, LabelChars, PunycodeChars, Alphanumeric, Letters, Digits, Foreign, Texts
<1>2. \A j \in 1..Len(s) : \A C : Is(t, j, C) <=> Is(s, j, C)
  BY ExtendsIs
<1>3. \A C : ~Is(s, n, C)
  BY DEF Is, Texts
<1>4. CASE HasTag(s, k)
  <2> DEFINE i == k + 4
  <2>1. i \in Positions(s) /\ Label(s, k) = Chars1(s, i, PunycodeChars)
    BY <1>4, LabelAt DEF Label
  <2>2. i = n
    <3> HIDE DEF i
    <3>1. Is(s, i, PunycodeChars) => Chars1(s, i, PunycodeChars).ok
      BY Results DEF Chars1, Chars
    <3> QED BY <2>1, <3>1, Results DEF Chars1
  <2>3. HasTag(t, k)
    <3>1. k \in 1..Len(s) /\ k + 1 \in 1..Len(s) /\ k + 2 \in 1..Len(s) /\ k + 3 \in 1..Len(s)
      BY <1>0, <2>2
    <3>2. k \in Int
      BY <1>0
    <3> QED
      BY <1>2, <1>4, <3>1, <3>2, TagIs
  <2>4. RunEnd(t, i, PunycodeChars) = n + 1
    <3>1. n \in Positions(t) /\ n + 1 \in n..(Len(t) + 1) /\ \A j \in n..(n + 1 - 1) : j = n
      BY <1>0 DEF Positions
    <3> DEFINE e == n + 1
    <3>2. e \in n..(Len(t) + 1) /\ (\A j \in n..(e - 1) : Is(t, j, PunycodeChars)) /\ ~Is(t, e, PunycodeChars)
      BY <1>1, <3>1
    <3>3. RunEnd(t, n, PunycodeChars) = e
      <4> HIDE DEF e, n
      <4> QED BY <3>1, <3>2, RunEndIs
    <3> QED
      BY <2>2, <3>3
  <2>5. Label(t, k) = Reads(n + 1)
    <3>1. Is(t, i, PunycodeChars)
      BY <1>1, <2>2
    <3>2. Label(t, k) = Chars1(t, i, PunycodeChars)
      BY <2>3 DEF Label
    <3> HIDE DEF i, n
    <3> QED BY <2>4, <3>1, <3>2 DEF Chars1, Chars
  <2> QED
    BY <1>0, <2>5
<1>5. CASE ~HasTag(s, k)
  <2>1. Label(s, k) = UnicodeLabel(s, k)
    BY <1>5 DEF Label
  \* The label was empty, or ended with a hyphen.
  <2>2. \/ k = n
        \/ k \in 1..Len(s) /\ Is(s, k, LabelChars) /\ Is(s, LabelEnd(s, k), {"-"}) /\ LabelEnd(s, k) = Len(s)
    <3> DEFINE e == LabelEnd(s, k)
    <3>1. \/ UnicodeLabel(s, k) = Fails(k)
          \/ Is(s, k, LabelChars) /\ Is(s, e, {"-"}) /\ UnicodeLabel(s, k) = Fails(e + 1) /\ e \in k..(Len(s) + 1)
      BY <2>1, UnicodeLabelAt, LabelEnds, Results
    <3> HIDE DEF e
    <3>2. CASE UnicodeLabel(s, k) = Fails(k)
      BY <2>1, <3>2, Results
    <3>3. CASE Is(s, k, LabelChars) /\ Is(s, e, {"-"}) /\ UnicodeLabel(s, k) = Fails(e + 1) /\ e \in k..(Len(s) + 1)
      <4>1. e + 1 = n
        BY <2>1, <3>3, Results
      <4>2. e = Len(s) /\ k \in 1..Len(s)
        BY <1>0, <3>3, <4>1
      <4> QED
        BY <3>3, <4>2 DEF e
    <3> QED BY <3>1, <3>2, <3>3
  <2>3. \A j \in k..n : InLabel(t, j)
    <3> TAKE j \in k..n
    <3>1. CASE j = n
      BY <1>1, <3>1 DEF InLabel
    <3>2. CASE j = Len(s) /\ j # n
      <4>1. k \in 1..Len(s) /\ Is(s, j, {"-"}) /\ j + 1 = n /\ j \in 1..Len(s)
        BY <1>0, <2>2, <3>2
      <4>2. Is(t, j, {"-"}) /\ Is(t, j + 1, LabelChars)
        BY <1>1, <1>2, <4>1
      <4> QED
        BY <4>2 DEF InLabel
    <3>3. CASE j # Len(s) /\ j # n
      <4>1. k \in 1..Len(s) /\ j \in k..(Len(s) - 1) /\ j \in 1..Len(s) /\ j + 1 \in 1..Len(s)
        BY <1>0, <2>2, <3>3
      <4>2. InLabel(s, j)
        <5>1. \A m \in k..(LabelEnd(s, k) - 1) : InLabel(s, m)
          BY LabelEnds
        <5>2. LabelEnd(s, k) = Len(s)
          BY <1>0, <2>2, <4>1
        <5> QED
          BY <4>1, <5>1, <5>2
      <4> QED
        BY <1>2, <4>1, <4>2 DEF InLabel
    <3> QED
      BY <3>1, <3>2, <3>3
  <2>4. LabelEnd(t, k) = n + 1
    <3> DEFINE e == n + 1
    <3>1. e \in k..(Len(t) + 1) /\ \A j \in k..(e - 1) : j \in k..n
      BY <1>0
    <3>2. ~InLabel(t, e)
      BY <1>1 DEF InLabel
    <3> HIDE DEF e, n
    <3>3. LabelEnd(t, k) = e
      BY <1>0, <2>3, <3>1, <3>2, LabelEndIs
    <3> QED
      BY <3>3 DEF e
  <2>5. Is(t, k, LabelChars)
    <3>1. CASE k = n
      BY <1>1, <3>1
    <3>2. CASE k \in 1..Len(s) /\ Is(s, k, LabelChars)
      BY <1>2, <3>2
    <3> QED BY <2>2, <3>1, <3>2
  <2>6. UnicodeLabel(t, k) = Reads(n + 1)
    <3>1. ~Is(t, n + 1, {"-"})
      BY <1>1
    <3> QED BY <2>4, <2>5, <3>1 DEF UnicodeLabel
  <2>7. ~HasTag(t, k)
    <3> SUFFICES ASSUME HasTag(t, k) PROVE FALSE
      OBVIOUS
    <3>1. /\ Is(t, k, {"x"}) /\ Is(t, k + 1, {"n"}) /\ Is(t, k + 2, {"-"}) /\ Is(t, k + 3, {"-"})
          /\ k \in Int
      BY <1>0, TagIs
    <3>2. k # n /\ k + 1 # n /\ k + 2 # n /\ k + 3 # n
      <4> HIDE DEF n
      <4> QED BY <1>1, <3>1
    <3>3. k \in 1..Len(s) /\ k + 1 \in 1..Len(s) /\ k + 2 \in 1..Len(s) /\ k + 3 \in 1..Len(s)
      BY <1>0, <3>2
    <3> QED
      BY <1>0, <1>2, <1>5, <3>1, <3>3, TagIs
  <2> QED
    BY <1>0, <2>6, <2>7 DEF Label
<1> QED
  BY <1>4, <1>5

\* Two letters are a top level domain, whatever comes before them.
LEMMA TopLevelLabel ==
  ASSUME NEW t \in Texts, NEW j \in Positions(t), Len(t) = j + 1, t[j] = "l", t[j + 1] = "l"
  PROVE  Label(t, j) = Reads(j + 2) /\ IsTopLevel(t, j, j + 2) /\ ~Is(t, j + 2, {"."})
<1>0. j \in Nat /\ j \in DOMAIN t /\ j + 1 \in DOMAIN t /\ j + 2 \notin DOMAIN t /\ j + 2 \in j..(Len(t) + 1)
  BY DEF Positions, Texts
<1>1. /\ Is(t, j, LabelChars) /\ Is(t, j + 1, LabelChars) /\ ~Is(t, j, {"x"})
      /\ \A C : ~Is(t, j + 2, C)
  BY <1>0 DEF Is, LabelChars, Alphanumeric, Letters, Digits, Foreign
<1>2. ~HasTag(t, j)
  BY <1>0, <1>1, TagIs
<1>3. LabelEnd(t, j) = j + 2
  <2> DEFINE e == j + 2
  <2>1. \A m \in j..(e - 1) : m = j \/ m = j + 1
    BY <1>0
  <2>2. \A m \in j..(e - 1) : InLabel(t, m)
    BY <1>1, <2>1 DEF InLabel
  <2>3. ~InLabel(t, e) /\ e \in j..(Len(t) + 1)
    BY <1>0, <1>1 DEF InLabel
  <2> HIDE DEF e
  <2>4. LabelEnd(t, j) = e
    BY <2>2, <2>3, LabelEndIs
  <2> QED
    BY <2>4 DEF e
<1>4. Label(t, j) = Reads(j + 2)
  <2>1. UnicodeLabel(t, j) = Reads(j + 2)
    BY <1>1, <1>3 DEF UnicodeLabel
  <2> QED
    BY <1>2, <2>1 DEF Label
<1>5. IsTopLevel(t, j, j + 2)
  <2>1. \A m \in j..((j + 2) - 1) : m \in {j, j + 1}
    BY <1>0
  <2>2. \A m \in j..((j + 2) - 1) : t[m] \in Letters \cup Foreign
    BY <2>1 DEF Letters
  <2>3. {m \in j..((j + 2) - 1) : m = j \/ t[m] # "m"} = {j, j + 1}
    BY <1>0
  <2>4. Cardinality({j, j + 1}) = 2
    <3> DEFINE k == j + 1
    <3>1. j # k /\ {j, k} = {j} \cup {k}
      BY <1>0
    <3> HIDE DEF k
    <3>2. IsFiniteSet({j}) /\ Cardinality({j}) = 1
      BY FS_Singleton, Zenon
    <3>3. Cardinality({j} \cup {k}) = Cardinality({j}) + 1
      BY <3>1, <3>2, FS_AddElement
    <3> QED
      BY <3>1, <3>2, <3>3 DEF k
  <2>5. Graphemes(t, j, j + 2) = 2
    <3>1. Graphemes(t, j, j + 2) = Cardinality({m \in j..((j + 2) - 1) : m = j \/ t[m] # "m"})
      BY DEF Graphemes
    <3> QED
      BY <2>3, <2>4, <3>1, Zenon
  <2>6. IsTopLevel(t, j, j + 2) <=> Graphemes(t, j, j + 2) >= 2
    <3> DEFINE e == j + 2
    <3>1. \A m \in j..(e - 1) : t[m] \in Letters \cup Foreign
      BY <2>2
    <3> HIDE DEF e
    <3>2. IsTopLevel(t, j, e) <=> Graphemes(t, j, e) >= 2
      BY <1>2, <3>1 DEF IsTopLevel
    <3> QED
      BY <3>2 DEF e
  <2> QED
    BY <2>5, <2>6
<1> QED
  BY <1>1, <1>4, <1>5

\* The label a domain ends with that is not complete.
LEMMA LastLabel ==
  ASSUME NEW s \in Texts, NEW i \in Positions(s), NEW f, Hosts(f, s, i)
  PROVE  \A m \in Positions(s) : ~f[m].ok /\ f[m].at = Len(s) + 1 =>
           \E k \in m..(Len(s) + 1) :
             /\ Label(s, k).at = Len(s) + 1
             /\ \A t \in Texts : Extends(t, s) =>
                  \A g : Hosts(g, t, i) => g[m] = g[k]
<1> DEFINE N == Len(s)
           Ends(k) == Label(s, k).at = N + 1
           Leads(m, k) == \A t \in Texts : Extends(t, s) => \A g : Hosts(g, t, i) => g[m] = g[k]
           Has(m) == ~f[m].ok /\ f[m].at = N + 1 => \E k \in m..(N + 1) : Ends(k) /\ Leads(m, k)
           Bad == {n \in 0..N : ~Has(N + 1 - n)}
<1>0. N \in Nat
  BY DEF Texts
<1>1. Bad = {}
  <2> SUFFICES ASSUME Bad # {} PROVE FALSE
    OBVIOUS
  <2>1. PICK n \in Bad : \A x \in Bad : n <= x
    <3>1. Bad \subseteq Nat
      OBVIOUS
    <3> HIDE DEF Bad
    <3> QED BY <3>1, Least
  <2> DEFINE m == N + 1 - n
             l == Label(s, m)
  <2>2. m \in Positions(s) /\ m \in 1..(N + 1) /\ n \in 0..N
    BY <1>0 DEF Positions
  <2>3. ~Has(m)
    OBVIOUS
  <2>4. ~f[m].ok /\ f[m].at = N + 1
    <3> HIDE DEF m, Ends, Leads
    <3> QED BY <2>3
  <2>5. f[m] = Host(f, s, i, m)
    <3> HIDE DEF m
    <3> QED BY <2>2 DEF Hosts
  <2>6. l.at \in m..(N + 1) /\ (l.ok => l.at > m)
    <3> HIDE DEF m
    <3> QED BY <2>2, LabelAt DEF Outcome
  <2>7. CASE l.ok /\ Is(s, l.at, {"."}) /\ Host(f, s, i, m) = f[l.at + 1]
    <3> DEFINE p == l.at + 1
    <3>0. l.at \in 1..N
      BY <2>7 DEF Is, Texts
    <3>1. p \in (m + 1)..(N + 1) /\ p \in Positions(s)
      <4> HIDE DEF m, l, N
      <4> QED BY <1>0, <2>2, <2>6, <3>0 DEF Positions, N
    <3>2. N + 1 - p \in 0..N /\ ~(n <= N + 1 - p) /\ N + 1 - (N + 1 - p) = p
      <4> HIDE DEF p, N
      <4> QED BY <1>0, <2>2, <3>1
    <3>3. N + 1 - p \notin Bad
      <4> HIDE DEF p, Bad, N
      <4> QED BY <2>1, <3>2
    <3>4. Has(p)
      <4> HIDE DEF Has, p
      <4> QED BY <3>2, <3>3
    <3>5. f[m] = f[p]
      BY <2>5, <2>7
    <3>6. PICK k \in p..(N + 1) : Ends(k) /\ Leads(p, k)
      <4> HIDE DEF m, p, Ends, Leads
      <4> QED BY <2>4, <3>4, <3>5
    <3>7. ASSUME NEW t \in Texts, Extends(t, s), NEW g, Hosts(g, t, i)
          PROVE  g[m] = g[p]
      <4> DEFINE e == l.at
      <4>1. Alike(s, t, 0, m, e) /\ m \in Positions(t)
        <5>1. e \in m..N
          <6> HIDE DEF m, l, N
          <6> QED BY <1>0, <2>2, <2>6, <3>0
        <5> HIDE DEF m, e
        <5> QED BY <2>2, <3>7, <5>1, ExtendsAlike
      <4>2. Label(t, m) = l
        <5> HIDE DEF m
        <5> QED BY <2>2, <4>1, Stays
      <4>3. Is(t, e, {"."})
        <5> HIDE DEF m, l
        <5> QED BY <2>7, <3>0, <3>7, ExtendsIs
      <4>4. g[m] = Host(g, t, i, m)
        <5> HIDE DEF m
        <5> QED BY <3>7, <4>1 DEF Hosts
      <4>5. Host(g, t, i, m) = g[e + 1]
        <5>1. Label(t, m).ok /\ Label(t, m).at = e /\ Is(t, Label(t, m).at, {"."})
          BY <2>7, <4>2, <4>3
        <5> HIDE DEF m, e, l
        <5> QED BY <5>1, HostCases
      <4> QED
        BY <4>4, <4>5
    <3>8. Leads(m, k)
      <4>1. \A t \in Texts : Extends(t, s) => \A g : Hosts(g, t, i) => g[p] = g[k]
        BY <3>6
      <4> HIDE DEF m, p
      <4> QED BY <3>7, <4>1
    <3>9. k \in m..(N + 1)
      <4> HIDE DEF m, p, N
      <4> QED BY <1>0, <2>2, <3>1, <3>6
    <3> HIDE DEF m, Ends, Leads
    <3> QED
      BY <2>3, <3>6, <3>8, <3>9
  <2>8. CASE Host(f, s, i, m) = l /\ l.ok
    BY <2>4, <2>5, <2>8
  <2>9. CASE Host(f, s, i, m) = Fails(l.at)
    <3>1. l.at = N + 1
      <4> HIDE DEF m, l
      <4> QED BY <2>4, <2>5, <2>9, Results
    <3>2. Ends(m) /\ Leads(m, m) /\ m \in m..(N + 1)
      <4>1. m \in m..(N + 1)
        <5> HIDE DEF m, N
        <5> QED BY <1>0, <2>2
      <4> QED BY <3>1, <4>1
    <3> HIDE DEF m, Ends, Leads
    <3> QED
      BY <2>3, <3>2
  <2> QED
    BY <2>7, <2>8, <2>9, HostCases
<1>2. ASSUME NEW m \in Positions(s)
      PROVE  Has(m)
  <2>1. N + 1 - m \in 0..N /\ N + 1 - (N + 1 - m) = m
    <3>1. m \in 1..(N + 1)
      BY DEF Positions
    <3> HIDE DEF N
    <3> QED BY <1>0, <3>1
  <2>2. N + 1 - m \notin Bad
    <3> HIDE DEF Bad
    <3> QED BY <1>1
  <2> HIDE DEF Has
  <2> QED
    BY <2>1, <2>2
<1> QED
  BY <1>2

\* What is typed to complete an address.
LEMMA EndingsAreTexts ==
  /\ "l" \in Characters
  /\ <<"l", "@">> \in Texts /\ <<"@">> \in Texts
  /\ <<"l", ".", "l", "l">> \in Texts /\ <<".", "l", "l">> \in Texts
<1>1. "l" \in Characters /\ "." \in Characters /\ "@" \in Characters
  BY DEF Characters, UsernameChars, Alphanumeric, Letters
<1> QED
  BY <1>1 DEF Texts

\* A domain to which a label and a dot, or a dot, and a top level domain is added.
LEMMA DomainCompletes ==
  ASSUME NEW s \in Texts, NEW i \in Positions(s),
         ~Domain(s, i).ok, Domain(s, i).at = Len(s) + 1
  PROVE  \E e \in {<<"l", ".", "l", "l">>, <<".", "l", "l">>} :
           /\ Domain(s \o e, i) = Reads(Len(s \o e) + 1)
           /\ i = Len(s) + 1 => e = <<"l", ".", "l", "l">>
<1> DEFINE N == Len(s)
<1>0. N \in Nat /\ i \in 1..(N + 1)
  BY DEF Texts, Positions
<1>1. PICK f : Hosts(f, s, i) /\ Domain(s, i) = f[i]
  BY DomainIsHost
<1>2. PICK k \in i..(N + 1) :
         /\ Label(s, k).at = N + 1
         /\ \A t \in Texts : Extends(t, s) => \A g : Hosts(g, t, i) => g[i] = g[k]
  BY <1>1, LastLabel
<1>3. k \in Positions(s) /\ k \in 1..(N + 1)
  BY <1>0, <1>2 DEF Positions
\* What is left when the label and the dot after it are there.
<1>4. ASSUME NEW t \in Texts, Extends(t, s), NEW m \in {N + 1, N + 2}, Len(t) = m + 2,
             Label(t, k) = Reads(m), Is(t, m, {"."}), t[m + 1] = "l", t[m + 2] = "l"
      PROVE  Domain(t, i) = Reads(Len(t) + 1)
  <2>1. /\ i \in Positions(t) /\ k \in Positions(t) /\ m \in Nat
        /\ m + 1 \in Positions(t) /\ m + 1 # i /\ Len(t) + 1 = m + 3
    BY <1>0, <1>3, <1>4 DEF Positions
  <2>2. PICK g : Hosts(g, t, i) /\ Domain(t, i) = g[i]
    BY <2>1, DomainIsHost
  <2>3. g[i] = g[k]
    BY <1>2, <1>4, <2>2
  <2>4. g[k] = g[m + 1]
    <3>1. Label(t, k).ok /\ Label(t, k).at = m
      BY <1>4, Results
    <3>2. g[k] = Host(g, t, i, k)
      BY <2>1, <2>2 DEF Hosts
    <3> QED
      BY <1>4, <3>1, <3>2, HostCases
  <2> DEFINE j == m + 1
  <2>5. Label(t, j) = Reads(j + 2) /\ IsTopLevel(t, j, j + 2) /\ ~Is(t, j + 2, {"."})
    <3>1. j \in Positions(t) /\ Len(t) = j + 1 /\ t[j] = "l" /\ t[j + 1] = "l"
      <4>1. m + 2 = (m + 1) + 1
        BY <2>1
      <4> QED BY <1>4, <2>1, <4>1
    <3> HIDE DEF j
    <3> QED BY <3>1, TopLevelLabel
  <2>6. g[j] = Reads(j + 2)
    <3>1. j \in Positions(t) /\ j # i
      BY <2>1
    <3> DEFINE q == j + 2
    <3>2. Label(t, j).ok /\ Label(t, j).at = q
      BY <2>5, Results
    <3>3. Label(t, j) = Reads(q) /\ IsTopLevel(t, j, q) /\ ~Is(t, q, {"."})
      BY <2>5
    <3> HIDE DEF j, q
    <3>4. g[j] = Host(g, t, i, j)
      BY <2>2, <3>1 DEF Hosts
    <3>5. g[j] = Reads(q)
      BY <3>1, <3>2, <3>3, <3>4, HostCases
    <3> QED
      BY <3>5 DEF q
  <2>7. j + 2 = Len(t) + 1
    BY <2>1
  <2> QED
    BY <2>2, <2>3, <2>4, <2>6, <2>7
<1>5. CASE Label(s, k).ok
  <2> DEFINE e == <<".", "l", "l">>
             t == s \o e
  <2>1. e \in Texts /\ Len(e) = 3 /\ e[1] = "." /\ e[2] = "l" /\ e[3] = "l"
    BY EndingsAreTexts
  <2>2. /\ t \in Texts /\ Len(t) = N + 3 /\ Extends(t, s)
        /\ t[N + 1] = "." /\ t[N + 2] = "l" /\ t[N + 3] = "l"
    <3> HIDE DEF e
    <3>1. 1 \in 1..Len(e) /\ 2 \in 1..Len(e) /\ 3 \in 1..Len(e)
      BY <2>1
    <3> QED BY <2>1, <3>1, Extended
  <2>3. Is(t, N + 1, {"."})
    <3> HIDE DEF e, t
    <3> QED BY <1>0, <2>2 DEF Is, Texts
  <2>4. Label(t, k) = Reads(N + 1)
    <3> HIDE DEF e, t
    <3> QED BY <1>2, <1>3, <1>5, <2>2, <2>3, LabelBeforeDot
  <2>5. Domain(t, i) = Reads(Len(t) + 1)
    <3> DEFINE m == N + 1
    <3>1. m + 1 = N + 2 /\ m + 2 = N + 3 /\ m \in {N + 1, N + 2}
      BY <1>0
    <3>2. Len(t) = m + 2 /\ Label(t, k) = Reads(m) /\ Is(t, m, {"."}) /\ t[m + 1] = "l" /\ t[m + 2] = "l"
      BY <2>2, <2>3, <2>4, <3>1
    <3> HIDE DEF e, t, m
    <3> QED BY <1>4, <2>2, <3>1, <3>2
  <2>6. i # N + 1
    BY <1>0, <1>2, <1>3, <1>5, LabelAt
  <2> QED
    BY <2>5, <2>6
<1>6. CASE ~Label(s, k).ok
  <2> DEFINE e == <<"l", ".", "l", "l">>
             t == s \o e
             u == Append(s, "l")
  <2>1. /\ e \in Texts /\ "l" \in Characters
        /\ Len(e) = 4 /\ e[1] = "l" /\ e[2] = "." /\ e[3] = "l" /\ e[4] = "l"
    BY EndingsAreTexts
  <2>2. /\ t \in Texts /\ Len(t) = N + 4 /\ Extends(t, s)
        /\ t[N + 1] = "l" /\ t[N + 2] = "." /\ t[N + 3] = "l" /\ t[N + 4] = "l"
    <3> HIDE DEF e
    <3>1. 1 \in 1..Len(e) /\ 2 \in 1..Len(e) /\ 3 \in 1..Len(e) /\ 4 \in 1..Len(e)
      BY <2>1
    <3> QED BY <2>1, <3>1, Extended
  <2>3. /\ u \in Texts /\ Len(u) = N + 1 /\ Extends(u, s) /\ u[N + 1] = "l"
        /\ \A j \in 1..N : u[j] = s[j]
    BY <1>0, <2>1, Appended DEF Extends
  <2>4. Extends(t, u)
    <3> HIDE DEF e, t, u
    <3>1. \A j \in 1..Len(u) : j \in 1..N \/ j = N + 1
      BY <1>0, <2>3
    <3> QED BY <1>0, <2>2, <2>3, <3>1 DEF Extends
  <2>5. Label(u, k) = Reads(N + 2)
    <3>1. Label(u, k) = Reads(Len(u) + 1)
      <4> HIDE DEF u
      <4> QED BY <1>2, <1>3, <1>6, <2>3, LabelCompleted
    <3>2. Len(u) + 1 = N + 2
      BY <1>0, <2>3
    <3> QED BY <3>1, <3>2
  <2>6. Is(t, N + 2, {"."})
    <3> HIDE DEF e, t
    <3> QED BY <1>0, <2>2 DEF Is, Texts
  <2>7. Label(t, k) = Reads(N + 2)
    <3>1. Len(u) + 1 = N + 2 /\ k \in Positions(u)
      BY <1>0, <1>3, <2>3 DEF Positions
    <3> HIDE DEF e, t, u
    <3> QED BY <2>2, <2>3, <2>4, <2>5, <2>6, <3>1, LabelBeforeDot, Results
  <2>8. Domain(t, i) = Reads(Len(t) + 1)
    <3> DEFINE m == N + 2
    <3>1. m + 1 = N + 3 /\ m + 2 = N + 4 /\ m \in {N + 1, N + 2}
      BY <1>0
    <3>2. Len(t) = m + 2 /\ Label(t, k) = Reads(m) /\ Is(t, m, {"."}) /\ t[m + 1] = "l" /\ t[m + 2] = "l"
      BY <2>2, <2>6, <2>7, <3>1
    <3> HIDE DEF e, t, m
    <3> QED BY <1>4, <2>2, <3>1, <3>2
  <2> QED
    BY <2>8
<1> QED
  BY <1>5, <1>6

\* All that can follow is a host from i on.
HostFollows(s, i) ==
  \A t \in Texts : Extends(t, s) =>
    /\ Chars(t, 1, Blanks).ok /\ Username(t).ok /\ Separator(t).ok
    /\ Separator(t).at = i

\* An address is complete when its domain is.
LEMMA AddressCompletes ==
  ASSUME NEW s \in Texts, NEW i \in Positions(s), HostFollows(s, i),
         ~Domain(s, i).ok, Domain(s, i).at = Len(s) + 1
  PROVE  \E e \in {<<"l", ".", "l", "l">>, <<".", "l", "l">>} :
           /\ ParseLightningAddress(s \o e).is = "valid"
           /\ i = Len(s) + 1 => e = <<"l", ".", "l", "l">>
<1>1. PICK e \in {<<"l", ".", "l", "l">>, <<".", "l", "l">>} :
         /\ Domain(s \o e, i) = Reads(Len(s \o e) + 1)
         /\ i = Len(s) + 1 => e = <<"l", ".", "l", "l">>
  BY DomainCompletes
<1> DEFINE t == s \o e  h == Len(t) + 1
<1>2. e \in Texts
  BY <1>1, EndingsAreTexts
<1>3. t \in Texts /\ Extends(t, s) /\ Len(t) \in Nat
  BY <1>2, Extended DEF Texts
<1>4. Domain(t, i) = Reads(h)
  BY <1>1
<1> HIDE DEF t
<1>5. /\ Chars(t, 1, Blanks).ok /\ Username(t).ok /\ Separator(t).ok
      /\ HostOf(t) = Reads(h)
  BY <1>3, <1>4 DEF HostFollows, HostOf
<1>6. LightningAddress(t) = Chars(t, h, Blanks)
  BY <1>5, AddressIs, Results
<1>7. Chars(t, h, Blanks).ok /\ Chars(t, h, Blanks).at = h
  <2>1. h \in Positions(t) /\ h \in h..(Len(t) + 1)
    BY <1>3 DEF Positions
  <2>2. Chars(t, h, Blanks).at \in h..h /\ Chars(t, h, Blanks).ok
    <3>1. Chars(t, h, Blanks).at \in h..(Len(t) + 1) /\ Chars(t, h, Blanks).ok
      <4> HIDE DEF h
      <4> QED BY <1>3, <2>1, CharsAt
    <3> QED BY <3>1
  <2> QED
    BY <1>3, <2>2
<1>8. Verdict(t, LightningAddress(t)) = [is |-> "valid", at |-> 0]
  <2>1. h > Len(t)
    BY <1>3
  <2> HIDE DEF h
  <2> QED BY <1>3, <1>6, <1>7, <2>1, AddressReads, VerdictIs
<1> QED
  BY <1>1, <1>8 DEF ParseLightningAddress, t

\* A sequence that is at the end of another is one of its suffixes.
LEMMA SuffixIs ==
  ASSUME NEW S, NEW w \in Seq(S), NEW v \in Seq(S), NEW n \in 0..Len(w), v # <<>>,
         Len(w) = n + Len(v), \A j \in 1..Len(v) : v[j] = w[n + j]
  PROVE  v \in Suffixes(w)
<1> DEFINE m == n + 1  k == Len(w)  x == SubSeq(w, m, k)
<1>1. /\ m \in 1..k /\ k \in Nat /\ (k - m) + 1 = Len(v) /\ m <= k /\ Len(v) \in Nat
      /\ \A i \in m..k : w[i] \in S
  OBVIOUS
<1>2. x \in Seq(S) /\ Len(x) = Len(v) /\ \A i \in 1..Len(v) : x[i] = w[m + (i - 1)]
  <2> HIDE DEF m, k
  <2>1. x \in Seq(S) /\ Len(x) = (k - m) + 1 /\ \A i \in 1..((k - m) + 1) : x[i] = w[m + (i - 1)]
    BY <1>1, SubSeqProperties
  <2> HIDE DEF x
  <2> QED BY <1>1, <2>1
<1>3. \A i \in 1..Len(v) : m + (i - 1) = n + i
  OBVIOUS
<1>4. v = x
  <2> HIDE DEF x, m
  <2> QED BY <1>2, <1>3, SeqEqual
<1> QED
  BY <1>1, <1>4 DEF Suffixes

\* What completes an address is an end of one.
LEMMA EndingsAre ==
  LET w == <<"l", "@", "l", ".", "l", "l">>
  IN  /\ <<"l", ".", "l", "l">> \in Suffixes(w) /\ <<".", "l", "l">> \in Suffixes(w)
      /\ <<"@">> \o <<"l", ".", "l", "l">> \in Suffixes(w)
      /\ <<"l", "@">> \o <<"l", ".", "l", "l">> \in Suffixes(w)
<1> DEFINE S == {"l", "@", "."}
           w == <<"l", "@", "l", ".", "l", "l">>
           y == <<"l", ".", "l", "l">>
<1>1. /\ w \in Seq(S) /\ Len(w) = 6
      /\ w[1] = "l" /\ w[2] = "@" /\ w[3] = "l" /\ w[4] = "." /\ w[5] = "l" /\ w[6] = "l"
  OBVIOUS
<1>2. y \in Seq(S) /\ Len(y) = 4 /\ y[1] = "l" /\ y[2] = "." /\ y[3] = "l" /\ y[4] = "l"
  OBVIOUS
<1>3. ASSUME NEW v \in Seq(S), NEW n \in 0..5, Len(v) = 6 - n, \A j \in 1..Len(v) : v[j] = w[n + j]
      PROVE  v \in Suffixes(w)
  <2> HIDE DEF S, w
  <2>1. v # <<>> /\ n \in 0..Len(w) /\ Len(w) = n + Len(v)
    BY <1>1, <1>3
  <2> QED BY <1>1, <1>3, <2>1, SuffixIs
<1>4. <<".", "l", "l">> \in Suffixes(w)
  <2> DEFINE v == <<".", "l", "l">>
  <2>1. /\ v \in Seq(S) /\ Len(v) = 3 /\ v[1] = "." /\ v[2] = "l" /\ v[3] = "l"
        /\ 3 \in 0..5 /\ 3 = 6 - 3
    OBVIOUS
  <2> HIDE DEF v, w, S
  <2>2. \A j \in 1..Len(v) : v[j] = w[3 + j]
    <3> SUFFICES ASSUME NEW j \in 1..3 PROVE v[j] = w[3 + j]
      BY <2>1
    <3>1. (j = 1 /\ 3 + j = 4) \/ (j = 2 /\ 3 + j = 5) \/ (j = 3 /\ 3 + j = 6)
      OBVIOUS
    <3> QED BY <1>1, <2>1, <3>1
  <2>3. v \in Suffixes(w)
    BY <1>3, <2>1, <2>2
  <2> QED BY <2>3 DEF v
<1>5. y \in Suffixes(w)
  <2> HIDE DEF y, w, S
  <2>1. \A j \in 1..Len(y) : y[j] = w[2 + j]
    <3> SUFFICES ASSUME NEW j \in 1..4 PROVE y[j] = w[2 + j]
      BY <1>2
    <3>1. \/ j = 1 /\ 2 + j = 3
          \/ j = 2 /\ 2 + j = 4
          \/ j = 3 /\ 2 + j = 5
          \/ j = 4 /\ 2 + j = 6
      OBVIOUS
    <3> QED BY <1>1, <1>2, <3>1
  <2>2. 2 \in 0..5 /\ 4 = 6 - 2
    OBVIOUS
  <2> QED BY <1>2, <1>3, <2>1, <2>2
<1>6. <<"@">> \o y \in Suffixes(w)
  <2> DEFINE x == <<"@">>  v == x \o y
  <2>1. x \in Seq(S) /\ Len(x) = 1 /\ x[1] = "@" /\ 1 \in 0..5 /\ 5 = 6 - 1
    OBVIOUS
  <2> HIDE DEF x, y, w, S
  <2>2. v \in Seq(S) /\ Len(v) = 5 /\ \A j \in 1..5 : v[j] = IF j <= 1 THEN x[j] ELSE y[j - 1]
    <3>1. /\ v \in Seq(S) /\ Len(v) = Len(x) + Len(y)
          /\ \A j \in 1..(Len(x) + Len(y)) : v[j] = IF j <= Len(x) THEN x[j] ELSE y[j - Len(x)]
      BY <1>2, <2>1, ConcatProperties
    <3> HIDE DEF v
    <3> QED BY <1>2, <2>1, <3>1
  <2> HIDE DEF v
  <2>3. \A j \in 1..Len(v) : v[j] = w[1 + j]
    <3> SUFFICES ASSUME NEW j \in 1..5 PROVE v[j] = w[1 + j]
      BY <2>2
    <3>1. \/ j = 1 /\ 1 + j = 2 /\ j <= 1
          \/ j = 2 /\ 1 + j = 3 /\ j - 1 = 1 /\ ~(j <= 1)
          \/ j = 3 /\ 1 + j = 4 /\ j - 1 = 2 /\ ~(j <= 1)
          \/ j = 4 /\ 1 + j = 5 /\ j - 1 = 3 /\ ~(j <= 1)
          \/ j = 5 /\ 1 + j = 6 /\ j - 1 = 4 /\ ~(j <= 1)
      OBVIOUS
    <3>2. v[j] = IF j <= 1 THEN x[j] ELSE y[j - 1]
      BY <2>2
    <3> QED BY <1>1, <1>2, <2>1, <3>1, <3>2
  <2>4. v \in Suffixes(w)
    BY <1>3, <2>1, <2>2, <2>3
  <2> QED BY <2>4 DEF v, x
<1>7. <<"l", "@">> \o y \in Suffixes(w)
  <2> DEFINE x == <<"l", "@">>  v == x \o y
  <2>1. x \in Seq(S) /\ Len(x) = 2 /\ x[1] = "l" /\ x[2] = "@" /\ 0 \in 0..5 /\ 6 = 6 - 0
    OBVIOUS
  <2> HIDE DEF x, y, w, S
  <2>2. v \in Seq(S) /\ Len(v) = 6 /\ \A j \in 1..6 : v[j] = IF j <= 2 THEN x[j] ELSE y[j - 2]
    <3>1. /\ v \in Seq(S) /\ Len(v) = Len(x) + Len(y)
          /\ \A j \in 1..(Len(x) + Len(y)) : v[j] = IF j <= Len(x) THEN x[j] ELSE y[j - Len(x)]
      BY <1>2, <2>1, ConcatProperties
    <3> HIDE DEF v
    <3> QED BY <1>2, <2>1, <3>1
  <2> HIDE DEF v
  <2>3. \A j \in 1..Len(v) : v[j] = w[0 + j]
    <3> SUFFICES ASSUME NEW j \in 1..6 PROVE v[j] = w[0 + j]
      BY <2>2
    <3>1. \/ j = 1 /\ 0 + j = 1 /\ j <= 2
          \/ j = 2 /\ 0 + j = 2 /\ j <= 2
          \/ j = 3 /\ 0 + j = 3 /\ j - 2 = 1 /\ ~(j <= 2)
          \/ j = 4 /\ 0 + j = 4 /\ j - 2 = 2 /\ ~(j <= 2)
          \/ j = 5 /\ 0 + j = 5 /\ j - 2 = 3 /\ ~(j <= 2)
          \/ j = 6 /\ 0 + j = 6 /\ j - 2 = 4 /\ ~(j <= 2)
      OBVIOUS
    <3>2. v[j] = IF j <= 2 THEN x[j] ELSE y[j - 2]
      BY <2>2
    <3> QED BY <1>1, <1>2, <2>1, <3>1, <3>2
  <2>4. v \in Suffixes(w)
    BY <1>3, <2>1, <2>2, <2>3
  <2> QED BY <2>4 DEF v, x
<1> QED
  BY <1>4, <1>5, <1>6, <1>7

\* The blanks and the user name of an address are read the same in whatever extends it.
LEMMA HostFollowsSeparator ==
  ASSUME NEW s \in Texts, Username(s).ok, Separator(s).ok
  PROVE  HostFollows(s, Separator(s).at)
<1> DEFINE b == Chars(s, 1, Blanks).at  u == Username(s).at
<1>0. Len(s) \in Nat /\ 1 \in Positions(s)
  BY DEF Texts, Positions
<1>1. /\ b \in Positions(s) /\ u \in (b + 1)..(Len(s) + 1)
      /\ Is(s, u, {"@"}) /\ Separator(s).at = u + 1 /\ ~(Username(s) = Fails(b))
  BY AddressAt, Results
<1>2. u \in 1..Len(s) /\ b \in 1..u /\ b \in 1..Len(s) /\ u \in b..Len(s) /\ u \in Positions(s)
  <2>1. u \in DOMAIN s
    BY <1>1 DEF Is
  <2> HIDE DEF b, u
  <2> QED
    BY <1>0, <1>1, <2>1 DEF Positions, Texts
<1> SUFFICES ASSUME NEW t \in Texts, Extends(t, s)
             PROVE  /\ Chars(t, 1, Blanks).ok /\ Username(t).ok /\ Separator(t).ok
                    /\ Separator(t).at = u + 1
  BY <1>1 DEF HostFollows
<1>3. Chars(t, 1, Blanks) = Chars(s, 1, Blanks)
  <2>1. Alike(s, t, 0, 1, b) /\ 1 \in Positions(t)
    <3> HIDE DEF b
    <3> QED BY <1>0, <1>2, ExtendsAlike
  <2> QED
    BY <1>0, <2>1, Stays
<1>4. Username(t) = Username(s)
  <2>1. Alike(s, t, 0, b, u) /\ b \in Positions(t)
    <3> HIDE DEF b, u
    <3> QED BY <1>1, <1>2, ExtendsAlike
  <2>2. Chars1(t, b, UsernameChars) = Chars1(s, b, UsernameChars)
    <3>1. u = Chars1(s, b, UsernameChars).at
      BY DEF Username
    <3> HIDE DEF b, u
    <3> QED BY <1>1, <2>1, <3>1, Stays
  <2> QED
    BY <1>3, <2>2 DEF Username
<1>5. Separator(t) = Reads(u + 1)
  <2>1. Is(t, u, {"@"})
    <3> HIDE DEF u
    <3> QED BY <1>1, <1>2, ExtendsIs
  <2> QED
    BY <1>4, <2>1 DEF Separator, Char
<1>6. Chars(t, 1, Blanks).ok
  BY Results DEF Chars
<1> QED
  BY <1>4, <1>5, <1>6, Results

\* A user name may be ended by the separator.
LEMMA HostFollowsUsername ==
  ASSUME NEW s \in Texts, Username(s).ok, Username(s).at = Len(s) + 1
  PROVE  HostFollows(s \o <<"@">>, Len(s) + 2)
<1> DEFINE b == Chars(s, 1, Blanks).at  p == s \o <<"@">>
<1>0. Len(s) \in Nat /\ 1 \in Positions(s)
  BY DEF Texts, Positions
<1>1. p \in Texts /\ Len(p) = Len(s) + 1 /\ Extends(p, s) /\ p[Len(s) + 1] = "@"
  <2> DEFINE e == <<"@">>
  <2>1. e \in Texts /\ Len(e) = 1 /\ e[1] = "@" /\ 1 \in 1..Len(e)
    BY EndingsAreTexts
  <2> HIDE DEF e
  <2>2. /\ s \o e \in Texts /\ Len(s \o e) = Len(s) + Len(e) /\ Extends(s \o e, s)
        /\ \A j \in 1..Len(e) : (s \o e)[Len(s) + j] = e[j]
    BY <2>1, Extended
  <2>3. s \o e \in Texts /\ Len(s \o e) = Len(s) + 1 /\ Extends(s \o e, s) /\ (s \o e)[Len(s) + 1] = "@"
    BY <2>1, <2>2
  <2> QED
    BY <2>3 DEF e
<1>2. b \in Positions(s) /\ b \in 1..Len(s)
  <2>1. b \in Positions(s) /\ Len(s) + 1 \in (b + 1)..(Len(s) + 1)
    BY AddressAt, Results
  <2> HIDE DEF b
  <2> QED
    BY <1>0, <2>1 DEF Positions
<1>3. RunEnd(s, b, UsernameChars) = Len(s) + 1 /\ Is(s, b, UsernameChars)
  <2> HIDE DEF b
  <2>1. Username(s) = Chars1(s, b, UsernameChars)
    BY DEF Username, b
  <2> QED
    BY <2>1, Results DEF Chars1, Chars
<1>4. \A j \in b..Len(s) : Is(s, j, UsernameChars)
  <2> HIDE DEF b
  <2>1. \A j \in b..(RunEnd(s, b, UsernameChars) - 1) : Is(s, j, UsernameChars)
    BY <1>2, RunEnds
  <2>2. RunEnd(s, b, UsernameChars) - 1 = Len(s)
    BY <1>0, <1>3
  <2> QED
    BY <2>1, <2>2
<1> HIDE DEF p
<1> SUFFICES ASSUME NEW t \in Texts, Extends(t, p)
             PROVE  /\ Chars(t, 1, Blanks).ok /\ Username(t).ok /\ Separator(t).ok
                    /\ Separator(t).at = Len(s) + 2
  BY DEF HostFollows, p
<1>5. Extends(t, s) /\ t[Len(s) + 1] = "@" /\ Len(s) + 1 <= Len(t) /\ Len(t) \in Nat
  BY <1>0, <1>1 DEF Extends, Texts
<1>6. Chars(t, 1, Blanks) = Chars(s, 1, Blanks)
  <2>1. Alike(s, t, 0, 1, b) /\ 1 \in Positions(t)
    <3> HIDE DEF b
    <3> QED BY <1>0, <1>2, <1>5, ExtendsAlike
  <2> QED
    BY <1>0, <2>1, Stays
<1>7. Username(t) = Reads(Len(s) + 1)
  <2> DEFINE e == Len(s) + 1
  <2>1. e \in (Len(s) + 1)..(Len(t) + 1) /\ (\A j \in (Len(s) + 1)..(e - 1) : FALSE) /\ ~Is(t, e, UsernameChars)
    BY <1>0, <1>5 DEF Is, UsernameChars, Alphanumeric, Letters, Digits
  <2>2. RunEnd(t, b, UsernameChars) = e
    <3> HIDE DEF b, e
    <3> QED BY <1>2, <1>4, <1>5, <2>1, RunGoesOn
  <2>3. Is(t, b, UsernameChars)
    <3> HIDE DEF b
    <3> QED BY <1>2, <1>3, <1>5, ExtendsIs
  <2> QED
    BY <1>6, <2>2, <2>3 DEF Username, Chars1, Chars
<1>8. Separator(t) = Reads((Len(s) + 1) + 1)
  <2>1. Is(t, Len(s) + 1, {"@"})
    BY <1>0, <1>5 DEF Is, Texts
  <2> QED
    BY <1>7, <2>1, Results DEF Separator, Char
<1>9. Chars(t, 1, Blanks).ok /\ (Len(s) + 1) + 1 = Len(s) + 2
  BY <1>0, Results DEF Chars
<1> QED
  BY <1>7, <1>8, <1>9, Results

\* After blanks a user name may begin.
LEMMA HostFollowsBlanks ==
  ASSUME NEW s \in Texts, Chars(s, 1, Blanks).at = Len(s) + 1
  PROVE  HostFollows(s \o <<"l", "@">>, Len(s) + 3)
<1> DEFINE p == s \o <<"l", "@">>
<1>0. Len(s) \in Nat /\ 1 \in Positions(s)
  BY DEF Texts, Positions
<1>1. p \in Texts /\ Len(p) = Len(s) + 2 /\ Extends(p, s) /\ p[Len(s) + 1] = "l" /\ p[Len(s) + 2] = "@"
  <2> DEFINE e == <<"l", "@">>
  <2>1. e \in Texts /\ Len(e) = 2 /\ e[1] = "l" /\ e[2] = "@" /\ 1 \in 1..Len(e) /\ 2 \in 1..Len(e)
    BY EndingsAreTexts
  <2> HIDE DEF e
  <2>2. s \o e \in Texts /\ Len(s \o e) = Len(s) + 2 /\ Extends(s \o e, s)
        /\ (s \o e)[Len(s) + 1] = "l" /\ (s \o e)[Len(s) + 2] = "@"
    BY <2>1, Extended
  <2> QED
    BY <2>2 DEF e
<1>2. \A j \in 1..Len(s) : Is(s, j, Blanks)
  <2>1. \A j \in 1..(Chars(s, 1, Blanks).at - 1) : Is(s, j, Blanks)
    BY <1>0, CharsAt
  <2>2. (Len(s) + 1) - 1 = Len(s)
    BY <1>0
  <2> QED
    BY <2>1, <2>2
<1> HIDE DEF p
<1> SUFFICES ASSUME NEW t \in Texts, Extends(t, p)
             PROVE  /\ Chars(t, 1, Blanks).ok /\ Username(t).ok /\ Separator(t).ok
                    /\ Separator(t).at = Len(s) + 3
  BY DEF HostFollows, p
<1>3. /\ Extends(t, s) /\ t[Len(s) + 1] = "l" /\ t[Len(s) + 2] = "@"
      /\ Len(s) + 2 <= Len(t) /\ Len(t) \in Nat
  BY <1>0, <1>1 DEF Extends, Texts
<1> DEFINE b == Len(s) + 1  u == Len(s) + 2
<1>4. /\ b \in 1..Len(t) /\ u \in 1..Len(t) /\ u = b + 1 /\ b \in Positions(t)
      /\ ~Is(t, b, Blanks) /\ Is(t, b, UsernameChars) /\ ~Is(t, u, UsernameChars) /\ Is(t, u, {"@"})
  <2>1. /\ b \in 1..Len(t) /\ u \in 1..Len(t) /\ u = b + 1 /\ b \in Positions(t)
        /\ b \in DOMAIN t /\ u \in DOMAIN t /\ t[b] = "l" /\ t[u] = "@"
    BY <1>0, <1>3 DEF Positions, Texts
  <2> HIDE DEF b, u
  <2> QED
    BY <2>1 DEF Is, Blanks, UsernameChars, Alphanumeric, Letters, Digits
<1>5. Chars(t, 1, Blanks) = Reads(b)
  <2>1. b \in (Len(s) + 1)..(Len(t) + 1) /\ (\A j \in (Len(s) + 1)..(b - 1) : FALSE)
    BY <1>0, <1>3
  <2>2. RunEnd(t, 1, Blanks) = b
    <3> HIDE DEF b
    <3> QED BY <1>0, <1>2, <1>3, <1>4, <2>1, RunGoesOn
  <2> QED
    BY <2>2 DEF Chars
<1>6. Username(t) = Reads(u)
  <2>1. u \in b..(Len(t) + 1) /\ \A j \in b..(u - 1) : j = b
    BY <1>0, <1>3
  <2>2. RunEnd(t, b, UsernameChars) = u
    <3> HIDE DEF b, u
    <3> QED BY <1>4, <2>1, RunEndIs
  <2> HIDE DEF b, u
  <2> QED
    BY <1>4, <1>5, <2>2, Results DEF Username, Chars1, Chars
<1>7. Separator(t) = Reads(u + 1)
  <2> HIDE DEF b, u
  <2> QED
    BY <1>4, <1>6, Results DEF Separator, Char
<1>8. u + 1 = Len(s) + 3
  BY <1>0
<1> HIDE DEF b, u
<1> QED
  BY <1>5, <1>6, <1>7, <1>8, Results

\* An incomplete address can become one, wherever it ends.
LEMMA AddressCanBecomeValid ==
  ASSUME NEW s \in Texts, ParseLightningAddress(s).is = "incomplete"
  PROVE  \E e \in Suffixes(<<"l", "@", "l", ".", "l", "l">>) :
           ParseLightningAddress(s \o e).is = "valid"
<1> DEFINE r == LightningAddress(s)
           ends == {<<"l", ".", "l", "l">>, <<".", "l", "l">>}
<1>0. Len(s) \in Nat
  BY DEF Texts
<1>1. ~r.ok /\ r.at = Len(s) + 1
  <2>1. Outcome(r, 1, s) /\ Verdict(s, r).is = "incomplete"
    BY AddressReads DEF ParseLightningAddress
  <2>2. ~r.ok /\ r.at > Len(s) /\ r.at \in 1..(Len(s) + 1)
    <3> HIDE DEF r
    <3> QED BY <2>1, VerdictIs DEF Incomplete
  <2> HIDE DEF r
  <2> QED
    BY <1>0, <2>2
\* An empty domain may follow what comes before it.
<1>2. ASSUME NEW p \in Texts, HostFollows(s \o p, Len(s \o p) + 1)
      PROVE  ParseLightningAddress((s \o p) \o <<"l", ".", "l", "l">>).is = "valid"
  <2> DEFINE q == s \o p  i == Len(q) + 1
  <2>1. q \in Texts /\ i \in Positions(q)
    <3>1. q \in Texts
      BY <1>2, Extended
    <3> HIDE DEF q
    <3> QED BY <3>1 DEF Positions, Texts
  <2>2. Domain(q, i) = Fails(i)
    <3> HIDE DEF q, i
    <3>1. Len(q) + 1 = i /\ Len(q) \in Nat
      BY <2>1 DEF i, Texts
    <3>2. Domain(q, i).at = i /\ ~Domain(q, i).ok /\ Outcome(Domain(q, i), i, q)
      <4>1. /\ Outcome(Domain(q, i), i, q)
            /\ Domain(q, i).ok => Domain(q, i).at > i
        BY <2>1, DomainAt
      <4> QED
        BY <3>1, <4>1 DEF Outcome
    <3> QED
      BY <3>2 DEF Outcome
  <2>3. PICK e \in ends : ParseLightningAddress(q \o e).is = "valid" /\ (i = Len(q) + 1 => e = <<"l", ".", "l", "l">>)
    <3>1. ~Domain(q, i).ok /\ Domain(q, i).at = Len(q) + 1 /\ HostFollows(q, i)
      BY <1>2, <2>2, Results
    <3> HIDE DEF q, i
    <3> QED BY <2>1, <3>1, AddressCompletes
  <2> QED
    BY <2>3
<1>3. ASSUME NEW p \in Texts, NEW e \in Texts
      PROVE  (s \o p) \o e = s \o (p \o e)
  BY ConcatAssociative DEF Texts
<1>4. CASE r = Fails(Chars(s, 1, Blanks).at)
  <2>1. Chars(s, 1, Blanks).at = Len(s) + 1
    BY <1>1, <1>4, Results
  <2> DEFINE p == <<"l", "@">>
  <2>2. HostFollows(s \o p, Len(s) + 3)
    BY <2>1, HostFollowsBlanks
  <2>3. p \in Texts /\ Len(p) = 2
    BY EndingsAreTexts
  <2>4. Len(s \o p) + 1 = Len(s) + 3
    <3>1. Len(s \o p) = Len(s) + Len(p)
      <4> HIDE DEF p
      <4> QED BY <2>3, Extended
    <3> HIDE DEF p
    <3> QED BY <1>0, <2>3, <3>1
  <2>5. ParseLightningAddress((s \o p) \o <<"l", ".", "l", "l">>).is = "valid"
    <3> HIDE DEF p
    <3> QED BY <1>2, <2>2, <2>3, <2>4
  <2>6. ParseLightningAddress(s \o (p \o <<"l", ".", "l", "l">>)).is = "valid"
    <3> HIDE DEF p
    <3> QED BY <1>3, <2>3, <2>5, EndingsAreTexts
  <2> QED
    BY <2>6, EndingsAre
<1>5. CASE Username(s).ok /\ r = Fails(Username(s).at)
  <2>1. Username(s).at = Len(s) + 1
    BY <1>1, <1>5, Results
  <2> DEFINE p == <<"@">>
  <2>2. HostFollows(s \o p, Len(s) + 2)
    BY <1>5, <2>1, HostFollowsUsername
  <2>3. p \in Texts /\ Len(p) = 1
    BY EndingsAreTexts
  <2>4. Len(s \o p) + 1 = Len(s) + 2
    <3>1. Len(s \o p) = Len(s) + Len(p)
      <4> HIDE DEF p
      <4> QED BY <2>3, Extended
    <3> HIDE DEF p
    <3> QED BY <1>0, <2>3, <3>1
  <2>5. ParseLightningAddress((s \o p) \o <<"l", ".", "l", "l">>).is = "valid"
    <3> HIDE DEF p
    <3> QED BY <1>2, <2>2, <2>3, <2>4
  <2>6. ParseLightningAddress(s \o (p \o <<"l", ".", "l", "l">>)).is = "valid"
    <3> HIDE DEF p
    <3> QED BY <1>3, <2>3, <2>5, EndingsAreTexts
  <2> QED
    BY <2>6, EndingsAre
<1>6. CASE /\ Username(s).ok /\ Separator(s).ok /\ Separator(s).at \in Positions(s)
           /\ ~HostOf(s).ok /\ r = HostOf(s)
  <2> DEFINE i == Separator(s).at
  <2>1. HostFollows(s, i) /\ i \in Positions(s) /\ ~Domain(s, i).ok /\ Domain(s, i).at = Len(s) + 1
    BY <1>1, <1>6, HostFollowsSeparator DEF HostOf
  <2>2. \E e \in ends : ParseLightningAddress(s \o e).is = "valid"
    <3> HIDE DEF i
    <3> QED BY <2>1, AddressCompletes
  <2> QED
    BY <2>2, EndingsAre
<1> QED
  BY <1>1, <1>4, <1>5, <1>6, AddressAt

-----------------------------------------------------------------------------
(* Numbers that are incomplete                                               *)

\* A text that is read as a number to its end, with the plus at b.
NumberText(s, b) ==
  /\ b \in 1..Len(s)
  /\ s[b] = "+"
  /\ \A j \in 1..(b - 1) : s[j] \in Blanks
  /\ \A j \in (b + 1)..Len(s) : s[j] \in DigitsAndSymbols

\* Such a text is read to its end, and no other is but one of blanks.
LEMMA NumberTextIsRead ==
  ASSUME NEW s \in Texts, NEW b, NumberText(s, b)
  PROVE  PhoneNumber(s) = Reads(Len(s) + 1)
<1> DEFINE n == Len(s) + 1  k == b + 1
<1>0. /\ Len(s) \in Nat /\ 1 \in Positions(s) /\ b \in 1..Len(s) /\ b \in 1..(Len(s) + 1)
      /\ n \in k..(Len(s) + 1) /\ k \in Positions(s) /\ DOMAIN s = 1..Len(s)
  BY DEF Texts, Positions, NumberText
<1>1. /\ \A j \in 1..(b - 1) : Is(s, j, Blanks)
      /\ \A j \in k..(n - 1) : Is(s, j, DigitsAndSymbols)
  BY <1>0 DEF Is, NumberText
<1>2. Is(s, b, {"+"}) /\ ~Is(s, b, Blanks) /\ ~Is(s, n, DigitsAndSymbols)
  <2>1. s[b] = "+" /\ n \notin DOMAIN s /\ b \in DOMAIN s
    BY <1>0 DEF NumberText
  <2> HIDE DEF n
  <2> QED BY <2>1 DEF Is, Blanks
<1>3. RunEnd(s, 1, Blanks) = b
  BY <1>0, <1>1, <1>2, RunEndIs
<1>4. RunEnd(s, k, DigitsAndSymbols) = n
  <2> HIDE DEF k, n
  <2> QED BY <1>0, <1>1, <1>2, RunEndIs
<1>5. Chars(s, 1, Blanks).at = b
  BY <1>3, Results DEF Chars
<1> QED
  BY <1>2, <1>4, <1>5, NumberAt

LEMMA ReadIsNumberText ==
  ASSUME NEW s \in Texts, PhoneNumber(s).at = Len(s) + 1
  PROVE  \/ PhoneNumber(s).ok /\ \E b \in 1..Len(s) : NumberText(s, b)
         \/ ~PhoneNumber(s).ok /\ \A j \in 1..Len(s) : s[j] \in Blanks
<1> DEFINE b == Chars(s, 1, Blanks).at  k == b + 1
<1>0. Len(s) \in Nat /\ DOMAIN s = 1..Len(s)
  BY DEF Texts
<1>1. b \in Positions(s) /\ \A j \in 1..(b - 1) : Is(s, j, Blanks)
  BY NumberAt
<1>2. CASE PhoneNumber(s) = Fails(b)
  <2>1. b = Len(s) + 1 /\ ~PhoneNumber(s).ok
    BY <1>2, Results
  <2>2. (Len(s) + 1) - 1 = Len(s)
    BY <1>0
  <2> QED
    BY <1>1, <2>1, <2>2 DEF Is
<1>3. CASE /\ Is(s, b, {"+"}) /\ k \in Positions(s)
           /\ PhoneNumber(s) = Reads(RunEnd(s, k, DigitsAndSymbols))
  <2>1. RunEnd(s, k, DigitsAndSymbols) = Len(s) + 1 /\ PhoneNumber(s).ok
    BY <1>3, Results
  <2>2. \A j \in k..Len(s) : Is(s, j, DigitsAndSymbols)
    <3>1. \A j \in k..(RunEnd(s, k, DigitsAndSymbols) - 1) : Is(s, j, DigitsAndSymbols)
      <4> HIDE DEF k
      <4> QED BY <1>3, RunEnds
    <3>2. (Len(s) + 1) - 1 = Len(s)
      BY <1>0
    <3> QED
      BY <2>1, <3>1, <3>2
  <2>3. NumberText(s, b) /\ b \in 1..Len(s)
    BY <1>0, <1>1, <1>3, <2>2 DEF NumberText, Is
  <2> QED
    BY <2>1, <2>3
<1> QED
  BY <1>2, <1>3, NumberAt

\* q is d and after it the first n of x.
Spells(q, d, x, n) ==
  /\ q \in Seq(Digits)
  /\ Len(q) = Len(d) + n
  /\ \A j \in 1..Len(d) : q[j] = d[j]
  /\ \A j \in 1..n : q[Len(d) + j] = x[j]

\* One digit more.
LEMMA SpellsMore ==
  ASSUME NEW d \in Seq(Digits), NEW x \in Seq(Digits), NEW a, NEW p \in 0..Len(x),
         NEW n \in 1..Len(x), n = p + 1, Spells(a, d, x, p)
  PROVE  Spells(Append(a, x[n]), d, x, n)
<1> DEFINE c == x[n]  q == Append(a, c)
<1>0. Len(d) \in Nat /\ Len(x) \in Nat /\ a \in Seq(Digits) /\ Len(a) = Len(d) + p /\ c \in Digits
  BY DEF Spells
<1> HIDE DEF c
<1>1. /\ q \in Seq(Digits) /\ Len(q) = Len(d) + n
      /\ \A j \in 1..Len(a) : q[j] = a[j]
      /\ q[Len(d) + n] = c
  BY <1>0
<1> HIDE DEF q
<1>2. \A j \in 1..Len(d) : q[j] = d[j]
  BY <1>0, <1>1 DEF Spells
<1>3. \A j \in 1..n : q[Len(d) + j] = x[j]
  <2> TAKE j \in 1..n
  <2>1. CASE j = n
    BY <1>1, <2>1 DEF c
  <2>2. CASE j # n
    <3> DEFINE m == Len(d) + j
    <3>1. j \in 1..p /\ m \in 1..Len(a)
      BY <1>0, <2>2
    <3>2. a[m] = x[j]
      BY <3>1 DEF Spells
    <3>3. q[m] = a[m]
      <4> HIDE DEF m
      <4> QED BY <1>1, <3>1
    <3> QED BY <3>2, <3>3
  <2> QED BY <2>1, <2>2
<1> QED
  BY <1>1, <1>2, <1>3 DEF Spells, q, c

\* Digits that are typed are digits of the number.
LEMMA DigitsAppended ==
  ASSUME NEW s \in Texts, NEW x \in Seq(Digits)
  PROVE  /\ s \o x \in Texts /\ Len(s \o x) = Len(s) + Len(x)
         /\ DigitsAmong(s \o x, Len(s \o x)) = DigitsAmong(s, Len(s)) \o x
<1> DEFINE t == s \o x
           d == DigitsAmong(s, Len(s))
           Bad == {n \in 0..Len(x) : ~Spells(DigitsAmong(t, Len(s) + n), d, x, n)}
<1>0. Len(s) \in Nat /\ Len(x) \in Nat
  BY DEF Texts
<1>1. x \in Texts
  <2>1. Digits \subseteq Characters
    BY DEF Characters, UsernameChars, Alphanumeric
  <2> QED BY <2>1, SeqMonotonic DEF Texts
<1>2. /\ t \in Texts /\ Len(t) = Len(s) + Len(x)
      /\ \A j \in 1..Len(s) : t[j] = s[j]
      /\ \A j \in 1..Len(x) : t[Len(s) + j] = x[j]
  BY <1>1, Extended DEF Extends
<1>3. d \in Seq(Digits)
  BY <1>0, DigitsType
<1> HIDE DEF t
<1>4. DigitsAmong(t, Len(s)) = d
  BY <1>0, <1>2, DigitsAgree
<1> HIDE DEF d
<1>5. Bad = {}
  <2> SUFFICES ASSUME Bad # {} PROVE FALSE
    OBVIOUS
  <2>1. PICK n \in Bad : \A m \in Bad : n <= m
    <3>1. Bad \subseteq Nat
      OBVIOUS
    <3> HIDE DEF Bad
    <3> QED BY <3>1, Least
  <2>2. n \in 0..Len(x) /\ ~Spells(DigitsAmong(t, Len(s) + n), d, x, n)
    OBVIOUS
  <2>3. n # 0
    <3>1. Len(s) + 0 = Len(s) /\ Len(d) + 0 = Len(d)
      BY <1>0, <1>3
    <3>2. Spells(d, d, x, 0)
      BY <1>3, <3>1 DEF Spells
    <3> QED
      BY <1>4, <2>2, <3>1, <3>2
  <2> DEFINE p == n - 1  l == Len(s) + n
  <2>4. p \in 0..Len(x) /\ ~(n <= p) /\ n = p + 1 /\ l \in 1..Len(t) /\ l - 1 = Len(s) + p /\ n \in 1..Len(x)
    BY <1>0, <1>2, <2>2, <2>3
  <2>5. Spells(DigitsAmong(t, Len(s) + p), d, x, p)
    <3>1. p \notin Bad
      <4> HIDE DEF Bad, p
      <4> QED BY <2>1, <2>4
    <3> QED BY <2>4, <3>1
  <2>6. t[l] = x[n] /\ x[n] \in Digits
    BY <1>2, <2>4
  <2>7. DigitsAmong(t, l) = Append(DigitsAmong(t, Len(s) + p), x[n])
    <3> HIDE DEF l, p
    <3> QED BY <1>2, <2>4, <2>6, DigitsAre
  <2>8. Spells(Append(DigitsAmong(t, Len(s) + p), x[n]), d, x, n)
    <3> DEFINE a == DigitsAmong(t, Len(s) + p)
    <3>1. Spells(a, d, x, p)
      BY <2>5
    <3>2. Spells(Append(a, x[n]), d, x, n)
      <4> HIDE DEF a, p, l, Bad
      <4> QED BY <1>3, <2>4, <3>1, SpellsMore
    <3> QED BY <3>2
  <2> QED
    BY <2>2, <2>7, <2>8
<1>6. Spells(DigitsAmong(t, Len(t)), d, x, Len(x))
  <2>1. Len(x) \in 0..Len(x)
    BY <1>0
  <2> QED BY <1>2, <1>5, <2>1
<1>7. DigitsAmong(t, Len(t)) = d \o x
  <2> DEFINE q == DigitsAmong(t, Len(t))
  <2>1. Spells(q, d, x, Len(x))
    BY <1>6
  <2>2. /\ d \o x \in Seq(Digits) /\ Len(d \o x) = Len(d) + Len(x)
        /\ \A j \in 1..(Len(d) + Len(x)) : (d \o x)[j] = IF j <= Len(d) THEN d[j] ELSE x[j - Len(d)]
    BY <1>3, ConcatProperties
  <2> HIDE DEF q
  <2>3. \A j \in 1..Len(q) : q[j] = (d \o x)[j]
    <3> TAKE j \in 1..Len(q)
    <3>1. j \in 1..(Len(d) + Len(x)) /\ Len(d) \in Nat
      BY <1>3, <2>1 DEF Spells
    <3>2. CASE j <= Len(d)
      BY <2>1, <2>2, <3>1, <3>2 DEF Spells
    <3>3. CASE ~(j <= Len(d))
      <4> DEFINE m == j - Len(d)
      <4>1. m \in 1..Len(x) /\ Len(d) + m = j
        BY <1>0, <3>1, <3>3
      <4> HIDE DEF m
      <4>2. q[j] = x[m]
        BY <2>1, <4>1 DEF Spells
      <4> QED
        BY <2>2, <3>1, <3>3, <4>2 DEF m
    <3> QED BY <3>2, <3>3
  <2>4. q = d \o x
    BY <2>1, <2>2, <2>3, SeqEqual DEF Spells
  <2> QED
    BY <2>4 DEF q
<1> QED
  BY <1>2, <1>7 DEF d, t

LEMMA DigitsAreCharacters == Digits \subseteq Characters /\ Digits \subseteq DigitsAndSymbols
BY DEF Characters, UsernameChars, Alphanumeric, DigitsAndSymbols

\* Where no digit is there are none among the characters.
LEMMA NoDigits ==
  ASSUME NEW s \in Texts, NEW n \in 0..Len(s), \A j \in 1..n : s[j] \notin Digits
  PROVE  \A m \in 0..n : DigitsAmong(s, m) = <<>>
<1> DEFINE Bad == {m \in 0..n : DigitsAmong(s, m) # <<>>}
<1>0. Len(s) \in Nat
  BY DEF Texts
<1>1. Bad = {}
  <2> SUFFICES ASSUME Bad # {} PROVE FALSE
    OBVIOUS
  <2>1. PICK m \in Bad : \A x \in Bad : m <= x
    <3>1. Bad \subseteq Nat
      OBVIOUS
    <3> HIDE DEF Bad
    <3> QED BY <3>1, Least
  <2>2. m \in 0..n /\ DigitsAmong(s, m) # <<>>
    OBVIOUS
  <2>3. m # 0
    BY <2>2, DigitsAre
  <2>4. m - 1 \in 0..n /\ ~(m <= m - 1) /\ m \in 1..Len(s) /\ m \in 1..n
    BY <1>0, <2>2, <2>3
  <2>5. m - 1 \notin Bad
    <3> HIDE DEF Bad
    <3> QED BY <2>1, <2>4
  <2>6. DigitsAmong(s, m - 1) = <<>> /\ s[m] \notin Digits
    BY <2>4, <2>5
  <2> QED
    BY <2>2, <2>4, <2>6, DigitsAre
<1> QED
  BY <1>1

\* A number may be typed on until it has a code that its digits are the beginning of.
LEMMA CodeCompletes ==
  ASSUME NEW s \in Texts, NEW b, NumberText(s, b), NEW c \in AllowedCodes,
         IsPrefix(DigitsAmong(s, Len(s)), c)
  PROVE  \E x \in Suffixes(c) : /\ x \in Seq(Digits) /\ DigitsAmong(s, Len(s)) \o x = c
                                /\ PrefixVerdict(s \o x).is = "valid"
<1> DEFINE d == DigitsAmong(s, Len(s))
           k == Len(d)
           x == SubSeq(c, k + 1, Len(c))
           t == s \o x
<1>0. Len(s) \in Nat /\ c \in Seq(Digits) /\ c # <<>> /\ d \in Seq(Digits)
  <2>1. Len(s) \in Nat
    BY DEF Texts
  <2>2. d \in Seq(Digits)
    BY <2>1, DigitsType
  <2> QED BY <2>1, <2>2, PhoneNumbersAssumption DEF AllowedCodes
<1>1. k \in 0..Len(c) /\ Len(c) \in Nat /\ SubSeq(c, 1, k) = d
  <2> HIDE DEF d
  <2>1. SubSeq(d, 1, Len(d)) = d /\ Len(d) \in Nat /\ Len(c) \in Nat
    BY <1>0, SubSeqFull
  <2>2. Len(d) <= Len(c) /\ SubSeq(d, 1, Len(d)) = SubSeq(c, 1, Len(d))
    BY DEF IsPrefix, d
  <2> QED BY <2>1, <2>2
<1>2. x \in Seq(Digits) /\ x \in Suffixes(c)
  <2> HIDE DEF k
  <2>1. CASE k + 1 <= Len(c)
    <3>1. k + 1 \in 1..Len(c)
      BY <1>1, <2>1
    <3>2. x \in Suffixes(c)
      BY <3>1 DEF Suffixes
    <3>3. x \in Seq(Digits)
      <4> DEFINE m == k + 1
      <4>1. m \in Int /\ \A j \in m..Len(c) : c[j] \in Digits
        BY <1>0, <1>1
      <4>2. SubSeq(c, m, Len(c)) \in Seq(Digits)
        <5> HIDE DEF m
        <5> QED BY <1>1, <4>1, SubSeqProperties
      <4> QED BY <4>2
    <3> QED BY <3>2, <3>3
  <2>2. CASE ~(k + 1 <= Len(c))
    <3> DEFINE m == k + 1
    <3>1. m \in Int /\ Len(c) < m
      BY <1>1, <2>2
    <3>2. SubSeq(c, m, Len(c)) = <<>>
      <4> HIDE DEF m
      <4> QED BY <1>1, <3>1, SubSeqEmpty
    <3>3. x = <<>>
      BY <3>2
    <3> HIDE DEF x
    <3> QED BY <3>3 DEF Suffixes
  <2> QED BY <2>1, <2>2
<1>3. d \o x = c
  <2>1. SubSeq(c, 1, k) \o SubSeq(c, k + 1, Len(c)) = SubSeq(c, 1, Len(c))
    <3> HIDE DEF k
    <3>1. 1 \in 1..(Len(c) + 1) /\ k \in (1 - 1)..Len(c) /\ Len(c) \in k..Len(c)
      BY <1>1
    <3> QED BY <1>0, <3>1, ConcatAdjacentSubSeq
  <2>2. SubSeq(c, 1, Len(c)) = c
    BY <1>0, SubSeqFull
  <2> QED
    BY <1>1, <2>1, <2>2
<1> HIDE DEF x
<1>4. t \in Texts /\ Len(t) = Len(s) + Len(x) /\ DigitsAmong(t, Len(t)) = c
  BY <1>2, <1>3, DigitsAppended
<1>5. NumberText(t, b)
  <2>1. x \in Texts
    BY <1>2, DigitsAreCharacters, SeqMonotonic DEF Texts
  <2>2. /\ \A j \in 1..Len(s) : t[j] = s[j]
        /\ \A j \in 1..Len(x) : t[Len(s) + j] = x[j]
    BY <2>1, Extended DEF Extends
  <2> HIDE DEF t
  <2>3. b \in 1..Len(t) /\ t[b] = "+" /\ \A j \in 1..(b - 1) : t[j] \in Blanks
    <3>1. b \in 1..Len(s) /\ \A j \in 1..(b - 1) : j \in 1..Len(s)
      BY <1>0 DEF NumberText
    <3>2. Len(x) \in Nat
      BY <1>2
    <3>3. t[b] = "+" /\ \A j \in 1..(b - 1) : t[j] \in Blanks
      BY <2>2, <3>1 DEF NumberText
    <3> QED BY <1>0, <1>4, <3>1, <3>2, <3>3
  <2>4. \A j \in (b + 1)..Len(t) : t[j] \in DigitsAndSymbols
    <3> TAKE j \in (b + 1)..Len(t)
    <3>0. b \in 1..Len(s)
      BY DEF NumberText
    <3>1. CASE j <= Len(s)
      <4>1. j \in (b + 1)..Len(s) /\ j \in 1..Len(s)
        BY <1>0, <3>0, <3>1
      <4> QED BY <2>2, <4>1 DEF NumberText
    <3>2. CASE ~(j <= Len(s))
      <4> DEFINE m == j - Len(s)
      <4>1. m \in 1..Len(x) /\ Len(s) + m = j
        BY <1>0, <1>2, <1>4, <3>0, <3>2
      <4> HIDE DEF m
      <4>2. x[m] \in Digits /\ t[Len(s) + m] = x[m]
        BY <1>2, <2>2, <4>1
      <4> QED BY <4>1, <4>2, DigitsAreCharacters
    <3> QED BY <3>1, <3>2
  <2> QED BY <2>3, <2>4 DEF NumberText
<1>6. PrefixVerdict(t).is = "valid"
  <2> HIDE DEF t
  <2>1. PhoneNumber(t).ok /\ PhoneNumber(t).at = Len(t) + 1
    BY <1>4, <1>5, NumberTextIsRead, Results
  <2>2. (Len(t) + 1) - 1 = Len(t) /\ ~(Len(t) + 1 <= Len(t))
    BY <1>4 DEF Texts
  <2>3. IsPrefix(c, c)
    BY <1>0, PrefixIs
  <2> QED
    BY <1>0, <1>4, <2>1, <2>2, <2>3, PrefixVerdictIs
<1> QED
  BY <1>2, <1>3, <1>6

\* An incomplete number can become one with a code the app allows.
LEMMA NumberCanBecomeValid ==
  ASSUME NEW s \in Texts, PrefixVerdict(s).is = "incomplete"
  PROVE  \E c \in AllowedCodes : \E e \in Suffixes(c) \cup {<<"+">> \o c} :
           PrefixVerdict(s \o e).is = "valid"
<1> DEFINE r == PhoneNumber(s)
           d == DigitsAmong(s, Len(s))
<1>0. Len(s) \in Nat /\ (Len(s) + 1) - 1 = Len(s) /\ ~(Len(s) + 1 <= Len(s))
  BY DEF Texts
<1>1. PICK a \in AllowedCodes : TRUE
  BY InputFieldAssumption DEF AllowedCodes
<1>2. a \in Seq(Digits)
  BY PhoneNumbersAssumption DEF AllowedCodes
<1>3. IsPrefix(<<>>, a)
  <2> DEFINE e == <<>>
  <2>1. e \in Seq(Digits) /\ Len(e) = 0 /\ Len(a) \in Nat
    BY <1>2
  <2>2. IsPrefix(e, a)
    <3> HIDE DEF e
    <3>1. Len(e) <= Len(a) /\ \A j \in 1..Len(e) : FALSE
      BY <2>1
    <3> QED BY <1>2, <2>1, <3>1, PrefixIs
  <2> QED BY <2>2
<1>4. /\ r.at = Len(s) + 1
      /\ ~r.ok \/ d = <<>> \/ \E c \in AllowedCodes : IsPrefix(d, c)
  BY <1>0, PrefixVerdictIs
<1>5. CASE r.ok
  <2>1. PICK b \in 1..Len(s) : NumberText(s, b)
    BY <1>4, <1>5, ReadIsNumberText
  <2>2. PICK c \in AllowedCodes : IsPrefix(d, c)
    BY <1>3, <1>4, <1>5
  <2> QED
    BY <2>1, <2>2, CodeCompletes
<1>6. CASE ~r.ok
  <2> DEFINE plus == <<"+">>  p == s \o plus  b == Len(s) + 1
  <2>1. \A j \in 1..Len(s) : s[j] \in Blanks
    BY <1>4, <1>6, ReadIsNumberText
  <2>2. plus \in Texts /\ Len(plus) = 1 /\ plus[1] = "+"
    <3>1. "+" \in Characters
      BY DEF Characters
    <3> QED BY <3>1 DEF Texts
  <2>3. p \in Texts /\ Len(p) = b /\ p[b] = "+" /\ \A j \in 1..Len(s) : p[j] = s[j]
    <3>1. 1 \in 1..Len(plus) /\ Len(s) + 1 = b
      BY <2>2
    <3>2. /\ p \in Texts /\ Len(p) = Len(s) + Len(plus)
          /\ \A j \in 1..Len(s) : p[j] = s[j]
          /\ \A j \in 1..Len(plus) : p[Len(s) + j] = plus[j]
      <4> HIDE DEF plus
      <4> QED BY <2>2, Extended DEF Extends
    <3> HIDE DEF plus, p, b
    <3> QED BY <2>2, <3>1, <3>2
  <2> HIDE DEF p
  <2>4. NumberText(p, b)
    <3>1. b \in 1..b /\ (\A j \in 1..(b - 1) : j \in 1..Len(s)) /\ (\A j \in (b + 1)..b : FALSE)
      BY <1>0
    <3> HIDE DEF b
    <3> QED BY <2>1, <2>3, <3>1 DEF NumberText
  <2>5. DigitsAmong(p, Len(p)) = <<>>
    <3>1. \A j \in 1..b : p[j] \notin Digits
      <4> TAKE j \in 1..b
      <4>1. j \in 1..Len(s) \/ j = b
        BY <1>0
      <4> HIDE DEF b
      <4> QED BY <2>1, <2>3, <4>1 DEF Digits, Blanks
    <3>2. b \in 0..Len(p) /\ b \in 0..b
      BY <1>0, <2>3
    <3> HIDE DEF b
    <3> QED BY <2>3, <3>1, <3>2, NoDigits
  <2>6. PICK x \in Suffixes(a) : /\ x \in Seq(Digits) /\ <<>> \o x = a
                                 /\ PrefixVerdict(p \o x).is = "valid"
    <3> HIDE DEF b
    <3> QED BY <1>3, <2>3, <2>4, <2>5, CodeCompletes
  <2>7. x = a
    BY <2>6, ConcatEmptySeq
  <2>8. p \o a = s \o (plus \o a)
    <3>1. a \in Texts
      BY <1>2, DigitsAreCharacters, SeqMonotonic DEF Texts
    <3> HIDE DEF plus
    <3> QED BY <2>2, <3>1, ConcatAssociative DEF Texts, p
  <2> QED
    BY <2>6, <2>7, <2>8
<1> QED
  BY <1>5, <1>6

\* What the parsers call incomplete can become valid (parser/src/lib.rs:17), for every
\* text: some ending completes the label, the domain or the calling code it ends in.
THEOREM IncompleteMayBecomeValid == FieldSpec => []IncompleteCanBecomeValid
<1>1. FieldTyped => IncompleteCanBecomeValid
  <2> SUFFICES ASSUME FieldTyped, IsIncomplete
               PROVE  \E e \in Endings : VerdictOn(text \o e).is = "valid"
    BY DEF IncompleteCanBecomeValid
  <2>0. text \in Texts /\ verdict = VerdictOn(text) /\ verdict.is = "incomplete"
    BY DEF FieldTyped, IsIncomplete
  <2>1. CASE kind = "address"
    <3>1. ParseLightningAddress(text).is = "incomplete"
      BY <2>0, <2>1 DEF VerdictOn
    <3>2. PICK e \in Suffixes(<<"l", "@", "l", ".", "l", "l">>) :
            ParseLightningAddress(text \o e).is = "valid"
      BY <2>0, <3>1, AddressCanBecomeValid
    <3> QED
      BY <2>1, <3>2 DEF Endings, VerdictOn
  <2>2. CASE kind # "address"
    <3>1. PrefixVerdict(text).is = "incomplete"
      BY <2>0, <2>2 DEF VerdictOn
    <3>2. PICK c \in AllowedCodes : \E e \in Suffixes(c) \cup {<<"+">> \o c} :
            PrefixVerdict(text \o e).is = "valid"
      BY <2>0, <3>1, NumberCanBecomeValid
    <3>3. Suffixes(c) \cup {<<"+">> \o c} \subseteq Endings
      BY <2>2 DEF Endings
    <3> QED
      BY <2>2, <3>2, <3>3 DEF VerdictOn
  <2> QED
    BY <2>1, <2>2
<1>2. FieldSpec => []FieldTyped
  BY FieldTypes
<1> QED
  BY <1>1, <1>2, PTL

-----------------------------------------------------------------------------
(* What is accepted in the end                                               *)

\* Of two prefixes of a sequence one is a prefix of the other.
LEMMA PrefixesCompare ==
  ASSUME NEW S, NEW a \in Seq(S), NEW b \in Seq(S), NEW c \in Seq(S), IsPrefix(a, c), IsPrefix(b, c)
  PROVE  IsPrefix(a, b) \/ IsPrefix(b, a)
<1>1. /\ Len(a) \in Nat /\ Len(b) \in Nat
      /\ \A j \in 1..Len(a) : a[j] = c[j]
      /\ \A j \in 1..Len(b) : b[j] = c[j]
  BY PrefixIs
<1>2. CASE Len(a) <= Len(b)
  BY <1>1, <1>2, PrefixIs
<1>3. CASE Len(b) <= Len(a)
  BY <1>1, <1>3, PrefixIs
<1> QED
  BY <1>1, <1>2, <1>3

\* Blanks may be followed by a number.
LEMMA BlanksAreIncomplete ==
  ASSUME NEW s \in Texts, \A j \in 1..Len(s) : s[j] \in Blanks
  PROVE  PrefixVerdict(s) = Incomplete
<1> DEFINE b == Chars(s, 1, Blanks).at
<1>0. Len(s) \in Nat /\ DOMAIN s = 1..Len(s)
  BY DEF Texts
<1>1. b \in Positions(s) /\ ~Is(s, b, Blanks)
  BY NumberAt
<1>2. b = Len(s) + 1
  <2> HIDE DEF b
  <2> QED BY <1>0, <1>1 DEF Positions, Is
<1>3. ~Is(s, b, {"+"})
  <2> HIDE DEF b
  <2>1. b \notin DOMAIN s
    BY <1>0, <1>2
  <2> QED BY <2>1 DEF Is
<1>4. PhoneNumber(s) = Fails(Len(s) + 1)
  BY <1>2, <1>3, NumberAt
<1>5. ~(Len(s) + 1 <= Len(s))
  BY <1>0
<1> QED
  BY <1>4, <1>5, Results, PrefixVerdictIs

\* An accepted text that the prefix parser read to its end has the number of a country
\* the app is configured for.
LEMMA AcceptedNumber ==
  ASSUME NEW s \in Texts, Accepts(s)
  PROVE  LET n == Number(s)
             c == Code[CountryOf[n]]
         IN  /\ n \in Numbers /\ n \in Seq(Digits) /\ n = DigitsAmong(s, Len(s))
             /\ c \in AllowedCodes /\ c \in Seq(Digits) /\ IsPrefix(c, n)
             /\ \E j \in 1..Len(s) : s[j] = "+"
<1> DEFINE n == Number(s)  c == Code[CountryOf[n]]
<1>1. n \in Numbers /\ CountryOf[n] \in Allowed
  BY DEF Accepts
<1> HIDE DEF n
<1>2. /\ n \in Seq(Digits) /\ IsPrefix(c, n) /\ c \in Seq(Digits) /\ c # <<>> /\ c \in AllowedCodes
  BY <1>1, PhoneNumbersAssumption DEF AllowedCodes
<1>3. n # <<>>
  <2> HIDE DEF c
  <2>1. Len(c) <= Len(n) /\ Len(c) \in Nat \ {0}
    BY <1>2, EmptySeq, PrefixIs
  <2> QED BY <1>2, <2>1, EmptySeq
<1>4. "+" \in ToSet(s) /\ n = DigitsAmong(s, Len(s))
  BY <1>3 DEF Number, n
<1>5. \E j \in 1..Len(s) : s[j] = "+"
  BY <1>4 DEF ToSet, Texts
<1> QED
  BY <1>1, <1>2, <1>4, <1>5 DEF n

\* An accepted text in which nothing is wrong is a number to its end.
LEMMA AcceptedIsNumberText ==
  ASSUME NEW s \in Texts, Accepts(s), PrefixVerdict(s).is # "invalid"
  PROVE  \E b \in 1..Len(s) : NumberText(s, b)
<1>1. PhoneNumber(s).at = Len(s) + 1
  BY PrefixVerdictIs
<1>2. PICK j \in 1..Len(s) : s[j] = "+"
  BY AcceptedNumber
<1>3. ~\A k \in 1..Len(s) : s[k] \in Blanks
  BY <1>2 DEF Blanks
<1> QED
  BY <1>1, <1>3, ReadIsNumberText

\* What was typed of it on the way was not refused.
LEMMA PrefixOfAccepted ==
  ASSUME NEW s \in Texts, Accepts(s), PrefixVerdict(s).is # "invalid", NEW l \in 0..Len(s)
  PROVE  PrefixVerdict(SubSeq(s, 1, l)).is \in {"valid", "incomplete"}
<1> DEFINE p == SubSeq(s, 1, l)  n == Number(s)  c == Code[CountryOf[n]]  d == DigitsAmong(p, l)
<1>0. Len(s) \in Nat
  BY DEF Texts
<1>1. p \in Texts /\ Len(p) = l /\ \A j \in 1..l : p[j] = s[j]
  BY Beginning
<1>2. PICK b \in 1..Len(s) : NumberText(s, b)
  BY AcceptedIsNumberText
<1>3. /\ n \in Seq(Digits) /\ n = DigitsAmong(s, Len(s))
      /\ c \in AllowedCodes /\ c \in Seq(Digits) /\ IsPrefix(c, n)
  BY AcceptedNumber
<1> HIDE DEF p, c, n
<1>4. CASE l < b
  <2>1. \A j \in 1..Len(p) : p[j] \in Blanks
    <3>1. \A j \in 1..l : j \in 1..(b - 1)
      BY <1>0, <1>4
    <3> QED BY <1>1, <1>2, <3>1 DEF NumberText
  <2>2. PrefixVerdict(p) = Incomplete
    BY <1>1, <2>1, BlanksAreIncomplete
  <2> QED
    BY <2>2 DEF Incomplete, p
<1>5. CASE b <= l
  <2>1. NumberText(p, b)
    <3>1. /\ b \in 1..l /\ (\A j \in 1..(b - 1) : j \in 1..l)
          /\ \A j \in (b + 1)..l : j \in (b + 1)..Len(s) /\ j \in 1..l
      BY <1>0, <1>5
    <3> QED BY <1>1, <1>2, <3>1 DEF NumberText
  <2>2. PhoneNumber(p).ok /\ PhoneNumber(p).at = Len(p) + 1
    BY <1>1, <2>1, NumberTextIsRead, Results
  <2>3. (Len(p) + 1) - 1 = Len(p) /\ ~(Len(p) + 1 <= Len(p))
    BY <1>1 DEF Texts
  <2>4. d \in Seq(Digits) /\ IsPrefix(d, n)
    <3>1. l \in 0..l /\ l <= Len(s) /\ l \in 0..Len(p) /\ Len(s) \in l..Len(s)
      BY <1>0, <1>1
    <3>2. \A j \in 1..l : s[j] = p[j]
      BY <1>1
    <3>3. DigitsAmong(p, l) = DigitsAmong(s, l)
      BY <1>1, <3>1, <3>2, DigitsAgree
    <3>4. DigitsAmong(p, l) \in Seq(Digits)
      BY <1>1, <3>1, DigitsType
    <3>5. IsPrefix(DigitsAmong(s, l), DigitsAmong(s, Len(s)))
      BY <3>1, DigitsGrow
    <3> QED
      BY <1>3, <3>3, <3>4, <3>5
  <2>5. IsPrefix(c, d) \/ IsPrefix(d, c)
    <3> HIDE DEF d
    <3> QED BY <1>3, <2>4, PrefixesCompare
  <2>6. PrefixVerdict(p).is \in {"valid", "incomplete"}
    <3>1. DigitsAmong(p, PhoneNumber(p).at - 1) = d
      BY <1>1, <2>2, <2>3
    <3> HIDE DEF d
    <3>2. /\ ~(PhoneNumber(p).at <= Len(p)) /\ PhoneNumber(p).ok
          /\ ~((\A a \in AllowedCodes : ~IsPrefix(a, d)) /\ (\A a \in AllowedCodes : ~IsPrefix(d, a)))
      BY <1>3, <2>2, <2>3, <2>5
    <3>3. \/ PrefixVerdict(p) = Incomplete
          \/ PrefixVerdict(p) = [is |-> "valid", at |-> 0]
      BY <1>1, <3>1, <3>2, PrefixVerdictIs
    <3> QED BY <3>3 DEF Incomplete
  <2> QED
    BY <2>6 DEF p
<1> QED
  BY <1>0, <1>4, <1>5

LEMMA UsernameCharsAre ==
  /\ "l" \in UsernameChars /\ "@" \notin UsernameChars /\ Digits \cup {"-"} \subseteq UsernameChars
  /\ \A c \in UsernameChars : c \notin Blanks
BY DEF UsernameChars, Alphanumeric, Letters, Digits, Blanks

\* The user name of an address may be any other.
LEMMA AnyUsername ==
  ASSUME NEW s \in Texts, NEW t \in Texts, NEW d \in Nat,
         ParseLightningAddress(s).is = "valid", 2 <= Len(s), s[1] = "l", s[2] = "@",
         Len(t) = Len(s) + d, \A j \in 2..Len(s) : t[j + d] = s[j],
         \A j \in 1..(d + 1) : t[j] \in UsernameChars
  PROVE  ParseLightningAddress(t).is = "valid"
<1> DEFINE h == Domain(s, 3).at  e == Chars(s, h, Blanks).at  u == d + 2  k == d + 3
<1>0. /\ Len(s) \in Nat /\ DOMAIN s = 1..Len(s) /\ DOMAIN t = 1..Len(t) /\ Len(t) \in Nat
      /\ 1 \in Positions(s) /\ 2 \in Positions(s) /\ 3 \in Positions(s) /\ 2 \in 1..(Len(s) + 1)
      /\ 1 \in Positions(t) /\ u \in Positions(t) /\ k \in Positions(t) /\ d \in Int
      /\ k = 3 + d /\ k = u + 1 /\ u = 2 + d
  BY DEF Texts, Positions
<1>1. Chars(s, 1, Blanks) = Reads(1)
  <2>1. ~Is(s, 1, Blanks) /\ 1 \in 1..(Len(s) + 1) /\ \A j \in 1..(1 - 1) : FALSE
    BY <1>0 DEF Is, Blanks
  <2>2. RunEnd(s, 1, Blanks) = 1
    <3>1. \A j \in 1..(1 - 1) : Is(s, j, Blanks)
      BY <2>1
    <3> QED BY <1>0, <2>1, <3>1, RunEndIs
  <2> QED BY <2>2 DEF Chars
<1>2. Username(s) = Reads(2)
  <2>1. Is(s, 1, UsernameChars) /\ ~Is(s, 2, UsernameChars)
    <3>1. 1 \in DOMAIN s
      BY <1>0
    <3> QED BY <3>1, UsernameCharsAre DEF Is
  <2>2. 2 \in 1..(Len(s) + 1) /\ \A j \in 1..(2 - 1) : Is(s, j, UsernameChars)
    BY <1>0, <2>1
  <2>3. RunEnd(s, 1, UsernameChars) = 2
    BY <1>0, <2>1, <2>2, RunEndIs
  <2> QED BY <1>1, <2>1, <2>3, Results DEF Username, Chars1, Chars
<1>3. Separator(s) = Reads(3)
  <2>1. Is(s, 2, {"@"}) /\ 2 + 1 = 3
    BY <1>0 DEF Is
  <2> QED BY <1>2, <2>1, Results DEF Separator, Char
<1>4. /\ Domain(s, 3).ok /\ LightningAddress(s) = Chars(s, h, Blanks)
      /\ LightningAddress(s).ok /\ e = Len(s) + 1
  <2>1. LightningAddress(s).ok /\ LightningAddress(s).at = Len(s) + 1
    <3> DEFINE r == LightningAddress(s)
    <3>1. Outcome(r, 1, s) /\ Verdict(s, r).is = "valid"
      BY AddressReads DEF ParseLightningAddress
    <3>2. r.ok /\ r.at > Len(s) /\ r.at \in 1..(Len(s) + 1)
      <4> HIDE DEF r
      <4> QED BY <3>1, VerdictIs DEF Incomplete
    <3>3. r.at = Len(s) + 1
      <4> HIDE DEF r
      <4> QED BY <1>0, <3>2
    <3> QED BY <3>2, <3>3
  <2>2. HostOf(s) = Domain(s, 3)
    BY <1>3, Results DEF HostOf
  <2>3. Chars(s, 1, Blanks).ok /\ Username(s).ok /\ Separator(s).ok
    BY <1>1, <1>2, <1>3, Results
  <2>4. HostOf(s).ok
    BY <2>1, <2>3, AddressIs
  <2> QED
    BY <2>1, <2>2, <2>3, <2>4, AddressIs
<1>5. h \in 4..(Len(s) + 1) /\ h \in Positions(s)
  <2>1. Domain(s, 3).at > 3 /\ Domain(s, 3).at \in 3..(Len(s) + 1)
    BY <1>0, <1>4, DomainAt DEF Outcome
  <2> HIDE DEF h
  <2> QED BY <1>0, <2>1 DEF h, Positions
\* From its separator on t has what s has.
<1>6. \A m \in 3..(Len(s) + 1) : Alike(s, t, d, 3, m) /\ (m + d \in Positions(t))
  <2> TAKE m \in 3..(Len(s) + 1)
  <2>1. \A j \in 3..Len(s) : j \in DOMAIN s /\ j + d \in DOMAIN t /\ t[j + d] = s[j]
    BY <1>0
  <2>2. (\A j \in 3..(m - 1) : j \in 3..Len(s)) /\ (m + d \in DOMAIN t => m \in 3..Len(s))
    BY <1>0
  <2>3. m + d \in Positions(t)
    BY <1>0 DEF Positions
  <2> QED BY <2>1, <2>2, <2>3 DEF Alike
<1>7. Chars(t, 1, Blanks) = Reads(1)
  <2>1. ~Is(t, 1, Blanks) /\ 1 \in 1..(Len(t) + 1)
    <3>1. 1 \in 1..(d + 1) /\ 1 \in 1..(Len(t) + 1)
      BY <1>0
    <3>2. t[1] \in UsernameChars
      BY <3>1
    <3> QED BY <3>1, <3>2, UsernameCharsAre DEF Is
  <2>2. \A j \in 1..(1 - 1) : Is(t, j, Blanks)
    OBVIOUS
  <2>3. RunEnd(t, 1, Blanks) = 1
    BY <1>0, <2>1, <2>2, RunEndIs
  <2> QED BY <2>3 DEF Chars
<1>8. t[u] = "@" /\ u \in DOMAIN t
  BY <1>0
<1>9. Username(t) = Reads(u)
  <2>1. \A j \in 1..(u - 1) : Is(t, j, UsernameChars)
    <3>1. \A j \in 1..(u - 1) : j \in 1..(d + 1) /\ j \in DOMAIN t
      BY <1>0
    <3> QED BY <3>1 DEF Is
  <2>2. Is(t, 1, UsernameChars)
    <3>1. 1 \in 1..(u - 1)
      OBVIOUS
    <3> QED BY <2>1, <3>1
  <2> HIDE DEF u
  <2>3. ~Is(t, u, UsernameChars)
    BY <1>8, UsernameCharsAre DEF Is
  <2>4. RunEnd(t, 1, UsernameChars) = u
    <3>1. u \in 1..(Len(t) + 1)
      BY <1>0 DEF Positions
    <3> QED BY <1>0, <2>1, <2>3, <3>1, RunEndIs
  <2> QED BY <1>7, <2>2, <2>4, Results DEF Username, Chars1, Chars
<1>10. Separator(t) = Reads(k)
  <2> HIDE DEF u, k
  <2>1. Is(t, u, {"@"})
    BY <1>8 DEF Is
  <2> QED BY <1>0, <1>9, <2>1, Results DEF Separator, Char
<1>11. HostOf(t) = Moved(Domain(s, 3), d)
  <2>1. Alike(s, t, d, 3, h)
    <3> HIDE DEF h
    <3> QED BY <1>0, <1>5, <1>6
  <2>2. 3 + d \in Positions(t)
    <3> HIDE DEF k
    <3> QED BY <1>0
  <2>3. Domain(t, 3 + d) = Moved(Domain(s, 3), d)
    BY <1>0, <2>1, <2>2, DomainMoves
  <2>4. HostOf(t) = Domain(t, 3 + d)
    <3>1. HostOf(t) = Domain(t, k)
      BY <1>10, Results DEF HostOf
    <3> HIDE DEF k
    <3> QED BY <1>0, <3>1
  <2> QED BY <2>3, <2>4
<1>12. HostOf(t).ok /\ HostOf(t).at = h + d
  BY <1>4, <1>11 DEF Moved
<1>13. Chars(t, h + d, Blanks) = Reads((Len(s) + 1) + d)
  <2>1. Alike(s, t, d, h, e) /\ h + d \in Positions(t)
    <3>1. Alike(s, t, d, 3, Len(s) + 1) /\ h + d \in Positions(t)
      <4> HIDE DEF h
      <4> QED BY <1>0, <1>5, <1>6
    <3>2. h \in 3..(Len(s) + 1) /\ Len(s) + 1 \in h..(Len(s) + 1) /\ Len(s) + 1 \in Int /\ 3 \in Int
      <4> HIDE DEF h
      <4> QED BY <1>0, <1>5
    <3> DEFINE m == Len(s) + 1
    <3>3. Alike(s, t, d, h, m)
      <4>1. Alike(s, t, d, 3, m) /\ h \in 3..m /\ m \in h..m /\ m \in Int
        BY <3>1, <3>2
      <4> HIDE DEF h, m
      <4> QED BY <1>0, <4>1, AlikeWithin
    <3> QED BY <1>4, <3>1, <3>3
  <2>2. Chars(t, h + d, Blanks) = Moved(Chars(s, h, Blanks), d)
    <3>1. e = Chars(s, h, Blanks).at
      OBVIOUS
    <3> HIDE DEF e, h
    <3> QED BY <1>0, <1>5, <2>1, <3>1, CharsMove
  <2>3. Chars(s, h, Blanks) = Reads(e)
    BY Results DEF Chars
  <2> HIDE DEF e, h
  <2> QED BY <1>4, <2>2, <2>3, MovedReads
<1>14. LightningAddress(t) = Reads((Len(s) + 1) + d)
  BY <1>7, <1>9, <1>10, <1>12, <1>13, Results, AddressIs
<1>15. (Len(s) + 1) + d > Len(t) /\ (Len(s) + 1) + d \in 1..(Len(t) + 1)
  BY <1>0
<1> DEFINE r == LightningAddress(t)
<1>16. Outcome(r, 1, t) /\ r.ok /\ r.at > Len(t)
  BY <1>14, <1>15, AddressReads, Results
<1>17. Verdict(t, r).is = "valid"
  <2> HIDE DEF r
  <2> QED BY <1>16, VerdictIs
<1> QED
  BY <1>17 DEF ParseLightningAddress

\* Of an E164 number the plus becomes a minus.
LEMMA PlusReplaced ==
  ASSUME NEW n \in Seq(Digits)
  PROVE  ReplaceFirstSubSeq(<<"-">>, <<"+">>, <<"+">> \o n) = <<"-">> \o n
<1> DEFINE plus == <<"+">>  t == plus \o n  S == Digits \cup {"+", "-"}
<1>0. n \in Seq(S) /\ Len(n) \in Nat
  BY SeqMonotonic
<1>1. plus \in Seq(S) /\ Len(plus) = 1 /\ plus[1] = "+"
  OBVIOUS
<1>2. /\ t \in Seq(S) /\ Len(t) = 1 + Len(n) /\ t[1] = "+"
      /\ \A j \in 1..Len(n) : t[j + 1] = n[j]
  <2> HIDE DEF plus, S
  <2>1. /\ t \in Seq(S) /\ Len(t) = Len(plus) + Len(n)
        /\ \A j \in 1..(Len(plus) + Len(n)) : t[j] = IF j <= Len(plus) THEN plus[j] ELSE n[j - Len(plus)]
    BY <1>0, <1>1, ConcatProperties
  <2> HIDE DEF t
  <2>2. \A j \in 1..(1 + Len(n)) : t[j] = IF j <= 1 THEN plus[j] ELSE n[j - 1]
    BY <1>1, <2>1
  <2>3. t[1] = "+"
    BY <1>0, <1>1, <2>2
  <2>4. \A j \in 1..Len(n) : t[j + 1] = n[j]
    <3> TAKE j \in 1..Len(n)
    <3> DEFINE m == j + 1
    <3>1. m \in 1..(1 + Len(n)) /\ ~(m <= 1) /\ m - 1 = j
      BY <1>0
    <3> HIDE DEF m
    <3>2. t[m] = n[j]
      BY <2>2, <3>1
    <3> QED BY <3>2 DEF m
  <2> QED BY <1>1, <2>1, <2>3, <2>4
<1>3. SubSeq(t, 1, 1) = plus
  <2> HIDE DEF t, S
  <2>1. /\ SubSeq(t, 1, 1) \in Seq(S) /\ Len(SubSeq(t, 1, 1)) = 1 /\ SubSeq(t, 1, 1)[1] = "+"
    BY <1>0, <1>2
  <2> HIDE DEF plus
  <2> QED BY <1>1, <2>1, SeqEqual
<1>4. SubSeq(t, 1, 0) = <<>>
  BY SubSeqEmpty
<1>5. \A x \in SubSeqs(<<>>) : x = <<>>
  <2> DEFINE e == <<>>
  <2>1. Len(e) = 0
    OBVIOUS
  <2>2. SubSeq(e, 0 + 1, 0) = e
    BY SubSeqEmpty
  <2> HIDE DEF e, t, plus
  <2>3. SubSeqs(e) = {SubSeq(e, i + 1, j) : i, j \in 0..0}
    BY <2>1 DEF SubSeqs
  <2>4. \A i \in 0..0 : i = 0
    OBVIOUS
  <2>5. 0 \in 0..0
    OBVIOUS
  <2>6. ASSUME NEW x \in SubSeqs(e)
        PROVE  x = e
    <3>1. PICK i \in 0..0, j \in 0..0 : x = SubSeq(e, i + 1, j)
      BY <2>3
    <3> QED BY <2>2, <2>4, <3>1
  <2> QED BY <2>6 DEF e
<1>6. plus # <<>>
  OBVIOUS
<1>7. plus \notin SubSeqs(SubSeq(t, 1, 0))
  <2>1. plus \notin SubSeqs(<<>>)
    <3> HIDE DEF plus
    <3> QED BY <1>5, <1>6
  <2> HIDE DEF t, plus
  <2> QED BY <1>4, <2>1
<1>8. plus \in SubSeqs(SubSeq(t, 1, 1)) /\ plus \in SubSeqs(t)
  <2> HIDE DEF plus, t
  <2>1. 0 \in 0..Len(t) /\ 1 \in 0..Len(t) /\ 0 + 1 = 1 /\ 0 \in 0..Len(plus) /\ 1 \in 0..Len(plus)
    BY <1>0, <1>1, <1>2
  <2>2. plus \in SubSeqs(t)
    BY <1>3, <2>1 DEF SubSeqs
  <2>3. SubSeq(plus, 1, 1) = plus
    BY <1>1, SubSeqFull
  <2>4. plus \in SubSeqs(plus)
    BY <2>1, <2>3 DEF SubSeqs
  <2> QED BY <1>3, <2>2, <2>4
<1>9. IndexFirstSubSeq(plus, t) = 1
  <2> DEFINE First(i) == /\ plus \in SubSeqs(SubSeq(t, 1, i))
                         /\ \A j \in 0..i-1 : plus \notin SubSeqs(SubSeq(t, 1, j))
             last == CHOOSE i \in 0..Len(t) : First(i)
  <2>1. IndexFirstSubSeq(plus, t) = last - (Len(plus) - 1)
    BY DEF IndexFirstSubSeq
  <2> HIDE DEF plus, t
  <2>2. 1 \in 0..Len(t) /\ First(1)
    BY <1>0, <1>2, <1>7, <1>8
  <2>3. \A i \in 0..Len(t) : First(i) => i = 1
    <3> TAKE i \in 0..Len(t)
    <3>1. CASE i = 0
      BY <1>7, <3>1
    <3>2. CASE i > 1
      <4>1. 1 \in 0..i-1
        BY <3>2
      <4> QED BY <1>8, <4>1
    <3> QED BY <3>1, <3>2
  <2> HIDE DEF First
  <2>4. last = 1
    BY <2>2, <2>3
  <2> QED BY <1>1, <2>1, <2>4
<1>10. SubSeq(t, 2, Len(t)) = n
  <2> HIDE DEF t, S
  <2> DEFINE x == SubSeq(t, 2, Len(t))
  <2>1. x \in Seq(S) /\ Len(x) = Len(n) /\ \A j \in 1..Len(n) : x[j] = t[j + 1]
    BY <1>0, <1>2
  <2> HIDE DEF x
  <2>2. x = n
    BY <1>0, <1>2, <2>1, SeqEqual
  <2> QED BY <2>2 DEF x
<1>11. ReplaceFirstSubSeq(<<"-">>, plus, t) = (SubSeq(t, 1, 0) \o <<"-">>) \o SubSeq(t, 2, Len(t))
  <2> HIDE DEF plus, t
  <2>1. 1 - 1 = 0 /\ 1 + Len(plus) = 2
    BY <1>1
  <2> QED BY <1>8, <1>9, <2>1 DEF ReplaceFirstSubSeq, ReplaceSubSeqAt
<1>12. <<>> \o <<"-">> = <<"-">>
  OBVIOUS
<1> HIDE DEF t
<1> QED
  BY <1>4, <1>10, <1>11, <1>12 DEF t

\* The lightning address of the digits of a number.
OfNumber(n) == (<<"-">> \o n) \o LipaDomain

\* The lightning address of a number, character by character.
LEMMA OfNumberIs ==
  ASSUME NEW n \in Seq(Digits)
  PROVE  /\ OfNumber(n) \in Texts /\ Len(OfNumber(n)) = (1 + Len(n)) + Len(LipaDomain)
         /\ OfNumber(n)[1] = "-"
         /\ \A j \in 1..Len(n) : OfNumber(n)[1 + j] = n[j]
         /\ \A j \in 1..Len(LipaDomain) : OfNumber(n)[(1 + Len(n)) + j] = LipaDomain[j]
         /\ Len(n) \in Nat /\ Len(LipaDomain) \in Nat \ {0} /\ LipaDomain \in Texts
<1> DEFINE minus == <<"-">>  u == minus \o n
<1>1. minus \in Texts /\ Len(minus) = 1 /\ minus[1] = "-" /\ 1 \in 1..Len(minus)
  <2>1. "-" \in Characters
    BY DEF Characters, UsernameChars
  <2> QED BY <2>1 DEF Texts
<1>2. n \in Texts /\ LipaDomain \in Texts /\ Len(n) \in Nat /\ Len(LipaDomain) \in Nat \ {0}
  BY DigitsAreCharacters, SeqMonotonic, PhoneNumbersAssumption, EmptySeq DEF Texts
<1>3. /\ u \in Texts /\ Len(u) = 1 + Len(n) /\ u[1] = "-"
      /\ \A j \in 1..Len(n) : u[1 + j] = n[j]
  <2> HIDE DEF minus
  <2>1. /\ u \in Texts /\ Len(u) = Len(minus) + Len(n)
        /\ \A j \in 1..Len(minus) : u[j] = minus[j]
        /\ \A j \in 1..Len(n) : u[Len(minus) + j] = n[j]
    BY <1>1, <1>2, Extended DEF Extends
  <2> HIDE DEF u
  <2> QED BY <1>1, <2>1
<1>4. OfNumber(n) = u \o LipaDomain
  BY DEF OfNumber
<1> HIDE DEF u
<1>5. /\ OfNumber(n) \in Texts /\ Len(OfNumber(n)) = Len(u) + Len(LipaDomain)
      /\ \A j \in 1..Len(u) : OfNumber(n)[j] = u[j]
      /\ \A j \in 1..Len(LipaDomain) : OfNumber(n)[Len(u) + j] = LipaDomain[j]
  <2> DEFINE v == u \o LipaDomain
  <2>1. /\ v \in Texts /\ Len(v) = Len(u) + Len(LipaDomain)
        /\ \A j \in 1..Len(u) : v[j] = u[j]
        /\ \A j \in 1..Len(LipaDomain) : v[Len(u) + j] = LipaDomain[j]
    BY <1>2, <1>3, Extended DEF Extends
  <2>2. OfNumber(n) = v
    BY <1>4
  <2> HIDE DEF v
  <2> QED BY <2>1, <2>2
<1>6. 1 \in 1..Len(u) /\ \A j \in 1..Len(n) : 1 + j \in 1..Len(u)
  BY <1>2, <1>3
<1> QED
  BY <1>2, <1>3, <1>5, <1>6

\* It is an address that may be entered.
LEMMA OfNumberIsValid ==
  ASSUME NEW n \in Seq(Digits)
  PROVE  ParseLightningAddress(OfNumber(n)).is = "valid"
<1> DEFINE l == <<"l">>  s == l \o LipaDomain  t == OfNumber(n)  d == Len(n)  D == Len(LipaDomain)
<1>1. l \in Texts /\ Len(l) = 1 /\ l[1] = "l" /\ 1 \in 1..Len(l)
  <2>1. "l" \in Characters
    BY UsernameCharsAre DEF Characters
  <2> QED BY <2>1 DEF Texts
<1>2. /\ t \in Texts /\ Len(t) = (1 + d) + D /\ t[1] = "-"
      /\ \A j \in 1..d : t[1 + j] = n[j]
      /\ \A j \in 1..D : t[(1 + d) + j] = LipaDomain[j]
      /\ d \in Nat /\ D \in Nat \ {0} /\ LipaDomain \in Texts
  BY OfNumberIs
<1>3. /\ s \in Texts /\ Len(s) = 1 + D /\ s[1] = "l"
      /\ \A j \in 1..D : s[1 + j] = LipaDomain[j]
  <2> HIDE DEF l
  <2>1. /\ s \in Texts /\ Len(s) = Len(l) + D
        /\ \A j \in 1..Len(l) : s[j] = l[j]
        /\ \A j \in 1..D : s[Len(l) + j] = LipaDomain[j]
    BY <1>1, <1>2, Extended DEF Extends
  <2> HIDE DEF s
  <2> QED BY <1>1, <2>1
<1>4. ParseLightningAddress(s).is = "valid" /\ LipaDomain[1] = "@"
  BY PhoneNumbersAssumption
<1> HIDE DEF l, s, t, d, D
<1>5. 2 <= Len(s) /\ s[2] = "@" /\ Len(t) = Len(s) + d
  <2>1. 1 \in 1..D /\ 1 + 1 = 2
    BY <1>2
  <2> QED BY <1>2, <1>3, <1>4, <2>1
<1>6. \A j \in 2..Len(s) : t[j + d] = s[j]
  <2> TAKE j \in 2..Len(s)
  <2> DEFINE m == j - 1
  <2>1. m \in 1..D /\ (1 + d) + m = j + d /\ 1 + m = j
    BY <1>2, <1>3
  <2> HIDE DEF m
  <2>2. t[(1 + d) + m] = LipaDomain[m] /\ s[1 + m] = LipaDomain[m]
    BY <1>2, <1>3, <2>1
  <2> QED BY <2>1, <2>2
<1>7. \A j \in 1..(d + 1) : t[j] \in UsernameChars
  <2> TAKE j \in 1..(d + 1)
  <2>1. CASE j = 1
    BY <1>2, <2>1, UsernameCharsAre
  <2>2. CASE j # 1
    <3> DEFINE m == j - 1
    <3>1. m \in 1..d /\ 1 + m = j
      BY <1>2, <2>2
    <3> HIDE DEF m
    <3>2. t[1 + m] = n[m] /\ n[m] \in Digits
      BY <1>2, <3>1 DEF d
    <3> QED BY <3>1, <3>2, UsernameCharsAre
  <2> QED BY <2>1, <2>2
<1>8. ParseLightningAddress(t).is = "valid"
  BY <1>2, <1>3, <1>4, <1>5, <1>6, <1>7, AnyUsername
<1> QED
  BY <1>8 DEF t

\* The number of a lightning address of a number is that number.
LEMMA NumberOfIs ==
  ASSUME NEW n \in Seq(Digits)
  PROVE  ToPhoneNumber(OfNumber(n)) = <<"+">> \o n
<1> DEFINE t == OfNumber(n)  d == Len(n)  D == Len(LipaDomain)  tail == Tail(t)
<1>1. /\ t \in Seq(Characters) /\ Len(t) = (1 + d) + D /\ t[1] = "-"
      /\ \A j \in 1..d : t[1 + j] = n[j]
      /\ \A j \in 1..D : t[(1 + d) + j] = LipaDomain[j]
      /\ d \in Nat /\ D \in Nat \ {0} /\ LipaDomain \in Seq(Characters)
  BY OfNumberIs DEF Texts
<1> HIDE DEF t
<1>2. t # <<>> /\ Head(t) = "-"
  <2>1. t # <<>>
    <3> HIDE DEF d, D
    <3>1. Len(t) # 0
      BY <1>1
    <3> QED BY <3>1, EmptySeq
  <2> QED BY <1>1, <2>1
<1>3. /\ tail \in Seq(Characters) /\ Len(tail) = d + D
      /\ \A j \in 1..D : tail[d + j] = LipaDomain[j]
  <2>1. tail \in Seq(Characters) /\ Len(tail) = Len(t) - 1 /\ \A i \in 1..Len(tail) : tail[i] = t[i + 1]
    BY <1>1, <1>2, HeadTailProperties
  <2> HIDE DEF tail, d, D
  <2>2. Len(tail) = d + D
    BY <1>1, <2>1
  <2>3. \A j \in 1..D : d + j \in 1..Len(tail) /\ (d + j) + 1 = (1 + d) + j
    BY <1>1, <2>2
  <2> QED BY <1>1, <2>1, <2>2, <2>3
<1> HIDE DEF tail
<1>4. IsSuffix(LipaDomain, tail)
  <2> DEFINE a == Reverse(LipaDomain)  b == Reverse(tail)
  <2>1. /\ a \in Seq(Characters) /\ Len(a) = D
        /\ \A j \in 1..D : a[j] = LipaDomain[(D - j) + 1]
    <3>1. \A j \in 1..D : (D - j) + 1 \in 1..D
      BY <1>1
    <3>2. \A j \in 1..D : LipaDomain[(D - j) + 1] \in Characters
      BY <1>1, <3>1
    <3>3. a = [j \in 1..D |-> LipaDomain[(D - j) + 1]]
      BY DEF Reverse
    <3> HIDE DEF a, D
    <3> QED BY <1>1, <3>2, <3>3
  <2>2. /\ b \in Seq(Characters) /\ Len(b) = d + D
        /\ \A j \in 1..(d + D) : b[j] = tail[((d + D) - j) + 1]
    <3> DEFINE e == d + D
    <3>0. e \in Nat /\ Len(tail) = e
      BY <1>1, <1>3
    <3>3. b = [j \in 1..e |-> tail[(e - j) + 1]]
      BY <3>0 DEF Reverse
    <3> HIDE DEF e, b
    <3>1. \A j \in 1..e : (e - j) + 1 \in 1..e
      BY <3>0
    <3>2. \A j \in 1..e : tail[(e - j) + 1] \in Characters
      BY <1>3, <3>0, <3>1
    <3>4. b \in Seq(Characters) /\ Len(b) = e /\ \A j \in 1..e : b[j] = tail[(e - j) + 1]
      BY <3>0, <3>2, <3>3
    <3> QED BY <3>4 DEF e
  <2> HIDE DEF a, b
  <2>3. \A j \in 1..D : a[j] = b[j]
    <3> TAKE j \in 1..D
    <3> DEFINE m == (D - j) + 1
    <3>1. m \in 1..D /\ d + m = ((d + D) - j) + 1 /\ j \in 1..(d + D)
      <4> HIDE DEF d, D
      <4> QED BY <1>1
    <3>2. a[j] = LipaDomain[m] /\ b[j] = tail[((d + D) - j) + 1]
      BY <2>1, <2>2, <3>1
    <3> HIDE DEF m, d, D
    <3>3. tail[d + m] = LipaDomain[m]
      BY <1>3, <3>1
    <3> QED BY <3>1, <3>2, <3>3
  <2>4. D <= d + D
    <3> HIDE DEF d, D
    <3> QED BY <1>1
  <2> HIDE DEF d, D
  <2>5. IsPrefix(a, b)
    BY <2>1, <2>2, <2>3, <2>4, PrefixIs
  <2> QED BY <2>5 DEF IsSuffix, a, b
<1> DEFINE e == Len(t) - D  username == SubSeq(t, 2, e)
<1>5. username = n
  <2>1. e = 1 + d /\ (e - 2) + 1 = d
    <3> HIDE DEF d, D
    <3> QED BY <1>1
  <2>2. e \in Int /\ 2 \in Int /\ \A i \in 2..e : t[i] \in Characters
    <3> HIDE DEF d, D
    <3> QED BY <1>1, <2>1
  <2>3. username \in Seq(Characters) /\ Len(username) = d /\ \A i \in 1..d : username[i] = t[2 + (i - 1)]
    <3> HIDE DEF e
    <3>1. /\ username \in Seq(Characters) /\ Len(username) = (IF 2 <= e THEN (e - 2) + 1 ELSE 0)
          /\ \A i \in 1..((e - 2) + 1) : username[i] = t[2 + (i - 1)]
      BY <2>2, SubSeqProperties
    <3> HIDE DEF username, d
    <3> QED BY <1>1, <2>1, <3>1
  <2> HIDE DEF username, e
  <2>4. \A i \in 1..d : 2 + (i - 1) = 1 + i
    OBVIOUS
  <2>5. n \in Seq(Characters)
    BY DigitsAreCharacters, SeqMonotonic
  <2> QED BY <1>1, <2>3, <2>4, <2>5, SeqEqual
<1>6. ToSet(n) \subseteq Digits
  BY DEF ToSet
<1>7. IsOfLipa(t)
  BY <1>2, <1>4 DEF IsOfLipa, tail
<1>8. ToPhoneNumber(t) = <<"+">> \o username
  <2>1. ToSet(username) \subseteq Digits
    <3> HIDE DEF username
    <3> QED BY <1>5, <1>6
  <2> QED BY <1>7, <2>1 DEF ToPhoneNumber
<1> QED
  BY <1>5, <1>8 DEF t

\* Its owner is shown the number.
LEMMA OwnerIsShownNumber ==
  ASSUME NEW n \in Seq(Digits)
  PROVE  GetNumber(<<<<"l">> \o LipaDomain, OfNumber(n)>>) = <<"+">> \o n
<1> DEFINE a == <<"l">> \o LipaDomain  t == OfNumber(n)  list == <<a, t>>
           ofPhone == {i \in DOMAIN list : list[i] # <<>> /\ Head(list[i]) = "-"}
<1>1. Head(a) = "l"
  BY PhoneNumbersAssumption
<1>2. t # <<>> /\ Head(t) = "-"
  <2>1. t \in Seq(Characters) /\ Len(t) # 0 /\ t[1] = "-"
    BY OfNumberIs DEF Texts
  <2> HIDE DEF t
  <2> QED BY <2>1
<1> HIDE DEF a, t
<1>3. DOMAIN list = {1, 2} /\ list[1] = a /\ list[2] = t
  OBVIOUS
<1> HIDE DEF list
<1>4. ofPhone = {2}
  BY <1>1, <1>2, <1>3
<1>5. Min({2}) = 2
  BY MinIs
<1>6. GetNumber(list) = ToPhoneNumber(t)
  BY <1>3, <1>4, <1>5 DEF GetNumber
<1> QED
  BY <1>6, NumberOfIs DEF list, a, t

\* The parsers agree on every number: what PhoneNumberRecipient::parse accepts was not
\* refused on the way by PhoneNumberPrefixParser, its lightning address is one that
\* LightningAddress parses, and PhoneNumber::get shows its owner the same number.
THEOREM NumbersDoAgree == FieldSpec => []NumbersAgree
<1>1. FieldTyped => NumbersAgree
  <2> SUFFICES ASSUME FieldTyped, kind = "phone", Accepts(text)
               PROVE  /\ verdict.is # "invalid" =>
                            \A p \in Prefixes(text) : PrefixVerdict(p).is \in {"valid", "incomplete"}
                      /\ ParseLightningAddress(ToLightningAddress(E164(text))).is = "valid"
                      /\ GetNumber(<<<<"l">> \o LipaDomain, ToLightningAddress(E164(text))>>) = E164(text)
    BY DEF NumbersAgree
  <2>1. text \in Texts /\ verdict = PrefixVerdict(text)
    BY DEF FieldTyped, VerdictOn
  <2>2. Number(text) \in Seq(Digits)
    BY <2>1, AcceptedNumber
  <2>3. ToLightningAddress(E164(text)) = OfNumber(Number(text))
    BY <2>2, PlusReplaced DEF ToLightningAddress, E164, OfNumber
  <2>4. ASSUME verdict.is # "invalid", NEW p \in Prefixes(text)
        PROVE  PrefixVerdict(p).is \in {"valid", "incomplete"}
    BY <2>1, <2>4, PrefixOfAccepted DEF Prefixes
  <2> QED
    BY <2>2, <2>3, <2>4, OfNumberIsValid, OwnerIsShownNumber DEF E164
<1>2. FieldSpec => []FieldTyped
  BY FieldTypes
<1> QED
  BY <1>1, <1>2, PTL
=============================================================================
