----------------------------- MODULE Addresses -----------------------------
(***************************************************************************)
(* Lightning addresses and phone numbers, and the feature flags that turn  *)
(* them on and off.                                                        *)
(*                                                                         *)
(* The backend decides which addresses may receive; the library keeps a    *)
(* table of them, which the app reads and by which the notification        *)
(* handler refuses payments.  register(), verify() and set_feature_flag()  *)
(* first ask the backend and then write what they asked for to the table,  *)
(* with no lock held in between.  set_feature_flag() picks the addresses   *)
(* to ask for from the table.                                              *)
(***************************************************************************)
EXTENDS Naturals, FiniteSets

CONSTANTS
  Addresses,  \* addresses the backend may assign to this wallet
  Phones,     \* those that stand for a phone number (they start with '-')
  Threads,    \* threads that may call at the same time
  MaxLate     \* bound: requests that arrive after their caller gave up

ASSUME AddressesAssumption == Phones \subseteq Addresses

VARIABLES
  backend,  \* status of each address at the backend
  local,    \* status of each address in the table lightning_addresses
  call,     \* the call each thread is in
  late,     \* requests on their way whose caller gave up or died
  blurred   \* history: addresses of which a caller cannot tell the status

vars == <<backend, local, call, late, blurred>>

-----------------------------------------------------------------------------
BackendStatus == {"unassigned", "enabled", "disabled"}

EnableStatus == {"Enabled", "FeatureDisabled"}

\* What the backend is asked for.
Verbs == {"assign", "enable", "disable"}

FeatureFlags == {Phones, Addresses \ Phones}

ToStatus(verb) == IF verb = "disable" THEN "FeatureDisabled" ELSE "Enabled"

FromStatus(verb) == IF verb = "disable" THEN "Enabled" ELSE "FeatureDisabled"

AtBackend(status) == IF status = "Enabled" THEN "enabled" ELSE "disabled"

Idle == [at |-> "idle", verb |-> "none", set |-> {}, alone |-> {}]

At(t, step) == call[t].at = step

InFlight(t) == call[t].at \in {"asking", "applied"}

\* The addresses some other call is at work on.
Busy(t) == UNION {call[u].set : u \in {v \in Threads \ {t} : InFlight(v)}}

\* An address is no longer a call's alone once another call on it begins.
Joined(S) == [u \in Threads |-> [call[u] EXCEPT !.alone = @ \ S]]

-----------------------------------------------------------------------------
Init ==
  /\ backend = [a \in Addresses |-> "unassigned"]
  /\ local = [a \in Addresses |-> "absent"]
  /\ call = [t \in Threads |-> Idle]
  /\ late = {}
  /\ blurred = {}

\* A call on the addresses S that answers for the addresses A.
Begin(t, verb, S, A) ==
  call' = [Joined(S) EXCEPT ![t] =
             [at |-> "asking", verb |-> verb, set |-> S, alone |-> A \ Busy(t)]]

\* LightningAddress::register and PhoneNumber::verify.
Register(t, a) ==
  /\ call[t] = Idle
  /\ Begin(t, "assign", {a}, {a})
  /\ UNCHANGED <<backend, local, late, blurred>>

\* Mutant: the addresses that already have the status asked for.
AlreadyThere(feature, verb) == {a \in feature : local[a] = ToStatus(verb)}

Candidates(feature, verb) == {a \in feature : local[a] = FromStatus(verb)}

Known(feature) == {a \in feature : local[a] # "absent"}

WorthAsking(S) == S # {}

SetFeatureFlag(t, feature, verb) ==
  /\ call[t] = Idle
  /\ LET S == Candidates(feature, verb) IN
       /\ WorthAsking(S)
       /\ Begin(t, verb, S, Known(feature))
  /\ UNCHANGED <<backend, local, late, blurred>>

\* "No lightning addresses to change the status": success, the backend unasked.
SetFeatureFlagAtOnce(t, feature, verb) ==
  /\ call[t] = Idle
  /\ Candidates(feature, verb) = {}
  /\ call' = [call EXCEPT ![t] =
                [at |-> "done", verb |-> verb, set |-> {},
                 alone |-> Known(feature) \ Busy(t)]]
  /\ UNCHANGED <<backend, local, late, blurred>>

-----------------------------------------------------------------------------
(* The backend.                                                              *)

\* Assigning an address again returns the one there is; whether that enables it
\* is the backend's choice.
Outcomes(verb, a) ==
  CASE verb = "enable"  -> {"enabled"}
    [] verb = "disable" -> {"disabled"}
    [] verb = "assign"  -> IF backend[a] = "unassigned" THEN {"enabled"}
                           ELSE {backend[a], "enabled"}

Applies(verb, S) ==
  /\ backend' \in [Addresses -> BackendStatus]
  /\ \A a \in Addresses :
       IF a \in S THEN backend'[a] \in Outcomes(verb, a) ELSE backend'[a] = backend[a]

BackendApplies(t) ==
  /\ At(t, "asking")
  /\ Applies(call[t].verb, call[t].set)
  /\ call' = [call EXCEPT ![t].at = "applied"]
  /\ UNCHANGED <<local, late, blurred>>

\* Mutant: the error of the request is ignored.
ErrorIgnored(t) == [call EXCEPT ![t].at = "applied"]

AfterRefusal(t) == [call EXCEPT ![t] = Idle]

\* The request is refused or does not get there.
BackendRefuses(t) ==
  /\ At(t, "asking")
  /\ call' = AfterRefusal(t)
  /\ UNCHANGED <<backend, local, late, blurred>>

\* The caller gets an error, or dies, when the backend has done its part.
AnswerLost(t) ==
  /\ At(t, "applied")
  /\ blurred' = blurred \cup call[t].set
  /\ call' = [call EXCEPT ![t] = Idle]
  /\ UNCHANGED <<backend, local, late>>

\* The caller gives up, or dies, and its request arrives later.
GivesUp(t) ==
  /\ At(t, "asking")
  /\ Cardinality(late) < MaxLate
  /\ late' = late \cup {[verb |-> call[t].verb, set |-> call[t].set]}
  /\ call' = [call EXCEPT ![t] = Idle]
  /\ UNCHANGED <<backend, local, blurred>>

LateArrives(r) ==
  /\ r \in late
  /\ Applies(r.verb, r.set)
  /\ late' = late \ {r}
  /\ blurred' = blurred \cup r.set
  /\ call' = Joined(r.set)
  /\ UNCHANGED local

-----------------------------------------------------------------------------
(* The table.                                                                *)

Written(S, status) == [a \in Addresses |-> IF a \in S THEN status ELSE local[a]]

\* All addresses of the call are written under one lock.  An address assigned
\* again is entered as enabled even if the backend left it disabled.
Stores(t) ==
  LET c == call[t]
      status == ToStatus(c.verb)
      sure == {a \in c.set \cap c.alone : c.verb = "assign" => backend[a] = "enabled"} IN
  /\ At(t, "applied")
  /\ local' = Written(c.set, status)
  /\ blurred' = (blurred \ sure) \cup (c.set \ sure)
  /\ call' = [call EXCEPT ![t].at = "done"]
  /\ UNCHANGED <<backend, late>>

\* try_for_each stops at the first row SQLite refuses.
StoresPart(t) ==
  /\ At(t, "applied")
  /\ \E S \in SUBSET call[t].set :
       /\ S # call[t].set
       /\ local' = Written(S, ToStatus(call[t].verb))
  /\ blurred' = blurred \cup call[t].set
  /\ call' = [call EXCEPT ![t] = Idle]
  /\ UNCHANGED <<backend, late>>

\* The caller sees that the call succeeded.
Returns(t) ==
  /\ At(t, "done")
  /\ call' = [call EXCEPT ![t] = Idle]
  /\ UNCHANGED <<backend, local, late, blurred>>

-----------------------------------------------------------------------------
Continue(t) ==
  \/ BackendApplies(t) \/ BackendRefuses(t) \/ AnswerLost(t) \/ GivesUp(t)
  \/ Stores(t) \/ StoresPart(t) \/ Returns(t)

Next ==
  \/ \E t \in Threads : Continue(t)
  \/ \E t \in Threads, a \in Addresses : Register(t, a)
  \/ \E t \in Threads, feature \in FeatureFlags, verb \in {"enable", "disable"} :
       SetFeatureFlag(t, feature, verb) \/ SetFeatureFlagAtOnce(t, feature, verb)
  \/ \E r \in late : LateArrives(r)

Spec == Init /\ [][Next]_vars

-----------------------------------------------------------------------------
\* A request never goes out for no address at all.
Calls ==
  [at : {"asking", "applied"}, verb : Verbs, set : (SUBSET Addresses) \ {{}},
   alone : SUBSET Addresses]
    \cup [at : {"done"}, verb : Verbs, set : SUBSET Addresses, alone : SUBSET Addresses]

TypeOK ==
  /\ backend \in [Addresses -> BackendStatus]
  /\ local \in [Addresses -> EnableStatus \cup {"absent"}]
  /\ call \in [Threads -> Calls \cup {Idle}]
  /\ late \in SUBSET [verb : Verbs, set : (SUBSET Addresses) \ {{}}]
  /\ blurred \in SUBSET Addresses

Agree(a) ==
  IF local[a] = "absent" THEN backend[a] = "unassigned"
  ELSE backend[a] = AtBackend(local[a])

\* Table and backend agree on every address, but for the moment in a call between
\* what the backend did and what the library writes, unless the last call on the
\* address lost an answer, failed in the table, overlapped another or was
\* overtaken by a late request.  A call that had its addresses to itself and
\* succeeded settles them again.
Agreement ==
  \A a \in Addresses :
    \/ a \in blurred
    \/ \E t \in Threads : At(t, "applied") /\ a \in call[t].set
    \/ Agree(a)

Succeeds(t) == call[t].at # "done" /\ call'[t].at = "done"

\* When set_feature_flag succeeds, by asking the backend or without, every
\* address of the feature that was its alone has the status asked for, at the
\* backend and in the table, unless it was blurred before and not asked for.
OkMeansSet ==
  [][\A t \in Threads : Succeeds(t) =>
       \A a \in call'[t].alone :
         \/ a \in blurred'
         \/ /\ local'[a] = ToStatus(call'[t].verb)
            /\ backend'[a] = AtBackend(local'[a])]_vars
=============================================================================
