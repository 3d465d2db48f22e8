---------------------------- MODULE HealthStatus ----------------------------
(***************************************************************************)
(* The task that asks for the health of the Breez services and calls the   *)
(* app back when it changed.                                               *)
(*                                                                         *)
(* An iteration compares the answer with the status it keeps, stores it    *)
(* and calls back: three steps, each with its own lock or none.            *)
(***************************************************************************)
EXTENDS RepeatingTask

CONSTANTS
  Statuses,  \* Operational, Maintenance and ServiceDisruption
  None       \* no status known

ASSUME HealthAssumption == None \notin Statuses

VARIABLES
  service,  \* the health of the services
  answer,   \* what each task's request was answered with
  status,   \* breez_health_status
  told      \* the status the app was last called back with

vars == <<taskVars, service, answer, status, told>>

-----------------------------------------------------------------------------
Steps == {"asking", "answered", "changed", "calling"}

Init ==
  /\ TaskInit
  /\ service \in Statuses
  /\ answer = [t \in Tasks |-> None]
  /\ status = None
  /\ told = None

\* LightningNode::new and foreground().  A new node knows no status, and neither
\* does the app's callback.
Foreground(t) ==
  /\ Spawn(t)
  /\ UNCHANGED <<service, answer, status, told>>

Background ==
  /\ StopAll
  /\ UNCHANGED <<service, answer, status, told>>

Crash ==
  /\ TasksDie
  /\ answer' = [t \in Tasks |-> None]
  /\ status' = None
  /\ told' = None
  /\ UNCHANGED service

ServiceChanges ==
  /\ \E s \in Statuses \ {service} : service' = s
  /\ UNCHANGED <<taskVars, answer, status, told>>

-----------------------------------------------------------------------------
Tick(t) ==
  /\ TickTo(t, "asking")
  /\ UNCHANGED <<service, answer, status, told>>

StopTask(t) ==
  /\ Stops(t)
  /\ UNCHANGED <<service, answer, status, told>>

Reply == service

Answered(t) ==
  /\ Step(t, "asking", "answered")
  /\ answer' = [answer EXCEPT ![t] = Reply]
  /\ UNCHANGED <<service, status, told>>

RequestFails(t) ==
  /\ Step(t, "asking", "waiting")
  /\ UNCHANGED <<service, answer, status, told>>

\* Mutant: calls back whatever it is told.
Always(t) == TRUE

\* Mutant: calls back the first time only.
FirstTime(t) == status = None

Differs(t) == status # answer[t]

\* The lock is released with the comparison.
Compare(t) ==
  /\ Step(t, "answered", IF Differs(t) THEN "changed" ELSE "waiting")
  /\ answer' = IF Differs(t) THEN answer ELSE [answer EXCEPT ![t] = None]
  /\ UNCHANGED <<service, status, told>>

\* Mutant: the new status is not kept.
NotKept(t) == status

Kept(t) == answer[t]

Store(t) ==
  /\ Step(t, "changed", "calling")
  /\ status' = Kept(t)
  /\ UNCHANGED <<service, answer, told>>

CallBack(t) ==
  /\ Step(t, "calling", "waiting")
  /\ told' = answer[t]
  /\ answer' = [answer EXCEPT ![t] = None]
  /\ UNCHANGED <<service, status>>

Continue(t) ==
  Tick(t) \/ StopTask(t) \/ Answered(t) \/ RequestFails(t) \/ Compare(t) \/ Store(t) \/ CallBack(t)

Next ==
  \/ \E t \in Tasks : Foreground(t) \/ Continue(t)
  \/ Background \/ Crash \/ ServiceChanges

Spec == Init /\ [][Next]_vars

\* tokio polls every ready task, and the request is not answered with an error
\* forever.
Fairness ==
  \A t \in Tasks :
    /\ WF_vars(Compare(t) \/ Store(t) \/ CallBack(t))
    /\ SF_vars(Tick(t)) /\ SF_vars(Answered(t)) /\ SF_vars(StopTask(t))

FairSpec == Spec /\ Fairness

-----------------------------------------------------------------------------
TypeOK ==
  /\ TaskTypeOK(Steps)
  /\ service \in Statuses
  /\ answer \in [Tasks -> Statuses \cup {None}]
  /\ \A t \in Tasks : answer[t] # None <=> pc[t] \in {"answered", "changed", "calling"}
  /\ status \in Statuses \cup {None}
  /\ told \in Statuses \cup {None}

\* Unless tasks of two generations ran together, the status kept is the one the
\* app was told, but for the moment between the two.  With an overlap the last
\* call may be with an older status than the one kept, and no later iteration
\* notices.
KeptIsTold ==
  ~overlap => told = status \/ \E t \in Tasks : At(t, "calling")

IsCall == \E t \in Tasks : At(t, "calling") /\ pc'[t] = "waiting"

\* Without such an overlap the app is never called with what it knows.
CallsAreNews == [][IsCall /\ ~overlap => told' # told]_vars

\* When the services settle, the node stays in the foreground and no tasks of two
\* generations ran together, the app learns the status and is left with it.
AppLearns ==
  \A s \in Statuses :
    <>[](service = s /\ mode = "foreground" /\ ~overlap) => <>[](told = s)
=============================================================================
