------------------------- MODULE HealthStatusProofs -------------------------
(***************************************************************************)
(* Proofs about HealthStatus, for any number of tasks and any statuses.    *)
(*                                                                         *)
(* The argument: as long as no task was started beside another there is at *)
(* most one that is alive (OneTask), so what it compared is still so when  *)
(* it stores, and what it stored when it calls (Undisturbed).              *)
(***************************************************************************)
EXTENDS HealthStatus, TLAPS

-----------------------------------------------------------------------------
\* Without an overlap one task at most is alive: restart() starts one, and only
\* beside none.
OneTask == ~overlap => \A t, u \in Tasks : Alive(t) /\ Alive(u) => t = u

\* Without an overlap the status and what the app was told stay as the task that
\* is at work on them left them.
Undisturbed ==
  ~overlap =>
    /\ \A t \in Tasks : At(t, "changed") => told = status /\ answer[t] # status
    /\ \A t \in Tasks : At(t, "calling") => told # answer[t] /\ answer[t] = status
    /\ told = status \/ \E t \in Tasks : At(t, "calling")

IInv == TypeOK /\ OneTask /\ Undisturbed

-----------------------------------------------------------------------------
\* What every step of a task needs: the definitions of the steps it is made of.
USE DEF TaskTypeOK, Steps, Modes, Goto, At, taskVars

\* The initial states satisfy the invariant.
LEMMA InitIInv == Init => IInv
  BY DEF Init, TaskInit, IInv, TypeOK, OneTask, Undisturbed, Alive

\* Starting tasks: the new one is alone, or the overlap is recorded.
LEMMA ForegroundIInv ==
  ASSUME IInv, NEW t \in Tasks, Foreground(t) PROVE IInv'
<1>1. TypeOK'
  BY DEF IInv, TypeOK, Foreground, Spawn, Alive
<1>2. OneTask'
  BY DEF IInv, TypeOK, OneTask, Foreground, Spawn, Alive
<1>3. Undisturbed'
  BY DEF IInv, TypeOK, Undisturbed, Foreground, Spawn, Alive
<1> QED BY <1>1, <1>2, <1>3 DEF IInv

\* Stopping tasks, and the service's own changes, leave them where they are.
LEMMA OutsideIInv ==
  ASSUME IInv, Background \/ ServiceChanges PROVE IInv'
<1>1. TypeOK'
  BY DEF IInv, TypeOK, Background, StopAll, ServiceChanges
<1>2. OneTask' /\ Undisturbed'
  BY DEF IInv, OneTask, Undisturbed, Background, StopAll, ServiceChanges, Alive
<1> QED BY <1>1, <1>2 DEF IInv

\* The end of the process leaves no task and nothing known.
LEMMA CrashIInv == ASSUME IInv, Crash PROVE IInv'
  BY DEF IInv, TypeOK, OneTask, Undisturbed, Crash, TasksDie, Alive

\* The steps of a task before it touches the status.
LEMMA AskingIInv ==
  ASSUME IInv, NEW t \in Tasks, Tick(t) \/ StopTask(t) \/ Answered(t) \/ RequestFails(t)
  PROVE  IInv'
<1>1. TypeOK'
  BY HealthAssumption
     DEF IInv, TypeOK, Tick, TickTo, StopTask, Stops, Answered, Reply, RequestFails, Step
<1>2. OneTask'
  BY DEF IInv, TypeOK, OneTask, Alive,
         Tick, TickTo, StopTask, Stops, Answered, RequestFails, Step
<1>3. Undisturbed'
  BY DEF IInv, TypeOK, Undisturbed,
         Tick, TickTo, StopTask, Stops, Answered, Reply, RequestFails, Step
<1> QED BY <1>1, <1>2, <1>3 DEF IInv

\* The comparison: no other task is between its own comparison and its call.
LEMMA CompareIInv == ASSUME IInv, NEW t \in Tasks, Compare(t) PROVE IInv'
<1>1. TypeOK'
  BY DEF IInv, TypeOK, Compare, Differs, Step
<1>2. OneTask'
  BY DEF IInv, TypeOK, OneTask, Alive, Compare, Step
<1>3. Undisturbed'
  <2> SUFFICES ASSUME ~overlap PROVE Undisturbed'
    BY DEF Undisturbed, Compare, Step
  <2>1. \A u \in Tasks : At(u, "calling") => FALSE
    BY DEF IInv, TypeOK, OneTask, Alive, Compare, Step
  <2>2. told = status
    BY <2>1 DEF IInv, Undisturbed
  <2> QED BY <2>1, <2>2 DEF IInv, TypeOK, OneTask, Undisturbed, Compare, Differs, Step
<1> QED BY <1>1, <1>2, <1>3 DEF IInv

\* The assignment: what the app was told is what was stored before.
LEMMA StoreIInv == ASSUME IInv, NEW t \in Tasks, Store(t) PROVE IInv'
<1>1. TypeOK'
  BY DEF IInv, TypeOK, Store, Kept, Step
<1>2. OneTask'
  BY DEF IInv, TypeOK, OneTask, Alive, Store, Step
<1>3. Undisturbed'
  BY DEF IInv, TypeOK, OneTask, Alive, Undisturbed, Store, Kept, Step
<1> QED BY <1>1, <1>2, <1>3 DEF IInv

\* The call back: the app is told what was stored.
LEMMA CallBackIInv == ASSUME IInv, NEW t \in Tasks, CallBack(t) PROVE IInv'
<1>1. TypeOK'
  BY DEF IInv, TypeOK, CallBack, Step
<1>2. OneTask'
  BY DEF IInv, TypeOK, OneTask, Alive, CallBack, Step
<1>3. Undisturbed'
  BY DEF IInv, TypeOK, OneTask, Alive, Undisturbed, CallBack, Step
<1> QED BY <1>1, <1>2, <1>3 DEF IInv

\* Every step preserves the invariant.
LEMMA NextIInv == IInv /\ [Next]_vars => IInv'
<1> SUFFICES ASSUME IInv, [Next]_vars PROVE IInv'
  OBVIOUS
<1>1. CASE UNCHANGED vars
  BY <1>1 DEF IInv, TypeOK, OneTask, Undisturbed, Alive, vars
<1>2. CASE \E t \in Tasks : Foreground(t) \/ Continue(t)
  BY <1>2, ForegroundIInv, AskingIInv, CompareIInv, StoreIInv, CallBackIInv DEF Continue
<1>3. CASE Background \/ Crash \/ ServiceChanges
  BY <1>3, OutsideIInv, CrashIInv
<1> QED BY <1>1, <1>2, <1>3 DEF Next

\* The invariant holds in every behaviour.
THEOREM Invariant == Spec => []IInv
  BY InitIInv, NextIInv, PTL DEF Spec

-----------------------------------------------------------------------------
\* Every variable keeps its type, and a task holds an answer exactly from the
\* request to the call back.
THEOREM TypeCorrect == Spec => []TypeOK
<1>1. IInv => TypeOK
  BY DEF IInv
<1> QED BY <1>1, Invariant, PTL

\* Unless tasks of two generations ran together, the status the task manager
\* keeps is the one the app was called back with.
THEOREM StatusIsTold == Spec => []KeptIsTold
<1>1. IInv => KeptIsTold
  BY DEF IInv, Undisturbed, KeptIsTold
<1> QED BY <1>1, Invariant, PTL

\* Unless tasks of two generations ran together, the app is never called back
\* with a status it knows.
THEOREM NoRepeatedCalls == Spec => CallsAreNews
<1>1. IInv /\ [Next]_vars => (IsCall /\ ~overlap => told' # told)
  <2> SUFFICES ASSUME IInv, [Next]_vars, ~overlap,
                      NEW t \in Tasks, At(t, "calling"), pc'[t] = "waiting"
               PROVE  told' # told
    BY DEF IsCall
  <2>1. CASE \E u \in Tasks : CallBack(u)
    <3>1. PICK u \in Tasks : CallBack(u)
      BY <2>1
    <3>2. told # answer[u]
      BY <3>1 DEF IInv, Undisturbed, CallBack, Step
    <3> QED BY <3>1, <3>2 DEF CallBack
  <2>2. CASE ~\E u \in Tasks : CallBack(u)
    <3>1. pc'[t] # "waiting"
      BY <2>2 DEF IInv, TypeOK, Next, Continue, vars, Foreground, Spawn, Alive, Background,
         StopAll, Crash, TasksDie, ServiceChanges, Tick, TickTo, StopTask, Stops, Answered,
         RequestFails, Compare, Store, Step
    <3> QED BY <3>1
  <2> QED BY <2>1, <2>2
<1>2. IInv /\ [Next]_vars => [IsCall /\ ~overlap => told' # told]_vars
  BY <1>1
<1> QED BY <1>2, Invariant, PTL DEF Spec, CallsAreNews
=============================================================================
