--------------------------- MODULE RepeatingTask ---------------------------
(***************************************************************************)
(* The repeating tasks of the TaskManager: how they are started, stopped   *)
(* and overlap.                                                            *)
(*                                                                         *)
(* foreground() and background() send a stop request to every running task *)
(* and start new ones at once.  A task notices the request only between    *)
(* two iterations, so an old task may be in the middle of an iteration     *)
(* while a new one works.  The modules that extend this one say what an    *)
(* iteration does.                                                         *)
(***************************************************************************)

CONSTANTS Tasks  \* slots for tasks of one kind that are alive at the same time

VARIABLES
  mode,    \* "down", or the mode the app put the running node in
  pc,      \* where each task is
  stop,    \* the tasks that were asked to stop
  overlap  \* history: a task was started while an older one was alive

taskVars == <<mode, pc, stop, overlap>>

-----------------------------------------------------------------------------
Modes == {"down", "foreground", "background"}

TaskTypeOK(steps) ==
  /\ mode \in Modes
  /\ pc \in [Tasks -> {"dead", "waiting"} \cup steps]
  /\ stop \in SUBSET Tasks
  /\ overlap \in BOOLEAN

Up == mode # "down"

Alive(t) == pc[t] # "dead"

At(t, step) == pc[t] = step

Goto(t, step) == pc' = [pc EXCEPT ![t] = step]

TaskInit ==
  /\ mode = "down"
  /\ pc = [t \in Tasks |-> "dead"]
  /\ stop = {}
  /\ overlap = FALSE

\* restart() with the foreground periods.
Spawn(t) ==
  /\ ~Alive(t)
  /\ Goto(t, "waiting")
  /\ mode' = "foreground"
  /\ stop' = {u \in Tasks : Alive(u)}
  /\ overlap' = (overlap \/ \E u \in Tasks : Alive(u))

\* restart() with the background periods, which leave out the tasks that are
\* modelled.
StopAll ==
  /\ Up
  /\ mode' = "background"
  /\ stop' = {u \in Tasks : Alive(u)}
  /\ UNCHANGED <<pc, overlap>>

\* The process ends, and its tasks with it.
TasksDie ==
  /\ Up
  /\ mode' = "down"
  /\ pc' = [t \in Tasks |-> "dead"]
  /\ stop' = {}
  /\ UNCHANGED overlap

\* The tick; when a stop request is there as well select! picks either.
TickTo(t, step) ==
  /\ At(t, "waiting")
  /\ Goto(t, step)
  /\ UNCHANGED <<mode, stop, overlap>>

Stops(t) ==
  /\ At(t, "waiting")
  /\ t \in stop
  /\ Goto(t, "dead")
  /\ UNCHANGED <<mode, stop, overlap>>

\* A step within an iteration, which no stop request interrupts.
Step(t, from, to) ==
  /\ At(t, from)
  /\ Goto(t, to)
  /\ UNCHANGED <<mode, stop, overlap>>
=============================================================================
