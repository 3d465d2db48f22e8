---------------------------- MODULE PaymentWait ----------------------------
(***************************************************************************)
(* How the notification handler waits for a payment.                       *)
(*                                                                         *)
(* A loop looks the payment up in the SDK and then waits a while for an    *)
(* event.  An event that says the payment was received makes it wait for   *)
(* the next synced event, for as long as that takes; every other event is  *)
(* dropped.  The deadline is looked at between two rounds only.            *)
(***************************************************************************)
EXTENDS Naturals, Sequences

CONSTANTS
  Hashes,     \* payment hashes
  Timeout,    \* time the caller of handle_notification grants
  Period,     \* time a round waits for an event
  MaxTime,    \* bound: where the clock stops
  MaxEvents   \* bound: events that are sent and not received yet

ASSUME WaitAssumption ==
  /\ Hashes # {}
  /\ {Timeout, Period, MaxTime, MaxEvents} \subseteq Nat
  /\ Period > 0

VARIABLES
  now,        \* the clock; the call came at 0
  wait,       \* where the loop is
  events,     \* the channel from the SDK's listener to the loop
  connected,  \* the SDK still holds the other end of the channel
  payments,   \* what the SDK knows of each payment
  paid,       \* the payments that were received
  announced,  \* those an event was sent for
  settledAt,  \* history: when the SDK completed each payment
  begunAt,    \* history: when the loop was entered
  stalled     \* history: a wait for a synced event outlasted the deadline

waitVars ==
  <<now, wait, events, connected, payments, paid, announced, settledAt, begunAt, stalled>>

-----------------------------------------------------------------------------
Event == [type : {"paid"}, hash : Hashes, details : BOOLEAN] \cup [type : {"synced", "other"}]

Synced == [type |-> "synced"]

Other == [type |-> "other"]

Never == MaxTime + 1

WaitStates ==
  {"idle", "looping", "receiving", "syncing", "received", "notReceived", "failed"}

WaitTypeOK ==
  /\ now \in 0..MaxTime
  /\ wait \in [at : WaitStates, hash : Hashes, until : Nat, details : BOOLEAN]
  /\ events \in Seq(Event)
  /\ Len(events) <= MaxEvents
  /\ connected \in BOOLEAN
  /\ payments \in [Hashes -> {"unknown", "pending", "complete"}]
  /\ paid \in SUBSET Hashes
  /\ announced \in SUBSET paid
  /\ settledAt \in [Hashes -> 0..Never]
  /\ begunAt \in 0..Never
  /\ stalled \in BOOLEAN

Waiting == wait.at \in {"looping", "receiving", "syncing"}

WaitInit ==
  /\ now = 0
  /\ wait = [at |-> "idle", hash |-> CHOOSE h \in Hashes : TRUE, until |-> 0, details |-> FALSE]
  /\ events = <<>>
  /\ connected = TRUE
  /\ payments = [h \in Hashes |-> "unknown"]
  /\ paid = {}
  /\ announced = {}
  /\ settledAt = [h \in Hashes |-> Never]
  /\ begunAt = Never
  /\ stalled = FALSE

World == <<connected, payments, paid, announced, settledAt>>

WaitFor(h) ==
  /\ wait' = [wait EXCEPT !.at = "looping", !.hash = h]
  /\ begunAt' = now
  /\ UNCHANGED <<now, events, World, stalled>>

-----------------------------------------------------------------------------
(* wait_for_payment.                                                         *)

InTime == now < Timeout

\* Mutant: a payment that is known is taken for received.
IsKnown(h) == payments[h] # "unknown"

IsConfirmed(h) == payments[h] = "complete"

\* Mutant: a round waits as long as the call may take.
UntilDeadline == now + Timeout

RoundEnds == now + Period

Look ==
  /\ wait.at = "looping" /\ InTime
  /\ wait' = IF IsConfirmed(wait.hash)
             THEN [wait EXCEPT !.at = "received"]
             ELSE [wait EXCEPT !.at = "receiving", !.until = RoundEnds]
  /\ UNCHANGED <<now, events, World, begunAt, stalled>>

LookFails ==
  /\ wait.at = "looping" /\ InTime
  /\ wait' = [wait EXCEPT !.at = "failed"]
  /\ UNCHANGED <<now, events, World, begunAt, stalled>>

GiveUp ==
  /\ wait.at = "looping" /\ ~InTime
  /\ wait' = [wait EXCEPT !.at = "notReceived"]
  /\ UNCHANGED <<now, events, World, begunAt, stalled>>

-----------------------------------------------------------------------------
(* check_for_received_payment and wait_for_synced_event.                     *)

IsOurs(e) == e.type = "paid" /\ e.hash = wait.hash

TakeEvent ==
  /\ wait.at = "receiving" /\ events # <<>>
  /\ events' = Tail(events)
  /\ wait' = LET e == Head(events) IN
               IF IsOurs(e)
               THEN [wait EXCEPT !.at = "syncing", !.details = e.details]
               ELSE [wait EXCEPT !.at = "looping"]
  /\ UNCHANGED <<now, World, begunAt, stalled>>

NoEvent ==
  /\ wait.at = "receiving" /\ events = <<>> /\ now >= wait.until
  /\ wait' = [wait EXCEPT !.at = "looping"]
  /\ UNCHANGED <<now, events, World, begunAt, stalled>>

\* Without the payment's details the loop goes on as if nothing had come.
AfterSync == IF wait.details THEN "received" ELSE "looping"

\* Mutant: waits on, synced or not.
NeverSynced(e) == FALSE

EndsSync(e) == e = Synced

TakeWhileSyncing ==
  /\ wait.at = "syncing" /\ events # <<>>
  /\ events' = Tail(events)
  /\ LET ends == EndsSync(Head(events)) IN
       /\ wait' = IF ends THEN [wait EXCEPT !.at = AfterSync] ELSE wait
       /\ stalled' = (stalled \/ (ends /\ ~wait.details /\ now + Period >= Timeout))
  /\ UNCHANGED <<now, World, begunAt>>

Disconnected ==
  /\ wait.at \in {"receiving", "syncing"} /\ events = <<>> /\ ~connected
  /\ wait' = [wait EXCEPT !.at = "failed"]
  /\ UNCHANGED <<now, events, World, begunAt, stalled>>

LoopStep ==
  \/ Look \/ LookFails \/ GiveUp
  \/ TakeEvent \/ NoEvent \/ TakeWhileSyncing \/ Disconnected

-----------------------------------------------------------------------------
(* The SDK, its services and the clock.                                      *)

IsPaid(h) ==
  /\ h \notin paid
  /\ paid' = paid \cup {h}
  /\ UNCHANGED <<now, wait, events, connected, payments, announced, settledAt, begunAt, stalled>>

\* An HTLC of the payment is there, and may never be settled.
IsPending(h) ==
  /\ connected /\ payments[h] = "unknown"
  /\ payments' = [payments EXCEPT ![h] = "pending"]
  /\ UNCHANGED <<now, wait, events, connected, paid, announced, settledAt, begunAt, stalled>>

Completes(h) ==
  /\ connected /\ h \in paid /\ payments[h] # "complete"
  /\ payments' = [payments EXCEPT ![h] = "complete"]
  /\ settledAt' = [settledAt EXCEPT ![h] = now]
  /\ UNCHANGED <<now, wait, events, connected, paid, announced, begunAt, stalled>>

\* The loop waits for the next event or the end of the round.
Blocked ==
  \/ wait.at = "receiving" /\ events = <<>> /\ now < wait.until
  \/ wait.at = "syncing" /\ events = <<>>

\* Once the loop runs it takes an event in no time, so that the next one comes
\* when it is blocked again.  Before, events pile up.
Send(e) ==
  /\ connected /\ (Waiting => Blocked) /\ Len(events) < MaxEvents
  /\ events' = Append(events, e)
  /\ UNCHANGED <<now, wait, connected, payments, paid, settledAt, begunAt, stalled>>

SendPaid(h) ==
  /\ h \in paid \ announced
  /\ \E d \in BOOLEAN : Send([type |-> "paid", hash |-> h, details |-> d])
  /\ announced' = announced \cup {h}

SendSynced == Send(Synced) /\ UNCHANGED announced

SendOther == Send(Other) /\ UNCHANGED announced

Disconnect ==
  /\ connected
  /\ connected' = FALSE
  /\ UNCHANGED <<now, wait, events, payments, paid, announced, settledAt, begunAt, stalled>>

\* Time passes while the loop is blocked: it runs as soon as it can.
Tick ==
  /\ now < MaxTime
  /\ now' = now + 1
  /\ UNCHANGED <<wait, events, World, begunAt, stalled>>

SdkLearns(h) == IsPending(h) \/ Completes(h)

SdkSends == (\E h \in Hashes : SendPaid(h)) \/ SendSynced \/ SendOther \/ Disconnect

-----------------------------------------------------------------------------
\* A payment is reported as not received only when the SDK completed it less than
\* one round before the deadline, or the node took until the deadline to start,
\* or the loop had been told of the payment without its details and the synced
\* event it then waited for came as late.  (The documentation of the error code
\* says "not received in time": a payment of the last round is, and is missed.)
MissedOnlyLate ==
  wait.at = "notReceived" =>
    \/ settledAt[wait.hash] + Period >= Timeout
    \/ begunAt >= Timeout
    \/ stalled
=============================================================================
