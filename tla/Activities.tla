----------------------------- MODULE Activities -----------------------------
(***************************************************************************)
(* The list of activities, and the lookup of one.                          *)
(*                                                                         *)
(* Activities::list puts together what three sources know: the payments of *)
(* the SDK (the latest, a limited number), the invoices the library        *)
(* created (those that may still be paid and the last of those that        *)
(* expired) and the swap in progress.  It reads them one after the other,  *)
(* while payments arrive, end and invoices expire.                         *)
(*                                                                         *)
(* Everything that happens takes a moment of its own, and an activity is   *)
(* identified with the moment it was created.                              *)
(***************************************************************************)
EXTENDS Naturals, FiniteSets

CONSTANTS
  Requested,  \* numbers of completed activities the app may ask for
  Leeway,     \* LEEWAY_FOR_PENDING_PAYMENTS
  Lifetime,   \* moments after its creation an invoice expires
  MaxTime     \* bound: moments

ASSUME ActivitiesAssumption ==
  Requested \subseteq Nat /\ Leeway \in Nat /\ Lifetime \in Nat /\ MaxTime \in Nat

VARIABLES
  now,   \* the moment
  act,   \* what there is to list: kind, the SDK's status, the SDK's payment time
  call   \* the call of list or get, and what it has read

vars == <<now, act, call>>

-----------------------------------------------------------------------------
Moments == 1..MaxTime

Kinds == {"invoice", "sent", "close", "swap"}

\* "unknown": the SDK has no payment of this hash.
Status == {"unknown", "pending", "complete", "failed"}

Nothing == [kind |-> "none", status |-> "unknown", paid |-> 0]

\* The members of S with the k largest keys.
Latest(S, key, k) == {a \in S : Cardinality({b \in S : key[b] > key[a]}) < k}

InProgress == {i \in Moments : act[i].kind = "swap" /\ act[i].status = "unknown"}

Expired(i) == now > i + Lifetime

-----------------------------------------------------------------------------
Init ==
  /\ now = 0
  /\ act = [i \in Moments |-> Nothing]
  /\ call = [at |-> "idle"]

\* Something happens to activity i, at the next moment.
Happens(i, kind, status, paid) ==
  /\ now < MaxTime
  /\ now' = now + 1
  /\ act' = [act EXCEPT ![i] = [kind |-> kind, status |-> status, paid |-> paid]]
  /\ UNCHANGED call

Soon == now + 1

\* Bolt11::create, or the handler of a payment to a lightning address.
CreateInvoice == Happens(Soon, "invoice", "unknown", 0)

\* The SDK learns of the payment, with the next sync at the latest.
Receive(i) ==
  /\ act[i].kind = "invoice" /\ act[i].status = "unknown"
  /\ Happens(i, "invoice", "complete", Soon)

Send == Happens(Soon, "sent", "pending", Soon)

CloseStarts == Happens(Soon, "close", "pending", Soon)

\* Payments end one way or the other, channel closes are confirmed.
Ends(i, status) ==
  /\ act[i].status = "pending"
  /\ act[i].kind = "close" => status = "complete"
  /\ Happens(i, act[i].kind, status, act[i].paid)

\* The SDK allows one swap at a time.
SwapStarts == InProgress = {} /\ Happens(Soon, "swap", "unknown", 0)

SwapRedeemed(i) == i \in InProgress /\ Happens(i, "swap", "complete", Soon)

TimePasses ==
  /\ now < MaxTime
  /\ now' = now + 1
  /\ UNCHANGED <<act, call>>

-----------------------------------------------------------------------------
\* An item of the list comes from the SDK, from the table of created invoices or
\* is the swap in progress.
Items == [id : Moments, by : {"sdk", "row", "swap"}, state : {"pending", "completed"}]

\* What is listed, the latest first, is sorted by this: payments received by the
\* time of their invoice, pending channel closes by the time they were looked at.
Time(a) ==
  LET of == call.sdk[a.id]
  IN CASE a.by = "row" \/ of.kind = "invoice" -> a.id
       [] of.kind = "close" /\ of.status = "pending" -> MaxTime + 1 + (MaxTime - of.paid)
       [] OTHER -> of.paid

\* activity_from_breez_payment, Activity::is_pending
FromSdk(i) ==
  [id |-> i, by |-> "sdk",
   state |-> IF call.sdk[i].status = "pending" THEN "pending" ELSE "completed"]

\* payment_from_created_invoice
FromRow(i) ==
  [id |-> i, by |-> "row", state |-> IF Expired(i) THEN "completed" ELSE "pending"]

\* What the SDK answers with: the latest payments.
SdkPayments ==
  LET known == {i \in Moments : call.sdk[i].status # "unknown"}
  IN Latest(known, [i \in known |-> call.sdk[i].paid], call.n + Leeway)

\* DataStore::retrieve_created_invoices
CreatedInvoices(n) ==
  LET expired == {i \in Moments : act[i].kind = "invoice" /\ Expired(i)}
  IN {i \in Moments : act[i].kind = "invoice" /\ ~Expired(i)}
       \cup Latest(expired, [i \in expired |-> i], n)

\* Mutant: keeps the invoices that were paid.
AllRows == call.rows

\* The invoices the SDK did not answer with a payment for.
UnpaidRows == call.rows \ SdkPayments

\* multiplex_activities
Multiplexed == {FromSdk(i) : i \in SdkPayments} \cup {FromRow(i) : i \in UnpaidRows}

LatestOf(S, k) == Latest(S, [a \in S |-> Time(a)], k)

\* Mutant: leaves the invoices out of account.
LeewayOnly == Leeway

LookForPending == Leeway + Cardinality(call.rows)

Head == LatestOf(Multiplexed, LookForPending)

Pending == {a \in Head : a.state = "pending"}

\* Mutant: drops what is behind the head.
HeadOnly == LatestOf({a \in Head : a.state = "completed"}, call.n)

Completed == LatestOf({a \in Multiplexed : a.state = "completed"}, call.n)

-----------------------------------------------------------------------------
\* Activities::list asks the SDK, reads the table, sorts and cuts, and asks for
\* the swap.
List(n) ==
  /\ call.at = "idle"
  /\ call' = [at |-> "asked", n |-> n, since |-> now, sdk |-> act]
  /\ UNCHANGED <<now, act>>

ReadRows ==
  /\ call.at = "asked"
  /\ call' = [at |-> "read", n |-> call.n, since |-> call.since, sdk |-> call.sdk,
              rows |-> CreatedInvoices(call.n)]
  /\ UNCHANGED <<now, act>>

Partition ==
  /\ call.at = "read"
  /\ call' = [at |-> "cut", n |-> call.n, since |-> call.since, sdk |-> call.sdk,
              pending |-> Pending, completed |-> Completed]
  /\ UNCHANGED <<now, act>>

ReadSwap ==
  /\ call.at = "cut"
  /\ call' = [call EXCEPT !.at = "listed",
                          !.pending = @ \cup {[id |-> i, by |-> "swap", state |-> "pending"] :
                                              i \in InProgress}]
  /\ UNCHANGED <<now, act>>

\* Activities::get asks the SDK for the payment and, when there is none, reads the
\* table.  It fails when there is no invoice either.
Get(i) ==
  /\ call.at = "idle"
  /\ call' = [at |-> IF act[i].status = "unknown" THEN "missed" ELSE "got",
              id |-> i, by |-> "sdk", sdk |-> act]
  /\ UNCHANGED <<now, act>>

ReadRow ==
  /\ call.at = "missed"
  /\ call' = IF act[call.id].kind = "invoice"
             THEN [call EXCEPT !.at = "got", !.by = "row"]
             ELSE [at |-> "idle"]
  /\ UNCHANGED <<now, act>>

Return ==
  /\ call.at \in {"listed", "got"}
  /\ call' = [at |-> "idle"]
  /\ UNCHANGED <<now, act>>

World ==
  \/ CreateInvoice \/ Send \/ CloseStarts \/ SwapStarts \/ TimePasses
  \/ \E i \in Moments : Receive(i) \/ SwapRedeemed(i)
  \/ \E i \in Moments, s \in {"complete", "failed"} : Ends(i, s)

App ==
  \/ \E n \in Requested : List(n)
  \/ \E i \in Moments : Get(i)
  \/ ReadRows \/ Partition \/ ReadSwap \/ ReadRow \/ Return

Next == World \/ App

Spec == Init /\ [][Next]_vars

-----------------------------------------------------------------------------
Activity == [kind : Kinds \cup {"none"}, status : Status, paid : 0..MaxTime]

AreItems(S, state) == S \subseteq {a \in Items : a.state = state}

TypeOK ==
  /\ now \in 0..MaxTime
  /\ act \in [Moments -> Activity]
  /\ call.at \in {"idle", "asked", "read", "cut", "listed", "missed", "got"}
  /\ call.at = "read" => call.rows \subseteq Moments
  /\ call.at \in {"cut", "listed"} =>
       /\ AreItems(call.pending, "pending") /\ AreItems(call.completed, "completed")
       /\ Cardinality(call.completed) <= call.n

\* The payments the SDK knew when the call began.
KnownThen == {i \in Moments : call.sdk[i].status # "unknown"}

\* A payment the SDK knew when the call began is never shown as an invoice that
\* waits for its payer or expired, neither in the list nor alone, unless the list
\* left it out for as many later payments as it asks for: what is read after the
\* SDK's answer never contradicts it.
PaidIsNotAwaited ==
  /\ call.at = "listed" =>
       \A a \in call.pending \cup call.completed :
         a.by = "row" /\ a.id \in KnownThen =>
           Cardinality({i \in KnownThen : call.sdk[i].paid > call.sdk[a.id].paid}) >= call.n + Leeway
  /\ call.at = "got" /\ call.by = "row" => call.id \notin KnownThen

\* What was completed when the call began, and nothing happened to since.
CompletedThroughout ==
  {i \in KnownThen : call.sdk[i].status # "pending"}
    \cup {i \in Moments : /\ act[i].kind = "invoice" /\ act[i].status = "unknown"
                          /\ call.since > i + Lifetime}

\* The time it is sorted by.
SortedBy(i) ==
  IF act[i].kind = "invoice" THEN i ELSE act[i].paid

\* The completed activities are the latest: one that is left out makes room for
\* as many later ones as were asked for, as long as the SDK answered with all the
\* payments it has.
LatestShown ==
  call.at = "listed" /\ Cardinality(KnownThen) <= call.n + Leeway =>
    \A i \in CompletedThroughout :
      \/ \E a \in call.completed : a.id = i
      \/ Cardinality({a \in call.completed : Time(a) > SortedBy(i)}) = call.n

\* What was pending when the call began and still is when it ends.
PendingThroughout ==
  {i \in KnownThen : act[i].status = "pending"}
    \cup {i \in 1..call.since : act[i].kind = "invoice" /\ act[i].status = "unknown" /\ ~Expired(i)}

InPending(i) == \E a \in call.pending : a.id = i

\* Every pending activity is listed, as long as the SDK has no more payments than
\* the leeway, and a swap in progress is listed always.
PendingShown ==
  call.at = "listed" =>
    /\ Cardinality(KnownThen) <= Leeway => \A i \in PendingThroughout : InPending(i)
    /\ \A i \in InProgress : i <= call.since => InPending(i)
=============================================================================
