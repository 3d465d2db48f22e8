------------------------ MODULE NotificationsProofs ------------------------
(***************************************************************************)
(* Proofs about Notifications, for any payments, swaps, addresses, timeout *)
(* and number of events.                                                   *)
(*                                                                         *)
(* The handler is one of three things once it is started: waiting for a    *)
(* payment, answering a payer, or neither.  WaitInv and AnswerInv say what *)
(* is so at each place of the two, HandlerInv which of them is going on    *)
(* and for what.                                                           *)
(***************************************************************************)
EXTENDS Notifications, TLAPS

-----------------------------------------------------------------------------
(* The wait for a payment                                                    *)

\* Why a payment may be missed at the deadline, see MissedOnlyLate.
Late ==
  \/ settledAt[wait.hash] + Period >= Timeout
  \/ begunAt >= Timeout
  \/ stalled

\* Only received payments are complete or announced.
PaidInv ==
  /\ \A h \in Hashes :
       IF payments[h] = "complete" THEN h \in paid ELSE settledAt[h] = Never
  /\ \A i \in DOMAIN events : events[i].type = "paid" => events[i].hash \in paid
  /\ wait.at \in {"syncing", "received"} => wait.hash \in paid

\* A round that waits found the payment incomplete when it began; a loop that is
\* late knows why.
RoundInv ==
  /\ wait.at = "receiving" =>
       /\ now <= wait.until /\ wait.until <= now + Period
       /\ wait.until <= settledAt[wait.hash] + Period
  /\ wait.at = "looping" => now < Timeout \/ Late
  /\ wait.at = "notReceived" => now >= Timeout /\ Late

WaitInv == WaitTypeOK /\ PaidInv /\ RoundInv

-----------------------------------------------------------------------------
(* The answer to a payer                                                     *)

AnswerInv ==
  /\ LnurlTypeOK
  /\ lnurl.at \in {"idle", "fee", "address", "webhook", "invoice", "rates", "row", "refuse"} =>
       answer = "none" /\ row = "absent" /\ ~unwritten
  /\ lnurl.at = "submit" => answer = "none" /\ (row = "stored" \/ unwritten)
  /\ lnurl.at # "idle" /\ IsEnabled => enabled
  /\ lnurl.at \in {"webhook", "invoice", "rates", "row", "submit"} => enabled
  /\ lnurl.at \in {"rates", "row", "submit"} => lnurl.invoice = "plain"
  /\ InvoiceIsSafe
  /\ lnurl.at = "created" => answer = "invoice"
  /\ lnurl.at = "refused" => answer = "refusal"

-----------------------------------------------------------------------------
(* Which of them is going on                                                 *)

HandlerTypeOK ==
  /\ at \in Steps \cup Results
  /\ payload \in Payload
  /\ toggle \in BOOLEAN
  /\ swap \in SwapAddresses \cup {None}
  /\ found \in SwapAddresses \cup {None}
  /\ redeemed \in SUBSET SwapAddresses
  /\ claimed \in SUBSET ReverseAddresses

HandlerInv ==
  /\ HandlerTypeOK
  /\ at \in {"begun", "preparing", "starting", "started"} => lnurl.at = "idle"
  /\ at \in Steps \ {"handling"} => wait.at = "idle"
  /\ payload.type = "lnurl" => wait.at = "idle"
  /\ payload.type # "lnurl" => lnurl.at = "idle"
  /\ at \in {"looking", "redeeming", "claiming"} => payload.type = "address"
  /\ at = "redeeming" => found = payload.address /\ found \in SwapAddresses
  /\ at = "handling" /\ payload.type = "payment" => wait.hash = payload.hash
  /\ at = "handling" /\ payload.type = "address" =>
       /\ payload.address \in redeemed
       /\ wait.hash = SwapHash[payload.address]
  /\ NotificationIsTrue

IInv == WaitInv /\ AnswerInv /\ HandlerInv

-----------------------------------------------------------------------------
LEMMA Bounds == {Timeout, Period, MaxTime, MaxEvents} \subseteq Nat /\ Period > 0
  BY WaitAssumption DEF WaitAssumption

USE Bounds

LEMMA InitWaitInv == WaitInit => WaitInv
<1> SUFFICES ASSUME WaitInit PROVE WaitInv
  OBVIOUS
<1>1. WaitTypeOK
  <2>1. (CHOOSE h \in Hashes : TRUE) \in Hashes
    BY WaitAssumption DEF WaitAssumption
  <2>2. wait \in [at : WaitStates, hash : Hashes, until : Nat, details : BOOLEAN]
    BY <2>1 DEF WaitInit, WaitStates
  <2>3. events \in Seq(Event) /\ Len(events) <= MaxEvents
    BY DEF WaitInit
  <2>4. now \in 0..MaxTime /\ Never \in 0..Never
    BY DEF WaitInit, Never
  <2>5. settledAt \in [Hashes -> 0..Never] /\ begunAt \in 0..Never
    BY <2>4 DEF WaitInit
  <2>6. /\ payments \in [Hashes -> {"unknown", "pending", "complete"}]
        /\ paid \in SUBSET Hashes /\ announced \in SUBSET paid
    BY DEF WaitInit
  <2> QED BY <2>2, <2>3, <2>4, <2>5, <2>6 DEF WaitInit, WaitTypeOK
<1>2. PaidInv /\ RoundInv
  BY DEF WaitInit, PaidInv, RoundInv
<1> QED BY <1>1, <1>2 DEF WaitInv

\* Entering the loop, at whatever time.
LEMMA WaitForInv ==
  ASSUME WaitInv, NEW h \in Hashes, WaitFor(h) PROVE WaitInv'
<1>1. WaitTypeOK'
  <2>1. wait' \in [at : WaitStates, hash : Hashes, until : Nat, details : BOOLEAN]
    BY DEF WaitInv, WaitTypeOK, WaitStates, WaitFor
  <2>2. begunAt' \in 0..Never
    BY DEF WaitInv, WaitTypeOK, WaitFor, Never
  <2> QED BY <2>1, <2>2 DEF WaitInv, WaitTypeOK, WaitFor, World, Never
<1>2. PaidInv' /\ RoundInv'
  BY DEF WaitInv, WaitTypeOK, PaidInv, RoundInv, Late, WaitFor, World
<1> QED BY <1>1, <1>2 DEF WaitInv

\* The steps of the loop that take no event.
LEMMA LookInv ==
  ASSUME WaitInv, Look \/ LookFails \/ GiveUp \/ NoEvent \/ Disconnected PROVE WaitInv'
<1>1. WaitTypeOK'
  <2>1. now + Period \in Nat
    BY DEF WaitInv, WaitTypeOK
  <2>2. wait' \in [at : WaitStates, hash : Hashes, until : Nat, details : BOOLEAN]
    BY <2>1 DEF WaitInv, WaitTypeOK, WaitStates, Look, LookFails, GiveUp, NoEvent, Disconnected,
                RoundEnds
  <2> QED BY <2>2 DEF WaitInv, WaitTypeOK, Look, LookFails, GiveUp, NoEvent, Disconnected,
                      World, Never
<1>2. PaidInv'
  BY DEF WaitInv, WaitTypeOK, PaidInv, Look, LookFails, GiveUp, NoEvent, Disconnected,
         World, IsConfirmed
<1>3. CASE Look
  BY <1>1, <1>2, <1>3
     DEF WaitInv, WaitTypeOK, PaidInv, RoundInv, Late, Look, World, IsConfirmed, RoundEnds, Never
<1>4. CASE GiveUp
  BY <1>1, <1>2, <1>4 DEF WaitInv, WaitTypeOK, RoundInv, Late, GiveUp, World, InTime
<1>5. CASE NoEvent
  BY <1>1, <1>2, <1>5 DEF WaitInv, WaitTypeOK, RoundInv, Late, NoEvent, World, Never
<1>6. CASE LookFails \/ Disconnected
  BY <1>1, <1>2, <1>6 DEF WaitInv, WaitTypeOK, RoundInv, LookFails, Disconnected
<1> QED BY <1>3, <1>4, <1>5, <1>6

\* Taking an event: it tells of a payment that was received.
LEMMA TakeInv ==
  ASSUME WaitInv, TakeEvent \/ TakeWhileSyncing PROVE WaitInv'
<1>1. /\ events # <<>> /\ events' = Tail(events)
      /\ Head(events) \in Event
      /\ Head(events).type = "paid" => Head(events).hash \in paid
  <2>1. events # <<>> /\ events' = Tail(events)
    BY DEF TakeEvent, TakeWhileSyncing
  <2>2. 1 \in DOMAIN events /\ Head(events) = events[1]
    BY <2>1 DEF WaitInv, WaitTypeOK
  <2> QED BY <2>1, <2>2 DEF WaitInv, WaitTypeOK, PaidInv
<1>2. /\ events' \in Seq(Event) /\ Len(events') <= MaxEvents
      /\ \A i \in DOMAIN events' : i + 1 \in DOMAIN events /\ events'[i] = events[i + 1]
  BY <1>1 DEF WaitInv, WaitTypeOK
<1>3. /\ wait' \in [at : WaitStates, hash : Hashes, until : Nat, details : BOOLEAN]
      /\ wait'.hash = wait.hash
      /\ stalled' \in BOOLEAN
  <2>1. Head(events).type = "paid" => Head(events).details \in BOOLEAN
    BY <1>1 DEF Event
  <2>2. CASE TakeEvent
    BY <2>1, <2>2 DEF WaitInv, WaitTypeOK, WaitStates, TakeEvent, IsOurs
  <2>3. CASE TakeWhileSyncing
    BY <2>3 DEF WaitInv, WaitTypeOK, WaitStates, TakeWhileSyncing, AfterSync
  <2> QED BY <2>2, <2>3
<1>4. WaitTypeOK'
  BY <1>2, <1>3 DEF WaitInv, WaitTypeOK, TakeEvent, TakeWhileSyncing, World, Never
<1>5. wait'.at \in {"syncing", "received"} => wait.hash \in paid
  BY <1>1 DEF WaitInv, WaitTypeOK, PaidInv, TakeEvent, TakeWhileSyncing, IsOurs, AfterSync
<1>6. PaidInv'
  BY <1>2, <1>3, <1>5 DEF WaitInv, PaidInv, TakeEvent, TakeWhileSyncing, World, Never
<1>7. wait'.at = "looping" => now < Timeout \/ Late'
  BY <1>3 DEF WaitInv, WaitTypeOK, RoundInv, Late, Never, TakeEvent, TakeWhileSyncing, World,
              AfterSync
<1>8. RoundInv'
  BY <1>3, <1>7 DEF WaitInv, WaitTypeOK, RoundInv, TakeEvent, TakeWhileSyncing, AfterSync
<1> QED BY <1>4, <1>6, <1>8 DEF WaitInv

\* What the SDK learns.
LEMMA SdkLearnsInv ==
  ASSUME WaitInv, NEW h \in Hashes, IsPaid(h) \/ SdkLearns(h) PROVE WaitInv'
<1>1. WaitTypeOK'
  <2>1. CASE IsPaid(h)
    BY <2>1 DEF WaitInv, WaitTypeOK, IsPaid, Never
  <2>2. CASE IsPending(h)
    BY <2>2 DEF WaitInv, WaitTypeOK, IsPending, Never
  <2>3. CASE Completes(h)
    <3>1. now \in 0..Never
      BY DEF WaitInv, WaitTypeOK, Never
    <3> QED BY <3>1, <2>3 DEF WaitInv, WaitTypeOK, Completes
  <2> QED BY <2>1, <2>2, <2>3 DEF SdkLearns
<1>2. PaidInv'
  BY DEF WaitInv, WaitTypeOK, PaidInv, IsPaid, SdkLearns, IsPending, Completes, Never
<1>3. RoundInv'
  BY DEF WaitInv, WaitTypeOK, PaidInv, RoundInv, Late, IsPaid, SdkLearns, IsPending, Completes,
         Never
<1> QED BY <1>1, <1>2, <1>3 DEF WaitInv

\* What the SDK sends: that a payment was received only when it was.
LEMMA SdkSendsInv ==
  ASSUME WaitInv, SdkSends PROVE WaitInv'
<1>1. CASE Disconnect
  BY <1>1 DEF WaitInv, WaitTypeOK, PaidInv, RoundInv, Late, Disconnect, Never
<1>2. ASSUME NEW e \in Event, Send(e), e.type = "paid" => e.hash \in paid,
             announced' \in SUBSET paid
      PROVE  WaitInv'
  <2>1. /\ events' \in Seq(Event) /\ Len(events') <= MaxEvents
        /\ \A i \in DOMAIN events' : events'[i] = e \/ (i \in DOMAIN events /\ events'[i] = events[i])
    BY <1>2 DEF WaitInv, WaitTypeOK, Send
  <2>2. WaitTypeOK'
    BY <1>2, <2>1 DEF WaitInv, WaitTypeOK, Send, Never
  <2>3. PaidInv'
    BY <1>2, <2>1 DEF WaitInv, PaidInv, Send, Never
  <2>4. RoundInv'
    BY <1>2 DEF WaitInv, RoundInv, Late, Send
  <2> QED BY <2>2, <2>3, <2>4 DEF WaitInv
<1>3. CASE \E h \in Hashes : SendPaid(h)
  <2>1. PICK h \in Hashes : SendPaid(h)
    BY <1>3
  <2>2. PICK d \in BOOLEAN : Send([type |-> "paid", hash |-> h, details |-> d])
    BY <2>1 DEF SendPaid
  <2>3. h \in paid /\ announced' \in SUBSET paid
    BY <2>1 DEF SendPaid, WaitInv, WaitTypeOK
  <2> QED BY <1>2, <2>2, <2>3 DEF Event
<1>4. CASE SendSynced \/ SendOther
  BY <1>2, <1>4 DEF SendSynced, SendOther, Synced, Other, Event, WaitInv, WaitTypeOK
<1> QED BY <1>1, <1>3, <1>4 DEF SdkSends

\* Time passes while the loop is idle or blocked: a round ends no later than due.
LEMMA TickInv ==
  ASSUME WaitInv, Tick, wait.at = "idle" \/ Blocked PROVE WaitInv'
  BY DEF WaitInv, WaitTypeOK, PaidInv, RoundInv, Late, Tick, World, Blocked, Never

-----------------------------------------------------------------------------
LEMMA InitAnswerInv == LnurlInit => AnswerInv
  BY DEF LnurlInit, AnswerInv, LnurlTypeOK, LnurlStates, InvoiceIsSafe

\* The request arrives: what the history of the address starts from.
LEMMA AnswerRequestInv ==
  ASSUME AnswerInv, lnurl.at = "idle", AnswerRequest, UNCHANGED local PROVE AnswerInv'
<1>1. LnurlTypeOK'
  BY DEF AnswerInv, LnurlTypeOK, LnurlStates, AnswerRequest, IsEnabled
<1> QED BY <1>1 DEF AnswerInv, LnurlTypeOK, AnswerRequest, IsEnabled, InvoiceIsSafe

\* The steps before the row: an address that is off, or a channel to be opened,
\* ends the way to an invoice.
LEMMA QuestionsInv ==
  ASSUME AnswerInv, UNCHANGED local,
         \/ Fails \/ OpenChannelFee \/ CheckAddress \/ RejectAddress \/ RegisterWebhook
         \/ CreateInvoice \/ NoCurrency \/ QueryRates
  PROVE  AnswerInv'
<1>1. LnurlTypeOK'
  BY DEF AnswerInv, LnurlTypeOK, LnurlStates, Moves, Fails, OpenChannelFee, CheckAddress,
         RejectAddress, RegisterWebhook, CreateInvoice, NoCurrency, QueryRates
<1>2. CASE Fails \/ RejectAddress \/ RegisterWebhook \/ NoCurrency \/ QueryRates
  BY <1>1, <1>2 DEF AnswerInv, LnurlTypeOK, IsEnabled, InvoiceIsSafe, Moves, Fails,
                    RejectAddress, RegisterWebhook, NoCurrency, QueryRates
<1>3. CASE OpenChannelFee
  BY <1>1, <1>3 DEF AnswerInv, LnurlTypeOK, IsEnabled, InvoiceIsSafe, OpenChannelFee
<1>4. CASE CheckAddress
  BY <1>1, <1>4 DEF AnswerInv, LnurlTypeOK, IsEnabled, InvoiceIsSafe, Moves, CheckAddress, Accepts
<1>5. CASE CreateInvoice
  BY <1>1, <1>5
     DEF AnswerInv, LnurlTypeOK, IsEnabled, InvoiceIsSafe, CreateInvoice, NeedsChannel
<1> QED BY <1>2, <1>3, <1>4, <1>5

\* The row, and the answer.
LEMMA AnswersInv ==
  ASSUME AnswerInv, UNCHANGED local,
         StoreRow \/ StoreRowFails \/ SubmitInvoice \/ ReportInsufficientLiquidity
  PROVE  AnswerInv'
<1>1. LnurlTypeOK'
  BY DEF AnswerInv, LnurlTypeOK, LnurlStates, StoreRow, WritesRow, StoreRowFails,
         SubmitInvoice, ReportInsufficientLiquidity, Submit
<1>2. CASE StoreRow \/ StoreRowFails
  BY <1>1, <1>2 DEF AnswerInv, LnurlTypeOK, IsEnabled, InvoiceIsSafe,
                    StoreRow, WritesRow, StoreRowFails
<1>3. CASE SubmitInvoice
  BY <1>1, <1>3 DEF AnswerInv, LnurlTypeOK, IsEnabled, InvoiceIsSafe, SubmitInvoice, Submit
<1>4. CASE ReportInsufficientLiquidity
  BY <1>1, <1>4
     DEF AnswerInv, LnurlTypeOK, IsEnabled, InvoiceIsSafe, ReportInsufficientLiquidity, Submit
<1> QED BY <1>2, <1>3, <1>4

LEMMA AnswerStepInv ==
  ASSUME AnswerInv, UNCHANGED local, AnswerStep PROVE AnswerInv'
  BY QuestionsInv, AnswersInv DEF AnswerStep

\* Liquidity and addresses change: an address that becomes enabled is noticed.
LEMMA WalletInv ==
  ASSUME AnswerInv, LiquidityChanges \/ AddressStep PROVE AnswerInv'
<1>1. CASE LiquidityChanges
  BY <1>1 DEF AnswerInv, LnurlTypeOK, IsEnabled, InvoiceIsSafe, LiquidityChanges, tableVars
<1>2. CASE AddressStep
  <2>1. /\ UNCHANGED <<lnurl, liquidity, currency, row, answer, unwritten>>
        /\ enabled' = (enabled \/ IsEnabled')
    BY <1>2 DEF AddressStep, IsEnabled
  <2>2. enabled' \in BOOLEAN /\ (enabled => enabled') /\ (IsEnabled' => enabled')
    BY <2>1, Zenon
  <2> QED BY <2>1, <2>2 DEF AnswerInv, LnurlTypeOK, InvoiceIsSafe
<1> QED BY <1>1, <1>2

-----------------------------------------------------------------------------
USE NotificationsAssumption DEF NotificationsAssumption

LEMMA InitHandlerInv == NotificationsInit => HandlerInv
  BY DEF NotificationsInit, WaitInit, LnurlInit, HandlerInv, HandlerTypeOK, Steps, Results,
         NotificationIsTrue

\* The steps to and through the start of the SDK.
LEMMA StartInv ==
  ASSUME HandlerInv, CheckToggle \/ Prepare \/ StartSdk \/ StepFails PROVE HandlerInv'
<1>1. HandlerTypeOK'
  BY DEF HandlerInv, HandlerTypeOK, CheckToggle, Prepare, StartSdk, StepFails, Goes, Steps, Results
<1>2. NotificationIsTrue'
  BY DEF HandlerInv, CheckToggle, Prepare, StartSdk, StepFails, Goes, NotificationIsTrue
<1> QED
  BY <1>1, <1>2 DEF HandlerInv, CheckToggle, Prepare, StartSdk, StepFails, Goes, Steps,
                    RestUnchanged, waitVars, lnurlVars

\* The kind of the notification decides what is begun.
LEMMA DispatchInv ==
  ASSUME HandlerInv, WaitInv, Dispatch PROVE HandlerInv'
<1>1. HandlerTypeOK'
  BY DEF HandlerInv, HandlerTypeOK, Dispatch, Goes, Steps, Results
<1>2. NotificationIsTrue'
  BY DEF HandlerInv, Dispatch, Goes, NotificationIsTrue
<1>3. payload.type = "payment" => payload.hash \in Hashes
  BY DEF HandlerInv, HandlerTypeOK, Payload
<1>4. CASE payload.type = "payment"
  BY <1>1, <1>2, <1>3, <1>4
     DEF HandlerInv, WaitInv, WaitTypeOK, Dispatch, Goes, Steps, WaitFor, lnurlVars
<1>5. CASE payload.type # "payment"
  <2>1. payload.type \in {"address", "lnurl"}
    BY <1>5 DEF HandlerInv, HandlerTypeOK, Payload
  <2> QED BY <1>1, <1>2, <2>1 DEF HandlerInv, Dispatch, Goes, Steps, waitVars, lnurlVars
<1> QED BY <1>4, <1>5

\* Swaps: what is redeemed is the swap the notification is about.
LEMMA SwapInv ==
  ASSUME HandlerInv, WaitInv, LookForSwap \/ RedeemSwap \/ ClaimReverseSwap PROVE HandlerInv'
<1>1. CASE LookForSwap
  <2>1. HandlerTypeOK'
    BY <1>1 DEF HandlerInv, HandlerTypeOK, LookForSwap, Goes, Steps, Results
  <2>2. NotificationIsTrue'
    BY <1>1 DEF HandlerInv, LookForSwap, Goes, NotificationIsTrue
  <2> QED
    BY <1>1, <2>1, <2>2 DEF HandlerInv, HandlerTypeOK, LookForSwap, Goes, Steps, IsNotified,
                            RestUnchanged, waitVars, lnurlVars
<1>2. CASE RedeemSwap
  <2>1. found = payload.address /\ found \in SwapAddresses /\ SwapHash[found] \in Hashes
    BY <1>2 DEF HandlerInv, RedeemSwap, SwapAddresses
  <2>2. HandlerTypeOK'
    BY <1>2, <2>1 DEF HandlerInv, HandlerTypeOK, RedeemSwap, Steps, Results
  <2>3. NotificationIsTrue'
    BY <1>2 DEF RedeemSwap, NotificationIsTrue
  <2> QED
    BY <1>2, <2>1, <2>2, <2>3
       DEF HandlerInv, WaitInv, WaitTypeOK, RedeemSwap, Steps, WaitFor, lnurlVars
<1>3. CASE ClaimReverseSwap
  <2>1. HandlerTypeOK'
    BY <1>3 DEF HandlerInv, HandlerTypeOK, ClaimReverseSwap, Steps, Results
  <2>2. NotificationIsTrue'
    BY <1>3 DEF ClaimReverseSwap, NotificationIsTrue
  <2> QED
    BY <1>3, <2>1, <2>2
       DEF HandlerInv, ClaimReverseSwap, Steps, RestUnchanged, waitVars, lnurlVars
<1> QED BY <1>1, <1>2, <1>3

\* The steps of the wait and of the answer change nothing of the handler's own.
LEMMA InnerInv ==
  ASSUME HandlerInv, WaitInv, WaitStep \/ LnurlStep PROVE HandlerInv'
<1>1. CASE WaitStep
  <2>1. wait'.hash = wait.hash /\ wait.at # "idle" /\ UNCHANGED paid
    BY <1>1 DEF WaitInv, WaitTypeOK, WaitStep, LoopStep, Look, LookFails, GiveUp, TakeEvent,
                NoEvent, TakeWhileSyncing, Disconnected, World
  <2>2. UNCHANGED <<ownVars, lnurlVars>> /\ at = "handling"
    BY <1>1 DEF WaitStep
  <2> QED
    BY <2>1, <2>2 DEF HandlerInv, HandlerTypeOK, NotificationIsTrue, ownVars, lnurlVars
<1>2. CASE LnurlStep
  <2>1. UNCHANGED <<ownVars, waitVars>> /\ at = "handling" /\ lnurl.at # "idle"
    BY <1>2 DEF LnurlStep, AnswerStep, Moves, Fails, OpenChannelFee, CheckAddress, RejectAddress,
                RegisterWebhook, CreateInvoice, NoCurrency, QueryRates, StoreRow, StoreRowFails,
                SubmitInvoice, ReportInsufficientLiquidity, Submit
  <2> QED
    BY <2>1 DEF HandlerInv, HandlerTypeOK, NotificationIsTrue, ownVars, waitVars
<1> QED BY <1>1, <1>2

\* What the user is told in the end.
LEMMA EndsInv ==
  ASSUME HandlerInv, WaitInv, AnswerInv, Received \/ NotReceived \/ Answered \/ Killed
  PROVE  HandlerInv'
<1>1. /\ at' \in Results /\ UNCHANGED <<payload, toggle, swap, redeemed, claimed, found>>
      /\ UNCHANGED <<wait, paid, lnurl, answer>>
  BY DEF Received, NotReceived, Answered, Killed, Goes, Results, RestUnchanged, waitVars, lnurlVars
<1>2. NotificationIsTrue'
  <2>1. CASE Received
    <3>1. wait.hash \in paid
      BY <2>1 DEF Received, WaitInv, PaidInv
    <3>2. payload.type \in {"payment", "address"}
      BY <2>1 DEF Received, HandlerInv, HandlerTypeOK, Payload
    <3> QED BY <1>1, <2>1, <3>1, <3>2 DEF Received, Goes, HandlerInv, NotificationIsTrue
  <2>2. CASE NotReceived \/ Killed
    BY <1>1, <2>2 DEF NotReceived, Killed, Goes, NotificationIsTrue
  <2>3. CASE Answered
    BY <1>1, <2>3 DEF Answered, Goes, AnswerInv, NotificationIsTrue
  <2> QED BY <2>1, <2>2, <2>3
<1> QED BY <1>1, <1>2 DEF HandlerInv, HandlerTypeOK, Steps, Results

\* The world changes nothing of the handler's either, and payments stay paid.
LEMMA WorldInv ==
  ASSUME HandlerInv, WaitInv, SdkWorks \/ TimePasses \/ WalletWorks \/ SwapEnds PROVE HandlerInv'
<1>1. CASE SwapEnds
  <2>1. HandlerTypeOK' /\ NotificationIsTrue'
    BY <1>1 DEF SwapEnds, HandlerInv, HandlerTypeOK, NotificationIsTrue, RestUnchanged, waitVars,
                lnurlVars
  <2> QED BY <1>1, <2>1 DEF SwapEnds, HandlerInv, RestUnchanged, waitVars, lnurlVars
<1>2. CASE SdkWorks \/ TimePasses \/ WalletWorks
  <2>1. UNCHANGED <<at, payload, toggle, swap, found, redeemed, claimed, wait>>
    BY <1>2 DEF SdkWorks, TimePasses, WalletWorks, ownVars, waitVars, SdkSends, SdkLearns, IsPaid,
                IsPending, Completes, SendPaid, SendSynced, SendOther, Send, Disconnect, Tick
  <2>2. lnurl'.at = lnurl.at /\ answer' = answer /\ paid \subseteq paid'
    BY <1>2 DEF SdkWorks, TimePasses, WalletWorks, lnurlVars, waitVars, SdkSends, SdkLearns, IsPaid,
                IsPending, Completes, SendPaid, SendSynced, SendOther, Send, Disconnect, Tick, World,
                LiquidityChanges, AddressStep
  <2>3. NotificationIsTrue'
    BY <2>1, <2>2 DEF HandlerInv, NotificationIsTrue
  <2> QED BY <2>1, <2>2, <2>3 DEF HandlerInv, HandlerTypeOK
<1> QED BY <1>1, <1>2

-----------------------------------------------------------------------------
LEMMA InitIInv == NotificationsInit => IInv
  BY InitWaitInv, InitAnswerInv, InitHandlerInv DEF NotificationsInit, IInv

\* Each step is one of the wait, of the answer, of both (when one of them
\* begins) or of neither; the lemmas above say what it keeps.
LEMMA NextIInv == IInv /\ [NotificationsNext]_allVars => IInv'
<1> SUFFICES ASSUME IInv, [NotificationsNext]_allVars PROVE IInv'
  OBVIOUS
<1>0. WaitInv /\ AnswerInv /\ HandlerInv
  BY DEF IInv
<1> USE DEF SwapAddresses
<1>1. UNCHANGED waitVars => WaitInv'
  BY <1>0 DEF WaitInv, WaitTypeOK, PaidInv, RoundInv, Late, waitVars, World
<1>2. UNCHANGED <<lnurlVars, tableVars>> => AnswerInv'
  BY <1>0 DEF AnswerInv, LnurlTypeOK, IsEnabled, InvoiceIsSafe, lnurlVars, tableVars
<1>3. CASE CheckToggle \/ Prepare \/ StartSdk \/ StepFails
  <2>1. UNCHANGED <<waitVars, lnurlVars, tableVars>>
    BY <1>3 DEF CheckToggle, Prepare, StartSdk, StepFails, RestUnchanged
  <2> QED BY <1>0, <1>1, <1>2, <1>3, <2>1, StartInv DEF IInv
<1>4. CASE Dispatch
  <2>1. HandlerInv'
    BY <1>0, <1>4, DispatchInv
  <2>2. WaitInv'
    <3>1. payload.type = "payment" => payload.hash \in Hashes /\ WaitFor(payload.hash)
      BY <1>0, <1>4 DEF Dispatch, HandlerInv, HandlerTypeOK, Payload
    <3>2. payload.type # "payment" => UNCHANGED waitVars
      BY <1>4 DEF Dispatch
    <3> QED BY <1>0, <1>1, <3>1, <3>2, WaitForInv
  <2>3. AnswerInv'
    <3>1. UNCHANGED tableVars /\ UNCHANGED local /\ (AnswerRequest \/ UNCHANGED lnurlVars)
      BY <1>4 DEF Dispatch, tableVars
    <3>2. lnurl.at = "idle"
      BY <1>0, <1>4 DEF Dispatch, Goes, HandlerInv
    <3> QED BY <1>0, <1>2, <3>1, <3>2, AnswerRequestInv
  <2> QED BY <2>1, <2>2, <2>3 DEF IInv
<1>5. CASE LookForSwap \/ RedeemSwap \/ ClaimReverseSwap
  <2>1. HandlerInv'
    BY <1>0, <1>5, SwapInv
  <2>2. AnswerInv'
    BY <1>2, <1>5 DEF LookForSwap, RedeemSwap, ClaimReverseSwap, RestUnchanged
  <2>3. WaitInv'
    <3>1. CASE RedeemSwap
      <4>1. SwapHash[found] \in Hashes /\ WaitFor(SwapHash[found])
        BY <1>0, <3>1 DEF RedeemSwap, HandlerInv
      <4> QED BY <1>0, <4>1, WaitForInv
    <3>2. CASE LookForSwap \/ ClaimReverseSwap
      BY <1>1, <3>2 DEF LookForSwap, ClaimReverseSwap, RestUnchanged
    <3> QED BY <1>5, <3>1, <3>2
  <2> QED BY <2>1, <2>2, <2>3 DEF IInv
<1>6. CASE WaitStep
  <2>1. WaitInv'
    BY <1>0, <1>6, LookInv, TakeInv DEF WaitStep, LoopStep
  <2>2. AnswerInv'
    BY <1>2, <1>6 DEF WaitStep
  <2> QED BY <1>0, <1>6, <2>1, <2>2, InnerInv DEF IInv
<1>7. CASE LnurlStep
  <2>1. AnswerInv'
    BY <1>0, <1>7, AnswerStepInv DEF LnurlStep, tableVars
  <2>2. WaitInv'
    BY <1>1, <1>7 DEF LnurlStep
  <2> QED BY <1>0, <1>7, <2>1, <2>2, InnerInv DEF IInv
<1>8. CASE Received \/ NotReceived \/ Answered \/ Killed
  <2>1. UNCHANGED <<waitVars, lnurlVars, tableVars>>
    BY <1>8 DEF Received, NotReceived, Answered, Killed, RestUnchanged
  <2> QED BY <1>0, <1>1, <1>2, <1>8, <2>1, EndsInv DEF IInv
<1>9. CASE SdkWorks
  <2>1. WaitInv'
    <3>1. Awaitable \subseteq Hashes
      BY <1>0 DEF Awaitable, HandlerInv, HandlerTypeOK, Payload
    <3> QED BY <1>0, <1>9, <3>1, SdkSendsInv, SdkLearnsInv DEF SdkWorks
  <2>2. AnswerInv'
    BY <1>2, <1>9 DEF SdkWorks
  <2> QED BY <1>0, <1>9, <2>1, <2>2, WorldInv DEF IInv
<1>10. CASE TimePasses
  <2>1. wait.at = "idle" \/ Blocked
    BY <1>0, <1>10 DEF TimePasses, HandlerInv, Steps
  <2>2. WaitInv'
    BY <1>0, <1>10, <2>1, TickInv DEF TimePasses
  <2>3. AnswerInv'
    BY <1>2, <1>10 DEF TimePasses
  <2> QED BY <1>0, <1>10, <2>2, <2>3, WorldInv DEF IInv
<1>11. CASE WalletWorks
  <2>1. AnswerInv'
    BY <1>0, <1>11, WalletInv DEF WalletWorks
  <2>2. WaitInv'
    BY <1>1, <1>11 DEF WalletWorks
  <2> QED BY <1>0, <1>11, <2>1, <2>2, WorldInv DEF IInv
<1>12. CASE SwapEnds
  <2>1. UNCHANGED <<waitVars, lnurlVars, tableVars>>
    BY <1>12 DEF SwapEnds, RestUnchanged
  <2> QED BY <1>0, <1>1, <1>2, <1>12, <2>1, WorldInv DEF IInv
<1>13. CASE Over \/ UNCHANGED allVars
  <2>1. UNCHANGED <<ownVars, waitVars, lnurlVars, tableVars>>
    BY <1>13 DEF Over, allVars
  <2>2. HandlerInv'
    BY <1>0, <2>1 DEF HandlerInv, HandlerTypeOK, NotificationIsTrue, ownVars, waitVars, lnurlVars
  <2> QED BY <1>1, <1>2, <2>1, <2>2 DEF IInv
<1> QED
  BY <1>3, <1>4, <1>5, <1>6, <1>7, <1>8, <1>9, <1>10, <1>11, <1>12, <1>13
     DEF NotificationsNext, HandlerStep

LEMMA AlwaysIInv == NotificationsSpec => []IInv
  BY InitIInv, NextIInv, PTL DEF NotificationsSpec

-----------------------------------------------------------------------------
\* Every variable of the handler, the wait, the answer and the world keeps its
\* type.
THEOREM TypeCorrect == NotificationsSpec => []TypeOK
<1>1. IInv => TypeOK
  BY DEF IInv, WaitInv, AnswerInv, HandlerInv, HandlerTypeOK, TypeOK
<1> QED BY <1>1, AlwaysIInv, PTL

\* What handle_notification returns has happened: the payment was received, the
\* swap redeemed, the reverse swap claimed, the payer answered.
THEOREM NotifiesTruly == NotificationsSpec => []NotificationIsTrue
<1>1. IInv => NotificationIsTrue
  BY DEF IInv, HandlerInv
<1> QED BY <1>1, AlwaysIInv, PTL

\* A payment that wait_for_payment reports as not received was completed in the
\* last round before the deadline, or not before it.
THEOREM MissesOnlyLate == NotificationsSpec => []MissedOnlyLate
<1>1. IInv => MissedOnlyLate
  BY DEF IInv, WaitInv, RoundInv, Late, MissedOnlyLate
<1> QED BY <1>1, AlwaysIInv, PTL

\* The invoice a payer holds opens no channel and is for an address that was
\* enabled while the request was handled.
THEOREM InvoicesAreSafe == NotificationsSpec => []InvoiceIsSafe
<1>1. IInv => InvoiceIsSafe
  BY DEF IInv, AnswerInv
<1> QED BY <1>1, AlwaysIInv, PTL

-----------------------------------------------------------------------------
(* The handler implements InvoiceRequest                                     *)

LEMMA InitRequest == NotificationsInit => Request!Init
  BY DEF NotificationsInit, LnurlInit, Request!Init

\* A step that writes the row records, one that submits issues or refuses, every
\* other one stutters.
LEMMA NextRequest ==
  IInv /\ [NotificationsNext]_allVars =>
    [Request!Record \/ Request!Issue \/ Request!Refuse]_Request!vars
<1> SUFFICES ASSUME AnswerInv, [NotificationsNext]_allVars
             PROVE  [Request!Record \/ Request!Issue \/ Request!Refuse]_Request!vars
  BY DEF IInv
<1>1. CASE LnurlStep /\ (StoreRow \/ StoreRowFails)
  BY <1>1 DEF AnswerInv, StoreRow, WritesRow, StoreRowFails, Request!Record
<1>2. CASE LnurlStep /\ SubmitInvoice
  BY <1>2 DEF AnswerInv, SubmitInvoice, Submit, Request!Issue, Request!vars
<1>3. CASE LnurlStep /\ ReportInsufficientLiquidity
  BY <1>3 DEF AnswerInv, ReportInsufficientLiquidity, Submit, Request!Refuse, Request!vars
<1>4. CASE UNCHANGED <<row, unwritten, answer>>
  BY <1>4 DEF Request!vars
<1>5. \/ LnurlStep /\ (StoreRow \/ StoreRowFails)
      \/ LnurlStep /\ SubmitInvoice
      \/ LnurlStep /\ ReportInsufficientLiquidity
      \/ UNCHANGED <<row, unwritten, answer>>
  <2>1. CASE LnurlStep
    BY <2>1 DEF LnurlStep, AnswerStep, Moves, Fails, OpenChannelFee, CheckAddress, RejectAddress,
                RegisterWebhook, CreateInvoice, NoCurrency, QueryRates
  <2>2. CASE Dispatch
    BY <2>2 DEF Dispatch, AnswerRequest, lnurlVars
  <2>3. CASE WalletWorks
    BY <2>3 DEF WalletWorks, LiquidityChanges, AddressStep
  <2>4. CASE Over \/ UNCHANGED allVars
    BY <2>4 DEF Over, allVars, lnurlVars
  <2>5. CASE \/ CheckToggle \/ Prepare \/ StartSdk \/ StepFails
             \/ LookForSwap \/ RedeemSwap \/ ClaimReverseSwap
             \/ WaitStep \/ Received \/ NotReceived \/ Answered
             \/ Killed \/ SwapEnds \/ SdkWorks \/ TimePasses
    BY <2>5 DEF CheckToggle, Prepare, StartSdk, StepFails, LookForSwap, RedeemSwap,
                ClaimReverseSwap, WaitStep, Received, NotReceived, Answered, Killed, SwapEnds,
                SdkWorks, TimePasses, RestUnchanged, lnurlVars
  <2> QED BY <2>1, <2>2, <2>3, <2>4, <2>5 DEF NotificationsNext, HandlerStep
<1> QED BY <1>1, <1>2, <1>3, <1>4, <1>5

\* handle_lnurl_pay_request_notification implements InvoiceRequest wherever it is
\* ended: one answer, and no invoice before its payment is recorded.
THEOREM AnswersThePayer == NotificationsSpec => AnswersPayer
  BY InitRequest, NextRequest, AlwaysIInv, PTL DEF NotificationsSpec, AnswersPayer, Request!Spec
=============================================================================
