--------------------------- MODULE Notifications ---------------------------
(***************************************************************************)
(* handle_notification: one push notification from its arrival to what is  *)
(* shown to the user.                                                      *)
(*                                                                         *)
(* The handler has an SDK and a database connection of its own and lives   *)
(* in a process that may be ended at any time.  A payment is waited for    *)
(* (module PaymentWait), a confirmed transaction is that of a swap, which  *)
(* is redeemed, or else of a reverse swap, which is claimed, and a request *)
(* for an invoice is answered (module LnurlPay).  What the handler of one  *)
(* kind of notification never reads stands still while it runs.            *)
(***************************************************************************)
EXTENDS PaymentWait, LnurlPay

CONSTANTS
  SwapHash,          \* the payment hash of each swap, by swap address
  ReverseAddresses,  \* lock addresses of reverse swaps
  None               \* no swap in progress

ASSUME NotificationsAssumption ==
  /\ SwapHash \in [DOMAIN SwapHash -> Hashes]
  /\ DOMAIN SwapHash \cap ReverseAddresses = {}
  /\ None \notin DOMAIN SwapHash

VARIABLES
  at,        \* where the handler is
  payload,   \* the notification
  toggle,    \* notifications of its kind are enabled in NotificationToggles
  swap,      \* address of the swap in progress
  found,     \* the swap in progress the handler was told of
  redeemed,  \* swaps the SDK was asked to redeem
  claimed    \* reverse swaps it claimed

ownVars == <<at, payload, toggle, swap, found, redeemed, claimed>>

allVars == <<ownVars, waitVars, lnurlVars, tableVars>>

-----------------------------------------------------------------------------
SwapAddresses == DOMAIN SwapHash

Payload ==
  [type : {"payment"}, hash : Hashes]
    \cup [type : {"address"}, address : SwapAddresses \cup ReverseAddresses]
    \cup [type : {"lnurl"}]

Steps == {"begun", "preparing", "starting", "started", "looking", "redeeming", "claiming", "handling"}

Results ==
  {"toggledOff", "failed", "inProgressSwapNotFound", "received", "swappedIn", "swappedOut",
   "notReceived", "created", "refused", "killed"}

NotificationsInit ==
  /\ WaitInit
  /\ LnurlInit
  /\ at = "begun"
  /\ payload \in Payload
  /\ toggle \in BOOLEAN
  /\ swap \in SwapAddresses \cup {None}
  /\ payload.type # "address" => swap = None
  /\ payload.type # "lnurl" => liquidity
  /\ found = None
  /\ redeemed = {}
  /\ claimed = {}

Goes(from, to) ==
  /\ at = from
  /\ at' = to
  /\ UNCHANGED <<payload, toggle, swap, redeemed, claimed>>

RestUnchanged == UNCHANGED <<waitVars, lnurlVars, tableVars>>

Running == at \in Steps

-----------------------------------------------------------------------------
\* The toggles are looked at before anything is started.
CheckToggle ==
  /\ Goes("begun", IF toggle THEN "preparing" ELSE "toggledOff")
  /\ UNCHANGED found
  /\ RestUnchanged

\* build_analytics_interceptor: opens the database, which must have the fiat
\* currency that the first start of a node stores.
Prepare ==
  /\ Goes("preparing", IF currency THEN "starting" ELSE "failed")
  /\ UNCHANGED found
  /\ RestUnchanged

StartSdk ==
  /\ Goes("starting", "started")
  /\ UNCHANGED found
  /\ RestUnchanged

StepFails ==
  /\ at \in {"preparing", "starting", "looking", "redeeming", "claiming"}
  /\ Goes(at, "failed")
  /\ UNCHANGED found
  /\ RestUnchanged

Dispatch ==
  /\ Goes("started", IF payload.type = "address" THEN "looking" ELSE "handling")
  /\ UNCHANGED <<found, tableVars>>
  /\ IF payload.type = "payment"
     THEN WaitFor(payload.hash) /\ UNCHANGED lnurlVars
     ELSE /\ UNCHANGED waitVars
          /\ IF payload.type = "lnurl" THEN AnswerRequest ELSE UNCHANGED lnurlVars

IsNotified(s) == s = payload.address

\* in_progress_swap, and the comparison in handle_swap_notification.
LookForSwap ==
  /\ found' = swap
  /\ Goes("looking", IF swap = None THEN "claiming"
                     ELSE IF IsNotified(swap) THEN "redeeming" ELSE "inProgressSwapNotFound")
  /\ RestUnchanged

RedeemSwap ==
  /\ at = "redeeming" /\ at' = "handling"
  /\ redeemed' = redeemed \cup {found}
  /\ WaitFor(SwapHash[found])
  /\ UNCHANGED <<payload, toggle, swap, found, claimed, lnurlVars, tableVars>>

\* Mutant: the SDK is believed to know the address.
ClaimAnyAddress ==
  /\ at = "claiming" /\ at' = "swappedOut"
  /\ claimed' = claimed \cup {payload.address}
  /\ UNCHANGED <<payload, toggle, swap, found, redeemed>>
  /\ RestUnchanged

\* The SDK knows no reverse swap at the address of a swap.
ClaimReverseSwap ==
  /\ at = "claiming" /\ payload.address \in ReverseAddresses
  /\ at' = "swappedOut"
  /\ claimed' = claimed \cup {payload.address}
  /\ UNCHANGED <<payload, toggle, swap, found, redeemed>>
  /\ RestUnchanged

WaitStep ==
  /\ at = "handling" /\ LoopStep
  /\ UNCHANGED <<ownVars, lnurlVars, tableVars>>

Received ==
  /\ Goes("handling", IF payload.type = "payment" THEN "received" ELSE "swappedIn")
  /\ wait.at = "received"
  /\ UNCHANGED found
  /\ RestUnchanged

NotReceived ==
  /\ Goes("handling", wait.at)
  /\ wait.at \in {"notReceived", "failed"}
  /\ UNCHANGED found
  /\ RestUnchanged

LnurlStep ==
  /\ at = "handling" /\ AnswerStep
  /\ UNCHANGED <<ownVars, waitVars, tableVars>>

Answered ==
  /\ Goes("handling", lnurl.at)
  /\ lnurl.at \in {"created", "refused", "failed"}
  /\ UNCHANGED found
  /\ RestUnchanged

HandlerStep ==
  \/ CheckToggle \/ Prepare \/ StartSdk \/ Dispatch \/ StepFails
  \/ LookForSwap \/ RedeemSwap \/ ClaimReverseSwap
  \/ WaitStep \/ Received \/ NotReceived
  \/ LnurlStep \/ Answered

-----------------------------------------------------------------------------
\* The operating system ends the process.  One that only waits leaves nothing.
Killed ==
  /\ Running
  /\ payload.type = "lnurl" \/ at # "handling"
  /\ at' = "killed"
  /\ UNCHANGED <<payload, toggle, swap, found, redeemed, claimed>>
  /\ RestUnchanged

\* Another instance of the wallet, or the refund of the user, ends the swap.
SwapEnds ==
  /\ payload.type = "address" /\ Running /\ at # "handling"
  /\ swap # None
  /\ swap' = None
  /\ UNCHANGED <<at, payload, toggle, found, redeemed, claimed>>
  /\ RestUnchanged

\* The payments the handler may look up.
Awaitable ==
  CASE payload.type = "payment" -> {payload.hash}
    [] payload.type = "address" -> {SwapHash[a] : a \in SwapAddresses \cap {payload.address, found}}
    [] OTHER                    -> {}

\* Before the SDK is connected no event is sent.
SdkWorks ==
  /\ payload.type # "lnurl" /\ Running
  /\ \/ at \in {"looking", "redeeming", "claiming", "handling"} /\ SdkSends
     \/ \E h \in Hashes : IsPaid(h)
     \/ \E h \in Awaitable : SdkLearns(h)
  /\ UNCHANGED <<ownVars, lnurlVars, tableVars>>

\* The start of the SDK may take any time.
TimePasses ==
  /\ payload.type # "lnurl"
  /\ at = "starting" \/ (at = "handling" /\ Blocked)
  /\ Tick
  /\ UNCHANGED <<ownVars, lnurlVars, tableVars>>

WalletWorks ==
  /\ payload.type = "lnurl" /\ Running
  /\ \/ LiquidityChanges
     \/ AddressStep
  /\ UNCHANGED <<ownVars, waitVars>>

\* After the handler returned nothing is left to model.
Over ==
  /\ ~Running
  /\ UNCHANGED allVars

NotificationsNext ==
  \/ HandlerStep \/ Killed
  \/ SwapEnds \/ SdkWorks \/ TimePasses \/ WalletWorks
  \/ Over

NotificationsSpec == NotificationsInit /\ [][NotificationsNext]_allVars

\* The handler runs when it can, time passes, and a connected SDK goes on to
\* sync, as it does with every block.
NotificationsFairness ==
  /\ WF_allVars(HandlerStep)
  /\ SF_allVars(TimePasses)
  /\ SF_allVars(SendSynced /\ UNCHANGED <<ownVars, lnurlVars, tableVars>>)

FairNotifications == NotificationsSpec /\ NotificationsFairness

-----------------------------------------------------------------------------
TypeOK ==
  /\ WaitTypeOK
  /\ LnurlTypeOK
  /\ at \in Steps \cup Results
  /\ payload \in Payload
  /\ toggle \in BOOLEAN
  /\ swap \in SwapAddresses \cup {None}
  /\ found \in SwapAddresses \cup {None}
  /\ redeemed \in SUBSET SwapAddresses
  /\ claimed \in SUBSET ReverseAddresses

\* What the user is told has happened: the payment the notification is about was
\* received, from whichever of the look-up and the event the handler heard of
\* it; for a swap, the one at the notified address; an invoice that was created
\* is at the backend, and a refusal is too.
NotificationIsTrue ==
  CASE at = "received"   -> payload.hash \in paid
    [] at = "swappedIn"  -> payload.address \in redeemed /\ SwapHash[payload.address] \in paid
    [] at = "swappedOut" -> payload.address \in claimed
    [] at = "created"    -> answer = "invoice"
    [] at = "refused"    -> answer = "refusal"
    [] OTHER             -> TRUE

\* "The notification payload implied the existence of an in-progress swap, but
\* it couldn't be found.": said of notifications of swaps only.
SwapImplied == at = "inProgressSwapNotFound" => payload.address \in SwapAddresses

\* The handler ends, however events, answers and the clock interleave, although
\* its wait for a synced event has no timeout.
HandlerReturns == <>(~Running)
=============================================================================
