------------------------------ MODULE Onchain ------------------------------
(***************************************************************************)
(* ChannelClose, Swap and ReverseSwap: what becomes of funds on the chain. *)
(* A call asks the services several times and decides by what it was told  *)
(* before: each question is a step, and the world goes on between them.    *)
(*                                                                         *)
(* Funds are of two kinds: what closed channels left, and a failed swap.   *)
(***************************************************************************)
EXTENDS BreezServices, Amounts

ASSUME OnchainAssumption == \A d \in Deposits : d < Width

VARIABLES
  call,      \* the user's call: what for, which funds, where it is
  advice,    \* what the library last said is possible
  disturbed, \* what has changed since it said so, or since the call began
  outcome    \* how the last call ended

callVars == <<call, advice, disturbed, outcome>>

\* The funds: those of closed channels, or the swap's.
Closes == 0

NoCall == [goal |-> "none", funds |-> Closes, at |-> "done", amount |-> 0,
           rate |-> 0, sent |-> 0, open |-> FALSE, advised |-> FALSE]

NoAdvice == [about |-> "nothing", funds |-> Closes, rate |-> 0, fee |-> 0]

NoOutcome == [goal |-> "none"]

OnchainInit ==
  /\ call = NoCall
  /\ advice = NoAdvice
  /\ disturbed = {}
  /\ outcome = NoOutcome

Unresolved == {Closes} \cup WithStatus("refundable")

AmountOf(funds) == IF funds = Closes THEN OnchainBalance ELSE Msats(swaps[funds].sats)

-----------------------------------------------------------------------------
(* What the library makes of the answers.                                    *)

\* prepare_sweep.
CanPrepare(funds, amount, r) ==
  IF funds = Closes THEN CanRedeem(r) ELSE SatsDown(amount) > TxFee(r)

SweptAmount(funds, amount, r) ==
  Minus(SatsDown(IF funds = Closes THEN OnchainBalance ELSE amount), TxFee(r))

SweepFee(funds, r) ==
  IF funds = Closes /\ ~HasReserve THEN TxFee(r) + Reserve ELSE TxFee(r)

\* get_onchain_resolving_fees.
CanResolve(funds, amount, r) ==
  /\ CanPrepare(funds, amount, r)
  /\ SweepFee(funds, r) * 2 <= SatsDown(amount)

\* The fee for a channel, of msats that are taken for satoshi.
ShownOpeningFee(amount) == OpeningFee(amount, Inbound, LongerTerms)

\* Mutant: the deposit is compared before its fee is taken off.
OffersBeforeFee(sent, amount, open) ==
  /\ open
  /\ SatsDown(amount) >= MinDeposit /\ sent <= MaxDeposit
  /\ sent > ShownOpeningFee(amount)

Offers(sent, amount, open) ==
  /\ open
  /\ sent >= MinDeposit /\ sent <= MaxDeposit
  /\ sent > ShownOpeningFee(amount)

\* swap() keeps the reserve off the funds of closed channels; neither
\* difference is checked.
SwappedAmount(funds, amount, r) ==
  Minus(SatsDown(amount), TxFee(r) + IF funds = Closes THEN Reserve ELSE 0)

\* Mutant: too large a deposit is not refused.
AcceptsAbove(funds, amount, r) ==
  /\ funds = Closes => CanRedeem(r)
  /\ SwappedAmount(funds, amount, r) >= MinDeposit

Accepts(funds, amount, r) ==
  LET sent == SwappedAmount(funds, amount, r) IN
  /\ funds = Closes => CanRedeem(r)
  /\ sent >= MinDeposit /\ sent <= MaxDeposit

-----------------------------------------------------------------------------
Idle == call.goal = "none"

At(goal, step) == call.goal = goal /\ call.at = step

Begins(goal, funds, step) ==
  /\ Idle
  /\ call' = [NoCall EXCEPT !.goal = goal, !.funds = funds, !.at = step,
                            !.amount = AmountOf(funds)]
  /\ advice' = NoAdvice /\ disturbed' = {} /\ outcome' = NoOutcome
  /\ UNCHANGED worldVars

GoesTo(step) ==
  /\ call' = [call EXCEPT !.at = step]
  /\ UNCHANGED <<advice, disturbed, outcome>> /\ UNCHANGED worldVars

Ends(result) ==
  /\ call' = NoCall /\ advice' = NoAdvice
  /\ outcome' = result
  /\ disturbed' = IF result = NoOutcome THEN {} ELSE disturbed

Says(what) ==
  /\ call' = NoCall /\ advice' = what /\ outcome' = NoOutcome
  /\ disturbed' = IF what = NoAdvice THEN {} ELSE disturbed
  /\ UNCHANGED worldVars

Determines == call.goal \in {"determine", "list"}

\* Questions whose failure only says that there is no way to resolve the funds.
Tolerated == Determines /\ call.at \in {"rate", "prepare", "hidden"}

\* Any other question may go without an answer.
CallFails ==
  /\ ~Idle /\ ~Tolerated
  /\ Ends(NoOutcome)
  /\ UNCHANGED worldVars

-----------------------------------------------------------------------------
(* determine_resolving_fees, for the user or for a list (see ActionsRequired) *)

BeginDetermine(funds) ==
  /\ funds \in Unresolved /\ AmountOf(funds) # 0
  /\ Begins("determine", funds, "address")

\* Without an address there is no swap, whatever the reason.
AskAddress ==
  /\ Determines /\ call.at = "address"
  /\ \E open \in {FALSE, ~SwapInProgress} :
       call' = [call EXCEPT !.at = "rate", !.open = open]
  /\ UNCHANGED <<advice, disturbed, outcome>> /\ UNCHANGED worldVars

AskRate ==
  /\ Determines \/ call.goal = "sweep"
  /\ call.at = "rate"
  /\ call' = [call EXCEPT !.at = "prepare", !.rate = rate]
  /\ UNCHANGED <<advice, disturbed, outcome>> /\ UNCHANGED worldVars

AskPrepare ==
  /\ Determines /\ call.at = "prepare"
  /\ CanResolve(call.funds, call.amount, call.rate)
  /\ call' = [call EXCEPT !.at = "fee",
                          !.sent = SweptAmount(call.funds, call.amount, call.rate)]
  /\ UNCHANGED <<advice, disturbed, outcome>> /\ UNCHANGED worldVars

\* The rate or the preparation failed, or the funds are not worth the fee.
NothingFound ==
  /\ At("determine", "rate") \/ At("determine", "prepare")
  /\ Says(NoAdvice)

Determine ==
  /\ At("determine", "fee")
  /\ Says(IF Offers(call.sent, call.amount, call.open)
            THEN [about |-> "swap", funds |-> call.funds, rate |-> call.rate,
                  fee |-> ShownOpeningFee(call.amount)]
            ELSE NoAdvice)

-----------------------------------------------------------------------------
(* swap(), with the fee rate it was told or another one                      *)

BeginSwap(funds, r) ==
  LET advised == advice.about = "swap" /\ advice.funds = funds /\ advice.rate = r IN
  /\ Idle
  /\ funds \in Unresolved
  /\ call' = [NoCall EXCEPT !.goal = "swap", !.funds = funds, !.at = "address",
                            !.amount = AmountOf(funds), !.rate = r, !.advised = advised]
  /\ disturbed' = IF advised THEN disturbed ELSE {}
  /\ advice' = NoAdvice /\ outcome' = NoOutcome
  /\ UNCHANGED worldVars

Refused == [goal |-> "swap", funds |-> call.funds, rate |-> call.rate, sent |-> FALSE,
            sats |-> SwappedAmount(call.funds, call.amount, call.rate),
            advised |-> call.advised]

\* create().
CreateAddress ==
  /\ At("swap", "address")
  /\ \/ ~SwapInProgress /\ GoesTo("prepare")
     \/ SwapInProgress /\ Ends(Refused) /\ UNCHANGED worldVars

PrepareSwap ==
  /\ At("swap", "prepare")
  /\ IF Accepts(call.funds, call.amount, call.rate)
       THEN /\ call' = [call EXCEPT !.at = "fee",
                           !.sent = SwappedAmount(call.funds, call.amount, call.rate)]
            /\ UNCHANGED <<advice, disturbed, outcome>>
       ELSE Ends(Refused)
  /\ UNCHANGED worldVars

AskOpeningFee ==
  /\ At("swap", "fee")
  /\ LET fee == OpeningFee(call.sent, Inbound, LongerTerms) IN
     \/ call.sent > fee /\ GoesTo("send")
     \/ call.sent <= fee /\ Ends(Refused) /\ UNCHANGED worldVars

\* What the transaction sends; the fee rate is the call's.
Sent ==
  IF call.funds = Closes THEN Redeemed(call.rate)
                         ELSE swaps[call.funds].sats - TxFee(call.rate)

FundsSpent ==
  IF call.funds = Closes
    THEN closed' = <<Msats(Reserve)>>
    ELSE UNCHANGED closed

Refunded == IF call.funds = Closes THEN swaps ELSE [swaps EXCEPT ![call.funds].status = "refunded"]

CanSend == Sent > 0 /\ call.funds \in Unresolved

SendSwap ==
  /\ At("swap", "send")
  /\ CanSend
  /\ call.funds # Closes => ~SwapInProgress
  /\ Len(swaps) < MaxSwaps
  /\ FundsSpent
  /\ swaps' = Deposited(Refunded, Sent)
  /\ Ends([Refused EXCEPT !.sent = TRUE, !.sats = Sent])
  /\ UNCHANGED <<channels, closing, rate, payments>>

-----------------------------------------------------------------------------
(* prepare_sweep() and sweep() to an address of the user's                   *)

BeginSweep(funds) == funds \in Unresolved /\ Begins("sweep", funds, "rate")

PrepareSweep ==
  /\ At("sweep", "prepare")
  /\ CanPrepare(call.funds, call.amount, call.rate)
  /\ GoesTo("send")

Sweep ==
  /\ At("sweep", "send")
  /\ CanSend
  /\ FundsSpent
  /\ swaps' = Refunded
  /\ Ends(NoOutcome)
  /\ UNCHANGED <<channels, closing, rate, payments>>

-----------------------------------------------------------------------------
(* The world goes on.                                                        *)

\* What a call's answer depends on; swap() is told its fee rate.
Concerns ==
  CASE call.goal = "list" -> {"funds", "swaps", "rate"}
    [] call.goal \in {"pay", "receive", "clear"} -> {"channels"}
    [] OTHER -> {"funds", "channels", "swaps"}

Disturbs(what) ==
  /\ disturbed' = IF Idle /\ advice = NoAdvice THEN {} ELSE disturbed \cup ({what} \cap Concerns)
  /\ outcome' = NoOutcome
  /\ UNCHANGED <<call, advice>>

World ==
  \/ (\E a \in Payments : ReceivePayment(a) \/ SendPayment(a, RoutingFee)) /\ Disturbs("channels")
  \/ (CloseLargestChannel \/ RedeemSwap) /\ Disturbs("channels")
  \/ ConfirmCloses /\ Disturbs("funds")
  \/ (ConfirmSwap \/ ExpireSwap \/ \E d \in Deposits : StartSwap(d)) /\ Disturbs("swaps")
  \/ RateChanges /\ Disturbs("rate")

Still(what) == disturbed \cap what = {}

-----------------------------------------------------------------------------
Resolve ==
  \/ \E funds \in Unresolved :
       BeginDetermine(funds) \/ BeginSweep(funds) \/ \E r \in Rates : BeginSwap(funds, r)
  \/ AskAddress \/ AskRate \/ AskPrepare \/ NothingFound \/ Determine
  \/ CreateAddress \/ PrepareSwap \/ AskOpeningFee \/ SendSwap
  \/ PrepareSweep \/ Sweep

-----------------------------------------------------------------------------
\* What outcome tells of a swap() that sent, or did not.
Swapped(sent) == outcome.goal = "swap" /\ outcome.sent = sent

(* ChannelClose::swap and Swap::swap, which subtract without a check and     *)
(* decide by what they asked for earlier.  What they send is within the      *)
(* limits of the swap, for a failed swap whatever happens meanwhile and for  *)
(* closed channels unless another close was confirmed; and it is worth more  *)
(* than the channel it may need.                                             *)
DepositWithinLimits ==
  Swapped(TRUE) =>
    /\ (outcome.funds # Closes \/ Still({"funds"})) =>
         outcome.sats >= MinDeposit /\ outcome.sats <= MaxDeposit
    /\ Still({"funds", "channels"}) =>
         outcome.sats > OpeningFee(outcome.sats, Inbound, LongerTerms)

(* "Before using this method use determine_resolving_fees to validate a swap *)
(* is available": a swap that was offered is not refused unless the world    *)
(* has changed.  Only the funds of closed channels may be, when the reserve, *)
(* which the offer does not count, puts the deposit outside the limits.      *)
OfferedSwapSucceeds ==
  Swapped(FALSE) /\ outcome.advised /\ Still({"funds", "channels", "swaps"}) =>
    /\ outcome.funds = Closes
    /\ \/ outcome.sats > MaxDeposit \* the difference wraps around
       \/ outcome.sats < MinDeposit
       \/ outcome.sats <= OpeningFee(outcome.sats, Inbound, LongerTerms)

(* calculate_lsp_fee_for_amount: "Returns 0 if no new channel is required".  *)
(* The user is not told of a fee for a channel when the deposit fits into    *)
(* those there are.                                                          *)
FeeOnlyForChannel ==
  /\ advice.about = "swap" /\ Still({"funds", "channels", "swaps"})
  /\ SatsDown(AmountOf(advice.funds)) <= SatsDown(Inbound)
  => advice.fee = 0
=============================================================================
