----------------------------- MODULE Lightning -----------------------------
(***************************************************************************)
(* What the user is told before paying, receiving and clearing the wallet, *)
(* and what comes of it.                                                   *)
(***************************************************************************)
EXTENDS Onchain

CONSTANTS
  MinReverse, MaxReverse, \* the limits of a reverse swap, in satoshi
  SwapperFee              \* what the payment to the swapper costs, in satoshi

ASSUME SwapperAssumption ==
  MinReverse \in Nat /\ MaxReverse \in Nat /\ SwapperFee \in Nat

\* The app pays and receives whole satoshi.  The fee that is always allowed is
\* enough for a short route, and a channel costs what the LSP's terms say.
ASSUME LightningAssumption ==
  /\ \A amount \in Payments : amount % 1000 = 0
  /\ RoutingFee <= Msats(ExemptFee)
  /\ MinOpeningFee <= CheaperTerms.min

Asks(goal, amount, advised) ==
  /\ Idle
  /\ call' = [NoCall EXCEPT !.goal = goal, !.at = "told", !.amount = amount, !.advised = advised]
  /\ advice' = NoAdvice /\ disturbed' = {} /\ outcome' = NoOutcome
  /\ UNCHANGED worldVars

Result(done) == [goal |-> call.goal, advised |-> call.advised, done |-> done]

-----------------------------------------------------------------------------
\* Mutant: only the amount is compared.
AffordsAmount(amount) == amount <= Balance

TellsAffordable(amount) == Affordable(SatsDown(amount), Balance)

AskPayment(amount) == Asks("pay", amount, TellsAffordable(amount))

\* The SDK pays up to the fee of the node's config, see to_config.
Pay ==
  /\ At("pay", "told")
  /\ \E fee \in {RoutingFee, MaxRoutingFee(SatsDown(call.amount))} :
       \/ SendPayment(call.amount, fee) /\ Ends(Result(TRUE))
       \/ call.amount + fee > Balance /\ Ends(Result(FALSE)) /\ UNCHANGED worldVars

AskReceive(amount) == Asks("receive", amount, Receivable(SatsDown(amount), Inbound))

Receive ==
  /\ At("receive", "told")
  /\ \/ ReceivePayment(call.amount) /\ Ends(Result(TRUE))
     \/ ~CanReceive(call.amount) /\ Ends(Result(FALSE)) /\ UNCHANGED worldVars

-----------------------------------------------------------------------------
(* ReverseSwap                                                               *)

\* determine_clear_wallet_feasibility.
SmallestClear == MinReverse + SatsUp(RoutingShare(MinReverse))

Feasible == SatsDown(Balance) >= SmallestClear /\ SatsDown(Balance) <= MaxReverse

AskClear == Asks("clear", 0, Feasible)

\* prepare_clear_wallet asks for the rate, then for what is payable.
PrepareClear ==
  /\ At("clear", "told")
  /\ call' = [call EXCEPT !.at = "prepared",
                          !.amount = Msats(Max({0, SatsDown(Balance) - SwapperFee}))]
  /\ UNCHANGED <<advice, disturbed, outcome>> /\ UNCHANGED worldVars

\* What the swapper takes.
Clearable(sats) == sats >= MinReverse /\ sats <= MaxReverse

ClearWallet ==
  /\ At("clear", "prepared")
  /\ \/ /\ Clearable(SatsDown(call.amount))
        /\ SendPayment(call.amount, Msats(SwapperFee))
        /\ Ends(Result(TRUE))
     \/ /\ Clearable(SatsDown(call.amount)) => call.amount + Msats(SwapperFee) > Balance
        /\ Ends(Result(FALSE)) /\ UNCHANGED worldVars

Use ==
  \/ \E amount \in Payments : AskPayment(amount) \/ AskReceive(amount)
  \/ Pay \/ Receive
  \/ AskClear \/ PrepareClear \/ ClearWallet

-----------------------------------------------------------------------------
(* determine_payment_affordability, determine_receive_amount_limits and      *)
(* determine_clear_wallet_feasibility each compute by rounded amounts and    *)
(* fees what the SDK will decide by exact ones.  What they allow succeeds,   *)
(* with the highest fee the SDK may pay, unless the channels change.  Only   *)
(* clearing the wallet may be refused: the feasibility counts with a share   *)
(* for routing and not with the swapper's fee, so a wallet just above the    *)
(* minimum is said to be in range and is too small once that fee is taken.   *)
PromisesKept ==
  outcome.goal \in {"pay", "receive", "clear"} /\ outcome.advised /\ Still({"channels"}) =>
    \/ outcome.done
    \/ outcome.goal = "clear" /\ SatsDown(Balance) \in SmallestClear..(MinReverse + SwapperFee - 1)
=============================================================================
