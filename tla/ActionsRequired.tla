-------------------------- MODULE ActionsRequired --------------------------
(***************************************************************************)
(* ActionsRequired: the list of funds that wait for the user, and the two  *)
(* items of it that can be hidden while they cannot be recovered.          *)
(***************************************************************************)
EXTENDS Lightning

VARIABLES
  hiddenAmount, \* the last row of hidden_channel_close_amount, in satoshi
  hiddenSwaps,  \* the rows of hidden_failed_swaps
  shown,        \* the swaps that the list being made shows
  untried,      \*   the hidden ones it has yet to try
  unanswered    \*   and those it could not try

listVars == <<hiddenAmount, hiddenSwaps, shown, untried, unanswered>>

NoAmount == 0

ListInit ==
  /\ hiddenAmount = NoAmount /\ hiddenSwaps = {}
  /\ shown = {} /\ untried = {} /\ unanswered = {}

OnchainSats == SatsDown(OnchainBalance)

\* hide_unrecoverable_channel_close_funds_item.
HideCloses ==
  /\ Idle
  /\ hiddenAmount' = OnchainSats
  /\ Ends(NoOutcome)
  /\ UNCHANGED <<hiddenSwaps, shown, untried, unanswered>> /\ UNCHANGED worldVars

\* hide_unrecoverable_failed_swap_item.
HideSwap(swap) ==
  /\ Idle
  /\ swap \in WithStatus("refundable")
  /\ hiddenSwaps' = hiddenSwaps \cup {swap}
  /\ Ends(NoOutcome)
  /\ UNCHANGED <<hiddenAmount, shown, untried, unanswered>> /\ UNCHANGED worldVars

-----------------------------------------------------------------------------
(* list()                                                                    *)

BeginList ==
  /\ Begins("list", Closes, "swaps")
  /\ UNCHANGED listVars

\* list_refundables; the hidden ones are tried with the fee rate of the moment.
ListSwaps ==
  LET hidden == WithStatus("refundable") \cap hiddenSwaps IN
  /\ At("list", "swaps")
  /\ shown' = WithStatus("refundable") \ hidden
  /\ untried' = hidden /\ unanswered' = {}
  /\ GoesTo(IF hidden = {} THEN "funds" ELSE "hidden")
  /\ UNCHANGED <<hiddenAmount, hiddenSwaps>>

\* Why a swap cannot be prepared makes no difference.
TryHiddenSwap(s) ==
  /\ At("list", "hidden") /\ s \in untried
  /\ untried' = untried \ {s}
  /\ \/ /\ shown' = IF CanPrepare(s, AmountOf(s), rate) THEN shown \cup {s} ELSE shown
        /\ UNCHANGED unanswered
     \/ /\ unanswered' = unanswered \cup {s}
        /\ UNCHANGED shown
  /\ GoesTo(IF untried = {s} THEN "funds" ELSE "hidden")
  /\ UNCHANGED <<hiddenAmount, hiddenSwaps>>

Listed(closes, lost) ==
  Ends([goal |-> "list", swaps |-> shown, closes |-> closes, unanswered |-> lost])

\* Mutant: that something was hidden counts, not the amount.
StaysHidden == hiddenAmount # NoAmount

IsHidden == hiddenAmount = OnchainSats

\* A hidden item is shown if determine_resolving_fees finds a way.
ListCloses ==
  /\ At("list", "funds")
  /\ \/ /\ OnchainSats > Reserve /\ IsHidden
        /\ call' = [call EXCEPT !.at = "address", !.amount = OnchainBalance]
        /\ UNCHANGED <<advice, disturbed, outcome>>
     \/ /\ OnchainSats > Reserve => ~IsHidden
        /\ Listed(OnchainSats > Reserve, unanswered)
  /\ UNCHANGED listVars /\ UNCHANGED worldVars

\* Neither does why no way is found for the closes: they are left out.
ListHiddenCloses ==
  /\ \/ (At("list", "rate") \/ At("list", "prepare")) /\ Listed(FALSE, unanswered \cup {Closes})
     \/ /\ At("list", "prepare") /\ ~CanResolve(Closes, call.amount, call.rate)
        /\ Listed(FALSE, unanswered)
     \/ At("list", "fee") /\ Listed(TRUE, unanswered)
  /\ UNCHANGED listVars /\ UNCHANGED worldVars

List ==
  \/ BeginList \/ ListSwaps \/ ListCloses \/ ListHiddenCloses \/ HideCloses
  \/ \E swap \in 1..MaxSwaps : TryHiddenSwap(swap) \/ HideSwap(swap)

fundsVars == <<worldVars, callVars, listVars>>

FundsInit == WorldInit /\ OnchainInit /\ ListInit

FundsNext ==
  \/ (World \/ CallFails \/ Resolve \/ Use) /\ UNCHANGED listVars
  \/ List

FundsSpec == FundsInit /\ [][FundsNext]_fundsVars

-----------------------------------------------------------------------------
(* "The item will reappear once the amount of funds changes or onchain-fees *)
(* go down enough to make the amount recoverable."  What a list leaves out   *)
(* of the funds there are was hidden by the user with the same amount, and   *)
(* still cannot be recovered at the fee rate of the moment, or a request     *)
(* about it failed: that leaves it out of the list too, which says nothing.  *)
HiddenItemsReturn ==
  outcome.goal = "list" /\ Still({"funds", "rate", "swaps"}) =>
    /\ \A s \in WithStatus("refundable") \ outcome.swaps :
         s \in hiddenSwaps /\ (swaps[s].sats <= TxFee(rate) \/ s \in outcome.unanswered)
    /\ OnchainSats > Reserve /\ ~outcome.closes =>
         /\ hiddenAmount = OnchainSats
         /\ 2 * SweepFee(Closes, rate) > OnchainSats \/ Closes \in outcome.unanswered
=============================================================================
