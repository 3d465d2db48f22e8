--------------------------- MODULE BreezServices ---------------------------
(***************************************************************************)
(* The node and the services behind the SDK, as the mock of the Breez SDK  *)
(* keeps them: channels, their closes, the funds that come of them, swaps  *)
(* into the wallet, and the fee rate of the chain.                         *)
(*                                                                         *)
(* Unlike the mock, which has one swap address, each swap has its own, its *)
(* place in `swaps`.  The fee rate changes, and after a sweep the node     *)
(* keeps the reserve channel_closes.rs counts with.                        *)
(***************************************************************************)
EXTENDS Integers, Sequences, SequencesExt, FiniteSetsExt

CONSTANTS
  Payments,       \* amounts that are received and sent, in msats
  Deposits,       \* amounts sent to a swap address, in satoshi
  Rates,          \* fee rates of the chain
  AddedLiquidity, \* what a new channel has room for, in msats
  MinOpeningFee,  \* what opening one costs at least
  OpeningShare,   \*   and the share of the payment otherwise
  MinDeposit, MaxDeposit, \* the limits of a swap, in satoshi
  MaxPayments,    \* bound: payments made
  MaxSwaps        \* bound: swaps started

ASSUME BreezServicesAssumption ==
  /\ Payments \subseteq Nat /\ Deposits \subseteq Nat /\ Rates \subseteq Nat
  /\ AddedLiquidity \in Nat /\ MinOpeningFee \in Nat /\ OpeningShare \in Nat \ {0}
  /\ MinDeposit \in Nat /\ MaxDeposit \in Nat

Reserve == 546

\* One of the fees, in msats, that the mock picks among.
RoutingFee == 1001

VARIABLES
  channels, \* the open channels: [capacity, local]
  closing,  \* what the channels being closed leave
  closed,   \* the outputs of the closed ones, in msats
  swaps,    \* every swap there was: [status, sats]
  rate,     \* the recommended fee rate
  payments  \* number of payments

worldVars == <<channels, closing, closed, swaps, rate, payments>>

WorldInit ==
  /\ channels = <<>> /\ closing = <<>> /\ closed = <<>>
  /\ swaps = <<>>
  /\ rate \in Rates
  /\ payments = 0

-----------------------------------------------------------------------------
Total(amounts) ==
  LET sum[i \in 0..Len(amounts)] == IF i = 0 THEN 0 ELSE sum[i - 1] + amounts[i]
  IN  sum[Len(amounts)]

Locals == [i \in DOMAIN channels |-> channels[i].local]

Rooms == [i \in DOMAIN channels |-> channels[i].capacity - channels[i].local]

\* What node_info reports.
Balance == Total(Locals)
Inbound == Total(Rooms)
OnchainBalance == Total(closed)

\* What each takes of an amount, the first ones first.
Taken(sizes, amount) ==
  [i \in DOMAIN sizes |->
    Min({sizes[i], Max({0, amount - Total(SubSeq(sizes, 1, i - 1))})})]

LspOpeningFee(amount) ==
  IF amount <= Inbound THEN 0 ELSE Max({MinOpeningFee, amount \div OpeningShare})

CanReceive(amount) == amount >= LspOpeningFee(amount)

ChannelsAfterReceiving(amount) ==
  IF amount <= Inbound
    THEN [i \in DOMAIN channels |-> [channels[i] EXCEPT !.local = @ + Taken(Rooms, amount)[i]]]
    ELSE Append(channels, [capacity |-> amount + AddedLiquidity,
                           local |-> amount - LspOpeningFee(amount)])

ChannelsAfterSending(amount) ==
  [i \in DOMAIN channels |-> [channels[i] EXCEPT !.local = @ - Taken(Locals, amount)[i]]]

ReceivePayment(amount) ==
  /\ payments < MaxPayments
  /\ CanReceive(amount)
  /\ channels' = ChannelsAfterReceiving(amount)
  /\ payments' = payments + 1
  /\ UNCHANGED <<closing, closed, swaps, rate>>

SendPayment(amount, fee) ==
  /\ payments < MaxPayments
  /\ amount + fee <= Balance
  /\ channels' = ChannelsAfterSending(amount + fee)
  /\ payments' = payments + 1
  /\ UNCHANGED <<closing, closed, swaps, rate>>

-----------------------------------------------------------------------------
(* Channel closes                                                            *)

\* Of two with the same balance the later.
Largest == Max({i \in DOMAIN channels : Locals[i] = Max(Range(Locals))})

CloseLargestChannel ==
  /\ channels # <<>>
  /\ channels' = RemoveAt(channels, Largest)
  /\ closing' = Append(closing, channels[Largest].local)
  /\ UNCHANGED <<closed, swaps, rate, payments>>

ConfirmCloses ==
  /\ closing # <<>>
  /\ closed' = closed \o closing /\ closing' = <<>>
  /\ UNCHANGED <<channels, swaps, rate, payments>>

TxFee(r) == 200 * r

CanRedeem(r) == OnchainBalance > TxFee(r) * 1000

HasReserve == \E i \in DOMAIN closed : closed[i] = Reserve * 1000

\* What is sent: all but the fee and the reserve.
Redeemed(r) == OnchainBalance \div 1000 - TxFee(r) - Reserve

-----------------------------------------------------------------------------
(* Swaps                                                                     *)

WithStatus(s) == {i \in DOMAIN swaps : swaps[i].status = s}

SwapInProgress == WithStatus("waiting") \cup WithStatus("redeemable") # {}

Deposited(list, sats) == Append(list, [status |-> "waiting", sats |-> sats])

StartSwap(sats) ==
  /\ ~SwapInProgress
  /\ Len(swaps) < MaxSwaps
  /\ swaps' = Deposited(swaps, sats)
  /\ UNCHANGED <<channels, closing, closed, rate, payments>>

Becomes(from, to) ==
  \E i \in WithStatus(from) : swaps' = [swaps EXCEPT ![i].status = to]

ConfirmSwap ==
  /\ Becomes("waiting", "redeemable")
  /\ UNCHANGED <<channels, closing, closed, rate, payments>>

ExpireSwap ==
  /\ Becomes("redeemable", "refundable")
  /\ UNCHANGED <<channels, closing, closed, rate, payments>>

\* The mock receives the satoshi of the swap as if they were msats, and drops
\* the swap when they do not pay for a channel.
RedeemSwap ==
  \E i \in WithStatus("redeemable") :
    /\ swaps' = [swaps EXCEPT ![i].status = "completed"]
    /\ channels' = IF CanReceive(swaps[i].sats)
                     THEN ChannelsAfterReceiving(swaps[i].sats) ELSE channels
    /\ UNCHANGED <<closing, closed, rate, payments>>

RateChanges ==
  /\ rate' \in Rates \ {rate}
  /\ UNCHANGED <<channels, closing, closed, swaps, payments>>
=============================================================================
