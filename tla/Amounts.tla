------------------------------ MODULE Amounts ------------------------------
(***************************************************************************)
(* What the library computes with amounts: satoshi and millisatoshi, what  *)
(* a payment may cost in routing fees, what opening a channel costs, and   *)
(* the limits of the next payment to be received.                          *)
(***************************************************************************)
EXTENDS Naturals, FiniteSetsExt

CONSTANTS
  RoutingPermyriad, \* the node's config: routing fees allowed, in 1/10000
  ExemptFee,        \*   and what is always allowed, in satoshi
  MaxReceive,       \*   the largest payment to receive, in satoshi
  FeeMultiplier,    \*   what the smallest must be worth, in opening fees
  CheaperTerms,     \* the LSP's offers: [min: msats, share: 1/share of the amount]
  LongerTerms,
  Width             \* bound: the width of an integer, 2^64 in the code

ASSUME AmountsAssumption ==
  /\ RoutingPermyriad \in Nat /\ ExemptFee \in Nat /\ MaxReceive \in Nat
  /\ FeeMultiplier \in Nat \ {0}
  /\ {CheaperTerms, LongerTerms} \subseteq [min : Nat, share : Nat \ {0}]
  /\ Width \in Nat \ {0}

SatsDown(msats) == msats \div 1000

SatsUp(msats) == (msats + 999) \div 1000

Msats(sats) == sats * 1000

\* A difference of integers without a sign, in a build that does not check it.
Minus(a, b) == (a - b) % Width

\* Permyriad::of, in msats.
RoutingShare(sats) == (sats * RoutingPermyriad) \div 10

\* get_payment_max_routing_fee_mode, in msats.
MaxRoutingFee(sats) ==
  IF RoutingShare(sats) < Msats(ExemptFee) THEN Msats(ExemptFee) ELSE RoutingShare(sats)

Affordable(sats, payable) == Msats(sats) + MaxRoutingFee(sats) <= payable

\* calculate_lsp_fee_for_amount, in satoshi.
OpeningFee(sats, receivable, terms) ==
  IF sats > SatsDown(receivable)
    THEN SatsUp(Max({Msats(sats \div terms.share), terms.min}))
    ELSE 0

SmallestSetup == SatsUp(CheaperTerms.min) * FeeMultiplier

\* ReceiveAmountLimits::calculate: a payment that must pay for a channel is not
\* to be smaller than SmallestSetup.
Receivable(sats, inbound) ==
  /\ sats <= MaxReceive
  /\ SatsDown(inbound) < SmallestSetup => sats >= SmallestSetup
=============================================================================
