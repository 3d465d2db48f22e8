----------------------------- MODULE FiatTopup -----------------------------
(***************************************************************************)
(* FiatTopup: registering for topups, the offers they become, collecting   *)
(* them and listing those that are left.  A list asks the offer service    *)
(* first and the node afterwards, while a collection goes on.  What a      *)
(* collection stores is in the module PaymentData.                         *)
(***************************************************************************)
EXTENDS Naturals, Sequences, SequencesExt, FiniteSetsExt

CONSTANTS
  Latest,        \* how many of the latest payments a list looks at, 5 in the code
  MaxOffers,     \* bound: offers the service has made, one per registration
  MaxReceived,   \* bound: payments received
  NoOffer

ASSUME FiatTopupAssumption == Latest \in Nat \ {0}

VARIABLES
  offers,     \* what the service knows of each: [status, hidden]
  withdrawing, \* offers whose invoice the service is paying
  received,   \* the payments received, by the offer they are for
  claims,     \* offers whose payment is known to be theirs, in the database
  rows,       \* table fiat_topup_info
  collecting, \* the collection: which offer and where it is
  listing,    \* the list: where it is, the offers found, the claims there were then
  listed      \* what the last list returned

topupVars == <<offers, withdrawing, received, claims, rows, collecting, listing, listed>>

NoListing == [at |-> "done", found |-> {}, known |-> {}]

TopupInit ==
  /\ offers = <<>> /\ withdrawing = {} /\ received = <<>> /\ claims = {}
  /\ rows = <<>>
  /\ collecting = [offer |-> NoOffer, at |-> "done"]
  /\ listing = NoListing
  /\ listed = {}

Uncompleted ==
  {o \in DOMAIN offers : offers[o].status \in {"ready", "failed", "refunded"} /\ ~offers[o].hidden}

-----------------------------------------------------------------------------
(* register(), reset()                                                       *)

\* The service makes the offer when the setup is completed; the row may then
\* fail to be stored.
Register ==
  /\ Len(offers) < MaxOffers
  /\ \E status \in {"ready", "failed", "refunded"} :
       offers' = Append(offers, [status |-> status, hidden |-> FALSE])
  /\ \/ rows' = Append(rows, Len(offers) + 1)
     \/ UNCHANGED rows
  /\ UNCHANGED <<withdrawing, received, claims, collecting, listing, listed>>

Reset ==
  /\ rows # <<>>
  /\ rows' = <<>>
  /\ UNCHANGED <<offers, withdrawing, received, claims, collecting, listing, listed>>

-----------------------------------------------------------------------------
(* request_collection()                                                      *)

Withdraw(o) ==
  /\ collecting.at = "done"
  /\ o \in DOMAIN offers /\ offers[o].status = "ready" /\ o \notin withdrawing
  /\ o \notin Range(received)
  /\ withdrawing' = withdrawing \cup {o}
  /\ \/ collecting' = [offer |-> o, at |-> "hide"]
     \/ UNCHANGED collecting  \* a timeout
  /\ UNCHANGED <<offers, received, claims, rows, listing, listed>>

\* Mutant: that the offer could not be hidden is only logged.
StoresAfterFailedHide == "store"

AfterFailedHide == "done"

\* An answer that is lost may have hidden the offer.
HideOffer ==
  /\ collecting.at = "hide"
  /\ \/ /\ offers' = [offers EXCEPT ![collecting.offer].hidden = TRUE]
        /\ collecting' = [collecting EXCEPT !.at = "store"]
     \/ /\ offers' \in {offers, [offers EXCEPT ![collecting.offer].hidden = TRUE]}
        /\ collecting' = [collecting EXCEPT !.at = AfterFailedHide]
  /\ UNCHANGED <<withdrawing, received, claims, rows, listing, listed>>

\* store_payment_info; that it fails is only logged.
StoreClaim ==
  /\ collecting.at = "store"
  /\ \/ claims' = claims \cup {collecting.offer}
     \/ UNCHANGED claims
  /\ collecting' = [collecting EXCEPT !.at = "done"]
  /\ UNCHANGED <<offers, withdrawing, received, rows, listing, listed>>

\* dismiss_topup.
Dismiss(o) ==
  /\ o \in DOMAIN offers
  /\ offers' = [offers EXCEPT ![o].hidden = TRUE]
  /\ UNCHANGED <<withdrawing, received, claims, rows, collecting, listing, listed>>

-----------------------------------------------------------------------------
(* The offer service pays, others do too.                                    *)

PayOut(o) ==
  /\ o \in withdrawing
  /\ Len(received) < MaxReceived
  /\ withdrawing' = withdrawing \ {o}
  /\ received' = Append(received, o)
  /\ UNCHANGED <<offers, claims, rows, collecting, listing, listed>>

SettleOffer(o) ==
  /\ o \in Range(received)
  /\ offers[o].status # "settled"
  /\ offers' = [offers EXCEPT ![o].status = "settled"]
  /\ UNCHANGED <<withdrawing, received, claims, rows, collecting, listing, listed>>

ReceiveOther ==
  /\ Len(received) < MaxReceived
  /\ received' = Append(received, NoOffer)
  /\ UNCHANGED <<offers, withdrawing, claims, rows, collecting, listing, listed>>

-----------------------------------------------------------------------------
(* query_uncompleted_offers()                                                *)

LatestReceived == Range(SubSeq(received, Max({1, Len(received) - Latest + 1}), Len(received)))

\* filter_out_recently_claimed_topups.
RecentlyClaimed == LatestReceived \cap claims

QueryOffers ==
  /\ listing.at = "done"
  /\ listing' = [at |-> "payments", found |-> Uncompleted, known |-> claims]
  /\ UNCHANGED <<offers, withdrawing, received, claims, rows, collecting, listed>>

ListOffers ==
  /\ listing.at = "payments"
  /\ listed' = listing.found \ RecentlyClaimed
  /\ listing' = NoListing
  /\ UNCHANGED <<offers, withdrawing, received, claims, rows, collecting>>

Collect ==
  \/ \E o \in 1..MaxOffers : Withdraw(o) \/ Dismiss(o) \/ PayOut(o) \/ SettleOffer(o)
  \/ HideOffer \/ StoreClaim

TopupNext ==
  \/ Register \/ Reset
  \/ Collect
  \/ ReceiveOther
  \/ QueryOffers \/ ListOffers

-----------------------------------------------------------------------------
(* FiatTopup::query_uncompleted_offers asks the service, then the node,      *)
(* while a collection withdraws, hides and stores.  An offer that is known   *)
(* to be claimed is listed only if it became known after the service was     *)
(* asked and its payment is no longer among the latest: a collection hides   *)
(* an offer before it is known as claimed, so what was known before is no    *)
(* longer found, however many payments have come since.                      *)
ClaimedNotListed ==
  [][listing.at = "payments" /\ listing'.at = "done" =>
       \A o \in listed' \cap claims :
         /\ o \notin listing.known
         /\ \A i \in DOMAIN received : received[i] = o => Len(received) - i >= Latest]_topupVars

TopupSpec == TopupInit /\ [][TopupNext]_topupVars
=============================================================================
