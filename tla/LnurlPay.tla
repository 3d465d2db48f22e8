------------------------------ MODULE LnurlPay ------------------------------
(***************************************************************************)
(* How the notification handler answers a request to pay one of the        *)
(* wallet's lightning addresses.                                           *)
(*                                                                         *)
(* The payer waits at the backend for an invoice or a refusal.  The        *)
(* handler must not hand out an invoice that would cost the user a new     *)
(* channel, nor one for an address the user has switched off; and the data *)
(* of the payment must be in the database before the invoice is out, as    *)
(* nothing else stores it.  Meanwhile the node's process may switch        *)
(* addresses on and off (module Addresses), other payments use up the      *)
(* inbound liquidity, and the operating system may end the handler.        *)
(***************************************************************************)
EXTENDS Naturals

CONSTANTS
  Addresses, Phones, Threads, MaxLate  \* see Addresses

VARIABLES
  backend, local, call, late, blurred,  \* see Addresses
  lnurl,      \* where the handler is, and what it knows
  liquidity,  \* the inbound liquidity is enough for the payment
  currency,   \* the row of the fiat currency is there
  row,        \* the row of the payment in the table payments
  answer,     \* what the backend has for the payer
  unwritten,  \* history: the row could not be written
  enabled     \* history: the recipient was enabled since the request arrived

Table == INSTANCE Addresses

tableVars == <<backend, local, call, late, blurred>>

lnurlVars == <<lnurl, liquidity, currency, row, answer, unwritten, enabled>>

-----------------------------------------------------------------------------
LnurlStates ==
  {"idle", "fee", "address", "webhook", "invoice", "rates", "row",
   "submit", "refuse", "created", "refused", "failed"}

LnurlTypeOK ==
  /\ lnurl \in [at : LnurlStates, recipient : Addresses, fee : BOOLEAN, invoice : {"none", "plain", "channel"}]
  /\ liquidity \in BOOLEAN
  /\ currency \in BOOLEAN
  /\ row \in {"absent", "stored"}
  /\ answer \in {"none", "refusal", "invoice"}
  /\ unwritten \in BOOLEAN
  /\ enabled \in BOOLEAN

LnurlInit ==
  /\ Table!Init
  /\ lnurl \in [at : {"idle"}, recipient : Addresses, fee : {FALSE}, invoice : {"none"}]
  /\ liquidity \in BOOLEAN
  /\ currency \in BOOLEAN
  /\ row = "absent"
  /\ answer = "none"
  /\ unwritten = FALSE
  /\ enabled = FALSE

Answering == lnurl.at \notin {"idle", "created", "refused", "failed"}

IsEnabled == local[lnurl.recipient] = "Enabled"

AnswerRequest ==
  /\ lnurl' = [lnurl EXCEPT !.at = "fee"]
  /\ enabled' = IsEnabled
  /\ UNCHANGED <<liquidity, currency, row, answer, unwritten>>

\* The handler goes from one step to another and changes nothing else.
Moves(from, to) ==
  /\ lnurl.at = from
  /\ lnurl' = [lnurl EXCEPT !.at = to]
  /\ UNCHANGED <<liquidity, currency, row, answer, unwritten, enabled>>

\* Any request to the SDK, a service or the database may fail.
Fails ==
  /\ lnurl.at \in {"fee", "address", "webhook", "invoice", "rates"}
  /\ Moves(lnurl.at, "failed")

-----------------------------------------------------------------------------
OpenChannelFee ==
  /\ lnurl.at = "fee"
  /\ lnurl' = [lnurl EXCEPT !.at = "address", !.fee = ~liquidity]
  /\ UNCHANGED <<liquidity, currency, row, answer, unwritten, enabled>>

Accepts(a) == local[a] = "Enabled"

CheckAddress ==
  /\ Accepts(lnurl.recipient)
  /\ Moves("address", IF lnurl.fee THEN "refuse" ELSE "webhook")

RejectAddress ==
  /\ ~Accepts(lnurl.recipient)
  /\ Moves("address", "failed")

RegisterWebhook == Moves("webhook", "invoice")

\* Mutant: the fee of the first question is thought to hold.
NeverNeedsChannel == FALSE

\* The SDK tells with the invoice whether it will open a channel.
NeedsChannel == ~liquidity

CreateInvoice ==
  /\ lnurl.at = "invoice"
  /\ lnurl' = [lnurl EXCEPT !.at = IF NeedsChannel THEN "refuse" ELSE "rates",
                            !.invoice = IF liquidity THEN "plain" ELSE "channel"]
  /\ UNCHANGED <<liquidity, currency, row, answer, unwritten, enabled>>

NoCurrency ==
  /\ ~currency
  /\ Moves("rates", "failed")

QueryRates ==
  /\ currency
  /\ Moves("rates", "row")

\* Mutant: the row is left for later.
LeavesRow == UNCHANGED row

WritesRow == row' = "stored"

StoreRow ==
  /\ lnurl.at = "row"
  /\ WritesRow
  /\ lnurl' = [lnurl EXCEPT !.at = "submit"]
  /\ UNCHANGED <<liquidity, currency, answer, unwritten, enabled>>

\* An error is logged and ignored.
StoreRowFails ==
  /\ lnurl.at = "row"
  /\ unwritten' = TRUE
  /\ lnurl' = [lnurl EXCEPT !.at = "submit"]
  /\ UNCHANGED <<liquidity, currency, row, answer, enabled>>

\* submit_lnurl_pay_invoice with an invoice or none.  The backend may take it
\* and its confirmation be lost.
Submit(from, what, to) ==
  /\ lnurl.at = from
  /\ \/ answer' = what /\ lnurl' = [lnurl EXCEPT !.at = to]
     \/ answer' \in {answer, what} /\ lnurl' = [lnurl EXCEPT !.at = "failed"]
  /\ UNCHANGED <<liquidity, currency, row, unwritten, enabled>>

SubmitInvoice == Submit("submit", "invoice", "created")

ReportInsufficientLiquidity == Submit("refuse", "refusal", "refused")

AnswerStep ==
  \/ Fails
  \/ OpenChannelFee
  \/ CheckAddress \/ RejectAddress
  \/ RegisterWebhook
  \/ CreateInvoice
  \/ NoCurrency \/ QueryRates
  \/ StoreRow \/ StoreRowFails
  \/ SubmitInvoice \/ ReportInsufficientLiquidity

-----------------------------------------------------------------------------
(* The rest of the world.                                                    *)

LiquidityChanges ==
  /\ liquidity' = ~liquidity
  /\ UNCHANGED <<lnurl, currency, row, answer, unwritten, enabled, tableVars>>

\* The node's process registers addresses and sets feature flags.
AddressStep ==
  /\ Table!Next
  /\ enabled' = (enabled \/ local'[lnurl.recipient] = "Enabled")
  /\ UNCHANGED <<lnurl, liquidity, currency, row, answer, unwritten>>

-----------------------------------------------------------------------------
\* The invoice the payer gets opens no channel, and is for an address that was
\* enabled at some time since the request arrived: the check may be outdated
\* when the invoice is out, and by no more than that.
InvoiceIsSafe == answer = "invoice" => lnurl.invoice = "plain" /\ enabled

\* The handler implements what the payer and the owner may rely on: one answer,
\* and no invoice before the data of its payment is stored (or its write was
\* refused, which the code puts up with), wherever the handler is ended.
Request ==
  INSTANCE InvoiceRequest WITH recorded <- (row = "stored" \/ unwritten)

AnswersPayer == Request!Spec
=============================================================================
