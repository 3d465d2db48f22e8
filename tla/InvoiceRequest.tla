--------------------------- MODULE InvoiceRequest ---------------------------
(***************************************************************************)
(* What a payer who asks a lightning address for an invoice, and the owner *)
(* of the address, may rely on: the payer is answered at most once, with   *)
(* an invoice or a refusal, and the owner's wallet has recorded whatever   *)
(* an invoice is handed out for.  Module LnurlPay implements this.         *)
(***************************************************************************)

VARIABLES
  answer,   \* what the payer was answered
  recorded  \* the wallet knows what the payment will be for

vars == <<answer, recorded>>

-----------------------------------------------------------------------------
Init ==
  /\ answer = "none"
  /\ recorded = FALSE

Record ==
  /\ answer = "none" /\ ~recorded
  /\ recorded' = TRUE
  /\ UNCHANGED answer

Issue ==
  /\ answer = "none" /\ recorded
  /\ answer' = "invoice"
  /\ UNCHANGED recorded

\* Nothing is recorded of a payment that cannot come.
Refuse ==
  /\ answer = "none" /\ ~recorded
  /\ answer' = "refusal"
  /\ UNCHANGED recorded

Spec == Init /\ [][Record \/ Issue \/ Refuse]_vars
=============================================================================
