---------------------------- MODULE PaymentData ----------------------------
(***************************************************************************)
(* What the library keeps about payments beside the Lightning SDK.         *)
(*                                                                         *)
(* The SDK owns the payments.  The library adds, in SQLite tables keyed by *)
(* payment hash, what the SDK does not know: the user's preferences and    *)
(* exchange rates at the time, a personal note, the topup offer a payment  *)
(* claims (payments, offers), and the invoices it issued                   *)
(* (created_invoices).  Every operation alternates calls to the SDK and to *)
(* services with writes to these tables, each write a transaction of its   *)
(* own.  Operations run concurrently on the app's threads and in the       *)
(* process that handles notifications, and a process may be killed between *)
(* any two steps.                                                          *)
(***************************************************************************)
EXTENDS Naturals

CONSTANTS
  Own,      \* hashes of invoices this node issues
  Foreign,  \* hashes of invoices issued by others
  Notes,    \* personal notes
  Blank,    \* a note of nothing but white space
  Offers,   \* topup offers
  Threads,  \* threads that may run an operation at the same time
  None      \* SQL's NULL

ASSUME PaymentDataAssumption ==
  /\ Own \cap Foreign = {}
  /\ None \notin Notes \cup Offers \cup Own
  /\ Blank \notin Notes \cup {None}

VARIABLES
  sdk,               \* what the SDK knows of each payment
  payments,          \* rows of the table payments
  offers,            \* rows of the table offers, by payment hash
  created_invoices,  \* rows of the table created_invoices
  call,              \* the operation each thread is in, and where
  withdrawn,         \* the invoice each offer's lnurl-withdraw service was given
  hidden,            \* offers the backend was told to hide
  failed,            \* history: hashes for which store_payment_info failed
  cut                \* history: hashes whose operation broke off halfway

vars == <<sdk, payments, offers, created_invoices, call, withdrawn, hidden,
          failed, cut>>

-----------------------------------------------------------------------------
Hashes == Own \cup Foreign

SdkStates == {"unknown", "issued", "pending", "complete", "failed"}

Steps == {"create_info", "create_invoice", "pay_send", "lnurl_info",
          "collect_hide", "collect_info", "collect_fee",
          "collect_invoice", "collect_again"}

NoRow == [row |-> FALSE, note |-> None]

Row == [row : {TRUE}, note : Notes \cup {None}]

Idle == [at |-> "idle", hash |-> None, offer |-> None]

At(t, step) == call[t].at = step

Goto(t, step) == call' = [call EXCEPT ![t].at = step]

Return(t) == call' = [call EXCEPT ![t] = Idle]

Begin(t, step, h, o) ==
  /\ call[t] = Idle
  /\ call' = [call EXCEPT ![t] = [at |-> step, hash |-> h, offer |-> o]]

-----------------------------------------------------------------------------
(* The writes.                                                               *)

\* Mutants: a REPLACE that clears the label of a payment stored without one, and
\* one that never writes it.
LabelCleared(h, o) == o

LabelDropped(h, o) == offers[h]

\* A payment stored without an offer leaves its row of offers alone.
LabelAfter(h, o) == IF o = None THEN offers[h] ELSE o

\* store_payment_info inserts into a table whose key says ON CONFLICT REPLACE: a
\* row that was there is replaced, and columns the statement does not name, the
\* note among them, become NULL.
StoreInfo(h, o) ==
  /\ payments' = [payments EXCEPT ![h] = [row |-> TRUE, note |-> None]]
  /\ offers' = [offers EXCEPT ![h] = LabelAfter(h, o)]
  /\ UNCHANGED failed

\* The transaction fails as a whole; the error is logged and ignored.
StoreInfoFails(h) ==
  /\ failed' = failed \cup {h}
  /\ UNCHANGED <<payments, offers>>

TryStoreInfo(h, o) == StoreInfo(h, o) \/ StoreInfoFails(h)

TryStoreInvoice(h) ==
  created_invoices' \in {created_invoices, created_invoices \cup {h}}

-----------------------------------------------------------------------------
Init ==
  /\ sdk = [h \in Hashes |-> "unknown"]
  /\ payments = [h \in Hashes |-> NoRow]
  /\ offers = [h \in Hashes |-> None]
  /\ created_invoices = {}
  /\ call = [t \in Threads |-> Idle]
  /\ withdrawn = [o \in Offers |-> None]
  /\ hidden = {}
  /\ failed = {}
  /\ cut = {}

-----------------------------------------------------------------------------
(* Bolt11::create, Lnurl::withdraw and the lnurl-pay notification start with *)
(* a new invoice of the SDK's.                                               *)

Issue(h) ==
  /\ h \in Own
  /\ sdk[h] = "unknown"
  /\ sdk' = [sdk EXCEPT ![h] = "issued"]

\* Mutant: no payment info for a new invoice.
InvoiceOnly == "create_invoice"

FirstWriteOfCreate == "create_info"

Create(t, h) ==
  /\ Issue(h)
  /\ Begin(t, FirstWriteOfCreate, h, None)
  /\ UNCHANGED <<payments, offers, created_invoices, withdrawn, hidden, failed, cut>>

\* Lnurl::withdraw tolerates a time-out on handing over the invoice.  The
\* handler of lnurl-pay notifications does not keep its invoice either.
IssueForService(t, h) ==
  /\ Issue(h)
  /\ Begin(t, "lnurl_info", h, None)
  /\ UNCHANGED <<payments, offers, created_invoices, withdrawn, hidden, failed, cut>>

CreateStoresInfo(t) ==
  /\ At(t, "create_info")
  /\ TryStoreInfo(call[t].hash, None)
  /\ Goto(t, "create_invoice")
  /\ UNCHANGED <<sdk, created_invoices, withdrawn, hidden, cut>>

CreateStoresInvoice(t) ==
  /\ At(t, "create_invoice")
  /\ TryStoreInvoice(call[t].hash)
  /\ Return(t)
  /\ UNCHANGED <<sdk, payments, offers, withdrawn, hidden, failed, cut>>

LnurlStoresInfo(t) ==
  /\ At(t, "lnurl_info")
  /\ TryStoreInfo(call[t].hash, None)
  /\ Return(t)
  /\ UNCHANGED <<sdk, created_invoices, withdrawn, hidden, cut>>

-----------------------------------------------------------------------------
(* Bolt11::pay_open_amount stores the payment info before it looks at the    *)
(* node or asks the SDK to pay; Lnurl::pay stores it when the SDK has paid.  *)

Pay(t, h) ==
  /\ sdk[h] # "unknown" \/ h \in Foreign
  /\ Begin(t, "pay_send", h, None)
  /\ TryStoreInfo(h, None)
  /\ UNCHANGED <<sdk, created_invoices, withdrawn, hidden, cut>>

\* The node is unavailable, the invoice is the node's own, or the SDK refuses.
PayRefused(t) ==
  /\ At(t, "pay_send")
  /\ Return(t)
  /\ UNCHANGED <<sdk, payments, offers, created_invoices, withdrawn, hidden, failed, cut>>

PayStarts(t) ==
  /\ At(t, "pay_send")
  /\ call[t].hash \in Foreign
  /\ sdk[call[t].hash] \in {"unknown", "failed"}
  /\ \E s \in {"pending", "complete", "failed"} :
       sdk' = [sdk EXCEPT ![call[t].hash] = s]
  /\ Return(t)
  /\ UNCHANGED <<payments, offers, created_invoices, withdrawn, hidden, failed, cut>>

LnurlPay(t, h) ==
  /\ h \in Foreign
  /\ sdk[h] = "unknown"
  /\ \E s \in {"pending", "complete"} : sdk' = [sdk EXCEPT ![h] = s]
  /\ Begin(t, "lnurl_info", h, None)
  /\ UNCHANGED <<payments, offers, created_invoices, withdrawn, hidden, failed, cut>>

LnurlPayFails(h) ==
  /\ h \in Foreign
  /\ sdk[h] = "unknown"
  /\ sdk' = [sdk EXCEPT ![h] = "failed"]
  /\ UNCHANGED <<payments, offers, created_invoices, call, withdrawn, hidden, failed, cut>>

-----------------------------------------------------------------------------
(* FiatTopup::request_collection.                                            *)

\* Mutant: the label comes before the offer is hidden.
LabelFirst == "collect_info"

FirstWriteOfCollect == "collect_hide"

\* The service of an offer accepts one invoice.
HandOver(h, o) ==
  /\ withdrawn[o] = None
  /\ withdrawn' = [withdrawn EXCEPT ![o] = h]

Collect(t, h, o) ==
  /\ Issue(h)
  /\ HandOver(h, o)
  /\ Begin(t, FirstWriteOfCollect, h, o)
  /\ UNCHANGED <<payments, offers, created_invoices, hidden, failed, cut>>

\* A time-out is an error here: the service may have the invoice all the same.
CollectTimesOut(h, o) ==
  /\ Issue(h)
  /\ HandOver(h, o)
  /\ UNCHANGED <<payments, offers, created_invoices, call, hidden, failed, cut>>

CollectHides(t) ==
  /\ At(t, "collect_hide")
  /\ hidden' = hidden \cup {call[t].offer}
  /\ Goto(t, "collect_info")
  /\ UNCHANGED <<sdk, payments, offers, created_invoices, withdrawn, failed, cut>>

\* hide_topup fails; whether the backend heard of it is unknown, but the
\* operation ends and stores nothing.
CollectHideFails(t) ==
  /\ At(t, "collect_hide")
  /\ \E told \in BOOLEAN :
       /\ hidden' = IF told THEN hidden \cup {call[t].offer} ELSE hidden
       /\ cut' = IF told THEN cut \cup {call[t].hash} ELSE cut
  /\ Return(t)
  /\ UNCHANGED <<sdk, payments, offers, created_invoices, withdrawn, failed>>

CollectStoresInfo(t) ==
  /\ At(t, "collect_info")
  /\ TryStoreInfo(call[t].hash, call[t].offer)
  /\ Goto(t, "collect_fee")
  /\ UNCHANGED <<sdk, created_invoices, withdrawn, hidden, cut>>

\* The LSP fee comes from a cache that may be empty and from the node.
CollectLooksUpFee(t) ==
  /\ At(t, "collect_fee")
  /\ Goto(t, "collect_invoice") \/ Return(t)
  /\ UNCHANGED <<sdk, payments, offers, created_invoices, withdrawn, hidden, failed, cut>>

\* A failure to store the invoice ends the operation.
CollectStoresInvoice(t) ==
  /\ At(t, "collect_invoice")
  /\ \/ /\ created_invoices' = created_invoices \cup {call[t].hash}
        /\ Goto(t, "collect_again")
     \/ /\ Return(t)
        /\ UNCHANGED created_invoices
  /\ UNCHANGED <<sdk, payments, offers, withdrawn, hidden, failed, cut>>

CollectStoresInfoAgain(t) ==
  /\ At(t, "collect_again")
  /\ TryStoreInfo(call[t].hash, call[t].offer)
  /\ Return(t)
  /\ UNCHANGED <<sdk, created_invoices, withdrawn, hidden, cut>>

-----------------------------------------------------------------------------
Trimmed(n) == IF n = Blank THEN None ELSE n

\* The app learns the hash of a new invoice when create returns.
Shown(h) ==
  /\ sdk[h] # "unknown"
  /\ \A t \in Threads :
       call[t].hash = h => call[t].at \notin {"create_info", "create_invoice"}

\* Activities::set_personal_note: an UPDATE, and an INSERT if it met no row.
SetPersonalNote(h, n) ==
  /\ Shown(h)
  /\ payments' = [payments EXCEPT ![h] = [row |-> TRUE, note |-> Trimmed(n)]]
  /\ UNCHANGED <<sdk, offers, created_invoices, call, withdrawn, hidden, failed, cut>>

\* The SDK's outgoing payments move on by themselves; whether an issued invoice
\* was paid makes no difference here.
Settles(h) ==
  /\ sdk[h] = "pending"
  /\ \E s \in {"complete", "failed"} : sdk' = [sdk EXCEPT ![h] = s]
  /\ UNCHANGED <<payments, offers, created_invoices, call, withdrawn, hidden, failed, cut>>

\* The process a thread runs in is killed.
Killed(t) ==
  /\ call[t] # Idle
  /\ Return(t)
  /\ cut' = cut \cup {call[t].hash}
  /\ UNCHANGED <<sdk, payments, offers, created_invoices, withdrawn, hidden, failed>>

Continue(t) ==
  \/ CreateStoresInfo(t) \/ CreateStoresInvoice(t)
  \/ LnurlStoresInfo(t)
  \/ PayRefused(t) \/ PayStarts(t)
  \/ CollectHides(t) \/ CollectHideFails(t) \/ CollectStoresInfo(t)
  \/ CollectLooksUpFee(t) \/ CollectStoresInvoice(t) \/ CollectStoresInfoAgain(t)
  \/ Killed(t)

Next ==
  \/ \E t \in Threads : Continue(t)
  \/ \E t \in Threads, h \in Hashes :
       Create(t, h) \/ IssueForService(t, h) \/ Pay(t, h) \/ LnurlPay(t, h)
  \/ \E t \in Threads, h \in Own, o \in Offers : Collect(t, h, o)
  \/ \E h \in Own, o \in Offers : CollectTimesOut(h, o)
  \/ \E h \in Hashes : LnurlPayFails(h) \/ Settles(h)
  \/ \E h \in Hashes, n \in Notes \cup {Blank} : SetPersonalNote(h, n)

Spec == Init /\ [][Next]_vars

-----------------------------------------------------------------------------
Calls == [at : Steps, hash : Hashes, offer : Offers \cup {None}]

TypeOK ==
  /\ sdk \in [Hashes -> SdkStates]
  /\ payments \in [Hashes -> Row \cup {NoRow}]
  /\ offers \in [Hashes -> Offers \cup {None}]
  /\ created_invoices \in SUBSET Hashes
  /\ call \in [Threads -> Calls \cup {Idle}]
  /\ withdrawn \in [Offers -> Own \cup {None}]
  /\ hidden \in SUBSET Offers
  /\ failed \in SUBSET Hashes
  /\ cut \in SUBSET Hashes

\* Activities cannot show an issued invoice without a row in payments ("Locally
\* created invoice doesn't have local payment data").  Wherever an operation
\* stops, the row is there first, unless its own write failed.
InvoiceHasInfo ==
  \A h \in created_invoices : payments[h].row \/ h \in failed

InFlight(o) == \E t \in Threads : call[t].offer = o

\* An offer that left the list of uncompleted offers is attached to the payment
\* that claims it, whichever early return request_collection took, unless a
\* write failed or the process died.
HiddenIsLabelled ==
  \A o \in hidden :
    InFlight(o) \/ offers[withdrawn[o]] = o \/ withdrawn[o] \in failed \cup cut

\* A payment is shown as the claim of an offer only if it is one.
LabelIsRight ==
  \A h \in Hashes : offers[h] # None => offers[h] \in hidden /\ withdrawn[offers[h]] = h

\* No retry, note or second write takes the label of a claim away.
LabelStays ==
  [][\A h \in Hashes : offers[h] # None => offers'[h] = offers[h]]_vars

\* What the interface says of personal notes: a payment shows the note "added to
\* this payment through set_payment_personal_note", so once the calls on it have
\* returned nothing but that setter changes it, a further attempt to pay included.
NotesStay ==
  [][\A h \in Hashes :
       (\A t \in Threads : call[t].hash # h) /\ payments'[h].note # payments[h].note
         => \E n \in Notes \cup {Blank} : SetPersonalNote(h, n)]_vars
=============================================================================
