------------------------- MODULE PaymentDataProofs -------------------------
(***************************************************************************)
(* Proofs about the payment tables, for any sets of payments, notes and    *)
(* offers and any number of threads, and about the migrations of the file  *)
(* they are in, for any set of payments and any number of processes.       *)
(*                                                                         *)
(* The migrations: a file fits its version when it has that version's      *)
(* tables, with their columns (Fits), and tells what the wallet was told   *)
(* when every row does and no row is missing (Tells).  Each migration      *)
(* takes tables that fit the version before it to ones that fit its own    *)
(* and tell the same (Leads), so all that is pending succeeds on the       *)
(* version a process looked at.  On the latest schema each migration but   *)
(* one fails, since the tables and the columns it makes are there and the  *)
(* column it reads is not (Fails): a process that comes too late changes   *)
(* nothing.                                                                *)
(***************************************************************************)
EXTENDS PaymentData, Migrations, FiniteSetTheorems, SequenceTheorems, WellFoundedInduction, TLAPS

-----------------------------------------------------------------------------
(* Where a thread may be in which operation.  The invariants the runs check  *)
(* speak of tables; what makes them inductive is what each step of an        *)
(* operation has behind it.                                                  *)

CreateSteps == {"create_info", "create_invoice"}

CollectSteps ==
  {"collect_hide", "collect_info", "collect_fee", "collect_invoice", "collect_again"}

OtherSteps == CreateSteps \cup {"pay_send", "lnurl_info"}

\* An operation on an offer works on the invoice the offer's service was given;
\* the other operations carry no offer.
CallsFit ==
  \A t \in Threads :
    /\ call[t].at \in CollectSteps =>
         /\ call[t].hash \in Own /\ call[t].offer \in Offers
         /\ withdrawn[call[t].offer] = call[t].hash
    /\ call[t].at \in OtherSteps => call[t].offer = None
    /\ call[t].at \in CreateSteps => call[t].hash \in Own

\* No two operations work on one offer.
CallsApart ==
  \A t, u \in Threads :
    call[t].at \in CollectSteps /\ call[u].at \in CollectSteps
      /\ call[t].offer = call[u].offer => t = u

\* Past the hiding of the offer, past the first write of the payment info.
CallsProgress ==
  \A t \in Threads :
    /\ call[t].at = "collect_hide" => call[t].offer \notin hidden
    /\ call[t].at \in CollectSteps \ {"collect_hide"} => call[t].offer \in hidden
    /\ call[t].at \in {"collect_fee", "collect_invoice", "collect_again"} =>
         \/ offers[call[t].hash] = call[t].offer
         \/ call[t].hash \in failed
    /\ call[t].at \in {"create_invoice", "collect_fee", "collect_invoice", "collect_again"} =>
         payments[call[t].hash].row \/ call[t].hash \in failed

\* An invoice is given to one service, once.
WithdrawnOnce ==
  /\ \A o \in Offers : withdrawn[o] # None => sdk[withdrawn[o]] # "unknown"
  /\ \A o, p \in Offers :
       withdrawn[o] # None /\ withdrawn[o] = withdrawn[p] => o = p
  /\ \A o \in hidden : withdrawn[o] # None

IInv ==
  /\ TypeOK /\ CallsFit /\ CallsApart /\ CallsProgress /\ WithdrawnOnce
  /\ InvoiceHasInfo /\ HiddenIsLabelled /\ LabelIsRight

-----------------------------------------------------------------------------
\* A step of a thread, named without the operation it belongs to.
LEMMA CallTypes ==
  ASSUME TypeOK, NEW t \in Threads, call[t].at # "idle"
  PROVE  /\ call[t] \in Calls /\ call[t].hash \in Hashes
         /\ call[t].offer \in Offers \cup {None}
BY DEF TypeOK, Calls, Idle

\* How an operation begins, moves on and returns.
Stands(t, s, h, o) ==
  /\ call' \in [Threads -> Calls \cup {Idle}]
  /\ call'[t].at = s /\ call'[t].hash = h /\ call'[t].offer = o
  /\ \A u \in Threads : u # t => call'[u] = call[u]

Moved(t, s) == Stands(t, s, call[t].hash, call[t].offer)

Returned(t) == Stands(t, "idle", None, None) /\ call'[t] = Idle

LEMMA BeginEffect ==
  ASSUME TypeOK, NEW t \in Threads, NEW s \in Steps, NEW h \in Hashes,
         NEW o \in Offers \cup {None}, Begin(t, s, h, o)
  PROVE  Stands(t, s, h, o) /\ call[t] = Idle
<1>1. [at |-> s, hash |-> h, offer |-> o] \in Calls
  BY DEF Calls
<1> QED
  BY <1>1 DEF TypeOK, Begin, Stands

LEMMA GotoEffect ==
  ASSUME TypeOK, NEW t \in Threads, NEW s \in Steps, call[t].at # "idle", Goto(t, s)
  PROVE  Moved(t, s)
<1>1. call[t] \in Calls
  BY CallTypes
<1> QED
  BY <1>1 DEF TypeOK, Goto, Calls, Moved, Stands

LEMMA ReturnEffect ==
  ASSUME TypeOK, NEW t \in Threads, Return(t)
  PROVE  Returned(t)
BY DEF TypeOK, Return, Returned, Stands, Idle

\* The types survive a write of the payment info.
StoreTyped ==
  /\ payments' \in [Hashes -> Row \cup {NoRow}]
  /\ offers' \in [Hashes -> Offers \cup {None}]
  /\ failed' \in SUBSET Hashes

LEMMA StoreTypes ==
  ASSUME TypeOK, NEW h \in Hashes, NEW o \in Offers \cup {None}, TryStoreInfo(h, o)
  PROVE  StoreTyped
<1>1. [row |-> TRUE, note |-> None] \in Row
  BY DEF Row
<1> QED
  BY <1>1 DEF TypeOK, TryStoreInfo, StoreInfo, StoreInfoFails, LabelAfter, StoreTyped

\* What a write of the payment info leaves behind: rows stay rows, failures stay
\* recorded, one of the two happens to the written hash, and the labels of other
\* payments stay as they are.
Stored(h, o) ==
  /\ failed \subseteq failed'
  /\ \A g \in Hashes : payments[g].row => payments'[g].row
  /\ payments'[h].row \/ h \in failed'
  /\ \A g \in Hashes : g # h => offers'[g] = offers[g]
  /\ o = None => offers' = offers
  /\ o # None => (offers'[h] = o \/ (h \in failed' /\ offers' = offers))

LEMMA StoreEffect ==
  ASSUME TypeOK, NEW h \in Hashes, NEW o \in Offers \cup {None}, TryStoreInfo(h, o)
  PROVE  Stored(h, o)
<1>1. CASE StoreInfo(h, o)
  BY <1>1 DEF TypeOK, StoreInfo, LabelAfter, Stored
<1>2. CASE StoreInfoFails(h)
  BY <1>2 DEF TypeOK, StoreInfoFails, Stored
<1> QED
  BY <1>1, <1>2 DEF TryStoreInfo

-----------------------------------------------------------------------------
(* The inductive invariant. *)

LEMMA IInvInit == Init => IInv
BY PaymentDataAssumption
   DEF Init, IInv, TypeOK, Hashes, SdkStates, NoRow, Idle, CallsFit, CallsApart, CallsProgress, WithdrawnOnce,
       InvoiceHasInfo, HiddenIsLabelled, LabelIsRight, CollectSteps, CreateSteps, OtherSteps

LEMMA IInvStep == IInv /\ [Next]_vars => IInv'
<1> SUFFICES ASSUME IInv, [Next]_vars PROVE IInv'
  OBVIOUS
<1> USE PaymentDataAssumption DEF Hashes, CollectSteps, CreateSteps, OtherSteps
<1>0. TypeOK
  BY DEF IInv
<1>1. ASSUME NEW t \in Threads, NEW h \in Hashes, Create(t, h)
      PROVE  IInv'
  <2>1. Stands(t, "create_info", h, None) /\ call[t] = Idle
    BY <1>0, <1>1, BeginEffect DEF Create, Steps, FirstWriteOfCreate
  <2>2. TypeOK'
    BY <1>0, <1>1, <2>1 DEF TypeOK, SdkStates, Create, Issue, FirstWriteOfCreate, Stands
  <2>3. CallsFit' /\ CallsApart' /\ WithdrawnOnce'
    BY <1>0, <1>1, <2>1
       DEF CallsApart, IInv, TypeOK, CallsFit, WithdrawnOnce, LabelIsRight, Idle, Calls,
           Create, Issue, FirstWriteOfCreate, Stands
  <2>4. CallsProgress'
    BY <1>0, <1>1, <2>1
       DEF IInv, TypeOK, CallsApart, CallsFit, CallsProgress, WithdrawnOnce, Idle, Calls,
           Create, Issue, FirstWriteOfCreate, Stands
  <2>5. InvoiceHasInfo'
    BY <1>0, <1>1, <2>1
       DEF IInv, TypeOK, CallsFit, CallsProgress, InvoiceHasInfo, Idle, Create, Issue,
           FirstWriteOfCreate, Stands
  <2>6. HiddenIsLabelled'
    BY <1>0, <1>1, <2>1
       DEF IInv, TypeOK, CallsFit, CallsProgress, WithdrawnOnce, HiddenIsLabelled, InFlight,
           Idle, Create, Issue, FirstWriteOfCreate, Stands
  <2>7. LabelIsRight'
    BY <1>0, <1>1, <2>1
       DEF IInv, TypeOK, CallsFit, CallsProgress, WithdrawnOnce, LabelIsRight, Idle, Create,
           Issue, FirstWriteOfCreate, Stands
  <2> QED
    BY <2>2, <2>3, <2>4, <2>5, <2>6, <2>7 DEF IInv
<1>2. ASSUME NEW t \in Threads, NEW h \in Hashes, IssueForService(t, h)
      PROVE  IInv'
  <2>1. Stands(t, "lnurl_info", h, None) /\ call[t] = Idle
    BY <1>0, <1>2, BeginEffect DEF IssueForService, Steps
  <2>2. TypeOK'
    BY <1>0, <1>2, <2>1 DEF TypeOK, SdkStates, IssueForService, Issue, Stands
  <2>3. CallsFit' /\ CallsApart' /\ WithdrawnOnce'
    BY <1>0, <1>2, <2>1
       DEF CallsApart, IInv, TypeOK, CallsFit, WithdrawnOnce, LabelIsRight, Idle, Calls,
           IssueForService, Issue, Stands
  <2>4. CallsProgress'
    BY <1>0, <1>2, <2>1
       DEF IInv, TypeOK, CallsApart, CallsFit, CallsProgress, WithdrawnOnce, Idle, Calls,
           IssueForService, Issue, Stands
  <2>5. InvoiceHasInfo'
    BY <1>0, <1>2, <2>1
       DEF IInv, TypeOK, CallsFit, CallsProgress, InvoiceHasInfo, Idle, IssueForService,
           Issue, Stands
  <2>6. HiddenIsLabelled'
    BY <1>0, <1>2, <2>1
       DEF IInv, TypeOK, CallsFit, CallsProgress, WithdrawnOnce, HiddenIsLabelled, InFlight,
           Idle, IssueForService, Issue, Stands
  <2>7. LabelIsRight'
    BY <1>0, <1>2, <2>1
       DEF IInv, TypeOK, CallsFit, CallsProgress, WithdrawnOnce, LabelIsRight, Idle,
           IssueForService, Issue, Stands
  <2> QED
    BY <2>2, <2>3, <2>4, <2>5, <2>6, <2>7 DEF IInv
<1>3. ASSUME NEW t \in Threads, NEW h \in Hashes, Pay(t, h)
      PROVE  IInv'
  <2>1. Stands(t, "pay_send", h, None) /\ call[t] = Idle
    BY <1>0, <1>3, BeginEffect DEF Pay, Steps
  <2>2. StoreTyped /\ Stored(h, None)
    BY <1>0, <1>3, StoreTypes, StoreEffect DEF Pay
  <2>3. TypeOK'
    BY <1>0, <1>3, <2>1, <2>2 DEF TypeOK, SdkStates, Pay, Stands, StoreTyped
  <2>4. CallsFit' /\ CallsApart' /\ WithdrawnOnce'
    BY <1>0, <1>3, <2>1, <2>2
       DEF CallsApart, IInv, TypeOK, CallsFit, WithdrawnOnce, LabelIsRight, Idle, Calls,
           Pay, Stands, Stored
  <2>5. CallsProgress'
    BY <1>0, <1>3, <2>1, <2>2
       DEF IInv, TypeOK, CallsApart, CallsFit, CallsProgress, WithdrawnOnce, Idle, Calls,
           Pay, Stands, Stored
  <2>6. InvoiceHasInfo'
    BY <1>0, <1>3, <2>1, <2>2
       DEF IInv, TypeOK, CallsFit, CallsProgress, InvoiceHasInfo, Idle, Pay, Stands, Stored
  <2>7. HiddenIsLabelled'
    BY <1>0, <1>3, <2>1, <2>2
       DEF IInv, TypeOK, CallsFit, CallsProgress, WithdrawnOnce, HiddenIsLabelled, InFlight,
           Idle, Pay, Stands, Stored
  <2>8. LabelIsRight'
    BY <1>0, <1>3, <2>1, <2>2
       DEF IInv, TypeOK, CallsFit, CallsProgress, WithdrawnOnce, LabelIsRight, Idle, Pay,
           Stands, Stored
  <2> QED
    BY <2>3, <2>4, <2>5, <2>6, <2>7, <2>8 DEF IInv
<1>4. ASSUME NEW t \in Threads, NEW h \in Hashes, LnurlPay(t, h)
      PROVE  IInv'
  <2>1. Stands(t, "lnurl_info", h, None) /\ call[t] = Idle
    BY <1>0, <1>4, BeginEffect DEF LnurlPay, Steps
  <2>2. TypeOK'
    BY <1>0, <1>4, <2>1 DEF TypeOK, SdkStates, LnurlPay, Stands
  <2>3. CallsFit' /\ CallsApart' /\ WithdrawnOnce'
    BY <1>0, <1>4, <2>1
       DEF CallsApart, IInv, TypeOK, CallsFit, WithdrawnOnce, LabelIsRight, Idle, Calls,
           LnurlPay, Stands
  <2>4. CallsProgress'
    BY <1>0, <1>4, <2>1
       DEF IInv, TypeOK, CallsApart, CallsFit, CallsProgress, WithdrawnOnce, Idle, Calls,
           LnurlPay, Stands
  <2>5. InvoiceHasInfo'
    BY <1>0, <1>4, <2>1
       DEF IInv, TypeOK, CallsFit, CallsProgress, InvoiceHasInfo, Idle, LnurlPay, Stands
  <2>6. HiddenIsLabelled'
    BY <1>0, <1>4, <2>1
       DEF IInv, TypeOK, CallsFit, CallsProgress, WithdrawnOnce, HiddenIsLabelled, InFlight,
           Idle, LnurlPay, Stands
  <2>7. LabelIsRight'
    BY <1>0, <1>4, <2>1
       DEF IInv, TypeOK, CallsFit, CallsProgress, WithdrawnOnce, LabelIsRight, Idle,
           LnurlPay, Stands
  <2> QED
    BY <2>2, <2>3, <2>4, <2>5, <2>6, <2>7 DEF IInv
<1>5. ASSUME NEW t \in Threads, NEW h \in Own, NEW o \in Offers, Collect(t, h, o)
      PROVE  IInv'
  <2>1. Stands(t, "collect_hide", h, o) /\ call[t] = Idle
    BY <1>0, <1>5, BeginEffect DEF Collect, Steps, FirstWriteOfCollect
  <2>2. TypeOK'
    BY <1>0, <1>5, <2>1
       DEF TypeOK, SdkStates, Collect, Issue, HandOver, FirstWriteOfCollect, Stands
  <2>3. CallsFit' /\ CallsApart' /\ WithdrawnOnce'
    BY <1>0, <1>5, <2>1
       DEF CallsApart, IInv, TypeOK, CallsFit, WithdrawnOnce, LabelIsRight, Idle, Calls,
           Collect, Issue, HandOver, FirstWriteOfCollect, Stands
  <2>4. CallsProgress'
    BY <1>0, <1>5, <2>1
       DEF IInv, TypeOK, CallsApart, CallsFit, CallsProgress, WithdrawnOnce, Idle, Calls,
           Collect, Issue, HandOver, FirstWriteOfCollect, Stands
  <2>5. InvoiceHasInfo'
    BY <1>0, <1>5, <2>1
       DEF IInv, TypeOK, CallsFit, CallsProgress, InvoiceHasInfo, Idle, Collect, Issue,
           HandOver, FirstWriteOfCollect, Stands
  <2>6. HiddenIsLabelled'
    BY <1>0, <1>5, <2>1
       DEF IInv, TypeOK, CallsFit, CallsProgress, WithdrawnOnce, HiddenIsLabelled, InFlight,
           Idle, Collect, Issue, HandOver, FirstWriteOfCollect, Stands
  <2>7. LabelIsRight'
    BY <1>0, <1>5, <2>1
       DEF IInv, TypeOK, CallsFit, CallsProgress, WithdrawnOnce, LabelIsRight, Idle,
           Collect, Issue, HandOver, FirstWriteOfCollect, Stands
  <2> QED
    BY <2>2, <2>3, <2>4, <2>5, <2>6, <2>7 DEF IInv
<1>6. ASSUME NEW h \in Own, NEW o \in Offers, CollectTimesOut(h, o)
      PROVE  IInv'
  <2>1. TypeOK'
    BY <1>0, <1>6 DEF TypeOK, SdkStates, CollectTimesOut, Issue, HandOver
  <2>2. CallsFit' /\ CallsApart' /\ WithdrawnOnce'
    BY <1>0, <1>6
       DEF CallsApart, IInv, TypeOK, CallsFit, WithdrawnOnce, LabelIsRight, Idle, Calls,
           CollectTimesOut, Issue, HandOver
  <2>3. CallsProgress'
    BY <1>0, <1>6
       DEF IInv, TypeOK, CallsApart, CallsFit, CallsProgress, WithdrawnOnce, Idle, Calls,
           CollectTimesOut, Issue, HandOver
  <2>4. InvoiceHasInfo'
    BY <1>0, <1>6
       DEF IInv, TypeOK, CallsFit, CallsProgress, InvoiceHasInfo, Idle, CollectTimesOut,
           Issue, HandOver
  <2>5. HiddenIsLabelled'
    BY <1>0, <1>6
       DEF IInv, TypeOK, CallsFit, CallsProgress, WithdrawnOnce, HiddenIsLabelled, InFlight,
           Idle, CollectTimesOut, Issue, HandOver
  <2>6. LabelIsRight'
    BY <1>0, <1>6
       DEF IInv, TypeOK, CallsFit, CallsProgress, WithdrawnOnce, LabelIsRight, Idle,
           CollectTimesOut, Issue, HandOver
  <2> QED
    BY <2>1, <2>2, <2>3, <2>4, <2>5, <2>6 DEF IInv
<1>7. ASSUME NEW h \in Hashes, LnurlPayFails(h)
      PROVE  IInv'
  <2>1. TypeOK'
    BY <1>0, <1>7 DEF TypeOK, SdkStates, LnurlPayFails
  <2>2. CallsFit' /\ CallsApart' /\ WithdrawnOnce'
    BY <1>0, <1>7
       DEF CallsApart, IInv, TypeOK, CallsFit, WithdrawnOnce, LabelIsRight, Idle, Calls,
           LnurlPayFails
  <2>3. CallsProgress'
    BY <1>0, <1>7
       DEF IInv, TypeOK, CallsApart, CallsFit, CallsProgress, WithdrawnOnce, Idle, Calls,
           LnurlPayFails
  <2>4. InvoiceHasInfo'
    BY <1>0, <1>7
       DEF IInv, TypeOK, CallsFit, CallsProgress, InvoiceHasInfo, Idle, LnurlPayFails
  <2>5. HiddenIsLabelled'
    BY <1>0, <1>7
       DEF IInv, TypeOK, CallsFit, CallsProgress, WithdrawnOnce, HiddenIsLabelled, InFlight,
           Idle, LnurlPayFails
  <2>6. LabelIsRight'
    BY <1>0, <1>7
       DEF IInv, TypeOK, CallsFit, CallsProgress, WithdrawnOnce, LabelIsRight, Idle,
           LnurlPayFails
  <2> QED
    BY <2>1, <2>2, <2>3, <2>4, <2>5, <2>6 DEF IInv
<1>8. ASSUME NEW h \in Hashes, Settles(h)
      PROVE  IInv'
  <2>1. TypeOK'
    BY <1>0, <1>8 DEF TypeOK, SdkStates, Settles
  <2>2. CallsFit' /\ CallsApart' /\ WithdrawnOnce'
    BY <1>0, <1>8
       DEF CallsApart, IInv, TypeOK, CallsFit, WithdrawnOnce, LabelIsRight, Idle, Calls,
           Settles
  <2>3. CallsProgress'
    BY <1>0, <1>8
       DEF IInv, TypeOK, CallsApart, CallsFit, CallsProgress, WithdrawnOnce, Idle, Calls,
           Settles
  <2>4. InvoiceHasInfo'
    BY <1>0, <1>8 DEF IInv, TypeOK, CallsFit, CallsProgress, InvoiceHasInfo, Idle, Settles
  <2>5. HiddenIsLabelled'
    BY <1>0, <1>8
       DEF IInv, TypeOK, CallsFit, CallsProgress, WithdrawnOnce, HiddenIsLabelled, InFlight,
           Idle, Settles
  <2>6. LabelIsRight'
    BY <1>0, <1>8
       DEF IInv, TypeOK, CallsFit, CallsProgress, WithdrawnOnce, LabelIsRight, Idle, Settles
  <2> QED
    BY <2>1, <2>2, <2>3, <2>4, <2>5, <2>6 DEF IInv
<1>9. ASSUME NEW h \in Hashes, NEW n \in Notes \cup {Blank}, SetPersonalNote(h, n)
      PROVE  IInv'
  <2>1. TypeOK'
    BY <1>0, <1>9 DEF TypeOK, SdkStates, SetPersonalNote, Trimmed, Shown, Row, NoRow
  <2>2. CallsFit' /\ CallsApart' /\ WithdrawnOnce'
    BY <1>0, <1>9
       DEF CallsApart, IInv, TypeOK, CallsFit, WithdrawnOnce, LabelIsRight, Idle, Calls,
           SetPersonalNote, Trimmed, Shown, Row, NoRow
  <2>3. CallsProgress'
    BY <1>0, <1>9
       DEF IInv, TypeOK, CallsApart, CallsFit, CallsProgress, WithdrawnOnce, Idle, Calls,
           SetPersonalNote, Trimmed, Shown, Row, NoRow
  <2>4. InvoiceHasInfo'
    BY <1>0, <1>9
       DEF IInv, TypeOK, CallsFit, CallsProgress, InvoiceHasInfo, Idle, SetPersonalNote,
           Trimmed, Shown, Row, NoRow
  <2>5. HiddenIsLabelled'
    BY <1>0, <1>9
       DEF IInv, TypeOK, CallsFit, CallsProgress, WithdrawnOnce, HiddenIsLabelled, InFlight,
           Idle, SetPersonalNote, Trimmed, Shown, Row, NoRow
  <2>6. LabelIsRight'
    BY <1>0, <1>9
       DEF IInv, TypeOK, CallsFit, CallsProgress, WithdrawnOnce, LabelIsRight, Idle,
           SetPersonalNote, Trimmed, Shown, Row, NoRow
  <2> QED
    BY <2>1, <2>2, <2>3, <2>4, <2>5, <2>6 DEF IInv
<1>10. ASSUME NEW t \in Threads, CreateStoresInfo(t)
      PROVE  IInv'
  <2>1. call[t].at # "idle" /\ call[t].hash \in Hashes /\ call[t].offer \in Offers \cup {None}
    BY <1>0, <1>10, CallTypes DEF CreateStoresInfo, At
  <2>2. Moved(t, "create_invoice")
    BY <1>0, <1>10, <2>1, GotoEffect DEF CreateStoresInfo, Steps
  <2>3. StoreTyped /\ Stored(call[t].hash, None)
    BY <1>0, <1>10, <2>1, StoreTypes, StoreEffect DEF CreateStoresInfo
  <2>4. TypeOK'
    BY <1>0, <1>10, <2>1, <2>2, <2>3
       DEF TypeOK, SdkStates, CreateStoresInfo, At, Moved, Stands, StoreTyped
  <2>5. CallsFit' /\ CallsApart' /\ WithdrawnOnce'
    BY <1>0, <1>10, <2>1, <2>2, <2>3
       DEF CallsApart, IInv, TypeOK, CallsFit, WithdrawnOnce, LabelIsRight, Idle, Calls,
           CreateStoresInfo, At, Moved, Stands, Stored
  <2>6. CallsProgress'
    BY <1>0, <1>10, <2>1, <2>2, <2>3
       DEF IInv, TypeOK, CallsApart, CallsFit, CallsProgress, WithdrawnOnce, Idle, Calls,
           CreateStoresInfo, At, Moved, Stands, Stored
  <2>7. InvoiceHasInfo'
    BY <1>0, <1>10, <2>1, <2>2, <2>3
       DEF IInv, TypeOK, CallsFit, CallsProgress, InvoiceHasInfo, Idle, CreateStoresInfo,
           At, Moved, Stands, Stored
  <2>8. HiddenIsLabelled'
    BY <1>0, <1>10, <2>1, <2>2, <2>3
       DEF IInv, TypeOK, CallsFit, CallsProgress, WithdrawnOnce, HiddenIsLabelled, InFlight,
           Idle, CreateStoresInfo, At, Moved, Stands, Stored
  <2>9. LabelIsRight'
    BY <1>0, <1>10, <2>1, <2>2, <2>3
       DEF IInv, TypeOK, CallsFit, CallsProgress, WithdrawnOnce, LabelIsRight, Idle,
           CreateStoresInfo, At, Moved, Stands, Stored
  <2> QED
    BY <2>4, <2>5, <2>6, <2>7, <2>8, <2>9 DEF IInv
<1>11. ASSUME NEW t \in Threads, CreateStoresInvoice(t)
      PROVE  IInv'
  <2>1. call[t].at # "idle" /\ call[t].hash \in Hashes /\ call[t].offer \in Offers \cup {None}
    BY <1>0, <1>11, CallTypes DEF CreateStoresInvoice, At
  <2>2. Returned(t)
    BY <1>0, <1>11, ReturnEffect DEF CreateStoresInvoice
  <2>3. TypeOK'
    BY <1>0, <1>11, <2>1, <2>2
       DEF TypeOK, SdkStates, CreateStoresInvoice, At, TryStoreInvoice, Returned, Stands
  <2>4. CallsFit' /\ CallsApart' /\ WithdrawnOnce'
    BY <1>0, <1>11, <2>1, <2>2
       DEF CallsApart, IInv, TypeOK, CallsFit, WithdrawnOnce, LabelIsRight, Idle, Calls,
           CreateStoresInvoice, At, TryStoreInvoice, Returned, Stands
  <2>5. CallsProgress'
    BY <1>0, <1>11, <2>1, <2>2
       DEF IInv, TypeOK, CallsApart, CallsFit, CallsProgress, WithdrawnOnce, Idle, Calls,
           CreateStoresInvoice, At, TryStoreInvoice, Returned, Stands
  <2>6. InvoiceHasInfo'
    BY <1>0, <1>11, <2>1, <2>2
       DEF IInv, TypeOK, CallsFit, CallsProgress, InvoiceHasInfo, Idle, CreateStoresInvoice,
           At, TryStoreInvoice, Returned, Stands
  <2>7. HiddenIsLabelled'
    BY <1>0, <1>11, <2>1, <2>2
       DEF IInv, TypeOK, CallsFit, CallsProgress, WithdrawnOnce, HiddenIsLabelled, InFlight,
           Idle, CreateStoresInvoice, At, TryStoreInvoice, Returned, Stands
  <2>8. LabelIsRight'
    BY <1>0, <1>11, <2>1, <2>2
       DEF IInv, TypeOK, CallsFit, CallsProgress, WithdrawnOnce, LabelIsRight, Idle,
           CreateStoresInvoice, At, TryStoreInvoice, Returned, Stands
  <2> QED
    BY <2>3, <2>4, <2>5, <2>6, <2>7, <2>8 DEF IInv
<1>12. ASSUME NEW t \in Threads, LnurlStoresInfo(t)
      PROVE  IInv'
  <2>1. call[t].at # "idle" /\ call[t].hash \in Hashes /\ call[t].offer \in Offers \cup {None}
    BY <1>0, <1>12, CallTypes DEF LnurlStoresInfo, At
  <2>2. Returned(t)
    BY <1>0, <1>12, ReturnEffect DEF LnurlStoresInfo
  <2>3. StoreTyped /\ Stored(call[t].hash, None)
    BY <1>0, <1>12, <2>1, StoreTypes, StoreEffect DEF LnurlStoresInfo
  <2>4. TypeOK'
    BY <1>0, <1>12, <2>1, <2>2, <2>3
       DEF TypeOK, SdkStates, LnurlStoresInfo, At, Returned, Stands, StoreTyped
  <2>5. CallsFit' /\ CallsApart' /\ WithdrawnOnce'
    BY <1>0, <1>12, <2>1, <2>2, <2>3
       DEF CallsApart, IInv, TypeOK, CallsFit, WithdrawnOnce, LabelIsRight, Idle, Calls,
           LnurlStoresInfo, At, Returned, Stands, Stored
  <2>6. CallsProgress'
    BY <1>0, <1>12, <2>1, <2>2, <2>3
       DEF IInv, TypeOK, CallsApart, CallsFit, CallsProgress, WithdrawnOnce, Idle, Calls,
           LnurlStoresInfo, At, Returned, Stands, Stored
  <2>7. InvoiceHasInfo'
    BY <1>0, <1>12, <2>1, <2>2, <2>3
       DEF IInv, TypeOK, CallsFit, CallsProgress, InvoiceHasInfo, Idle, LnurlStoresInfo, At,
           Returned, Stands, Stored
  <2>8. HiddenIsLabelled'
    BY <1>0, <1>12, <2>1, <2>2, <2>3
       DEF IInv, TypeOK, CallsFit, CallsProgress, WithdrawnOnce, HiddenIsLabelled, InFlight,
           Idle, LnurlStoresInfo, At, Returned, Stands, Stored
  <2>9. LabelIsRight'
    BY <1>0, <1>12, <2>1, <2>2, <2>3
       DEF IInv, TypeOK, CallsFit, CallsProgress, WithdrawnOnce, LabelIsRight, Idle,
           LnurlStoresInfo, At, Returned, Stands, Stored
  <2> QED
    BY <2>4, <2>5, <2>6, <2>7, <2>8, <2>9 DEF IInv
<1>13. ASSUME NEW t \in Threads, PayRefused(t)
      PROVE  IInv'
  <2>1. call[t].at # "idle" /\ call[t].hash \in Hashes /\ call[t].offer \in Offers \cup {None}
    BY <1>0, <1>13, CallTypes DEF PayRefused, At
  <2>2. Returned(t)
    BY <1>0, <1>13, ReturnEffect DEF PayRefused
  <2>3. TypeOK'
    BY <1>0, <1>13, <2>1, <2>2 DEF TypeOK, SdkStates, PayRefused, At, Returned, Stands
  <2>4. CallsFit' /\ CallsApart' /\ WithdrawnOnce'
    BY <1>0, <1>13, <2>1, <2>2
       DEF CallsApart, IInv, TypeOK, CallsFit, WithdrawnOnce, LabelIsRight, Idle, Calls,
           PayRefused, At, Returned, Stands
  <2>5. CallsProgress'
    BY <1>0, <1>13, <2>1, <2>2
       DEF IInv, TypeOK, CallsApart, CallsFit, CallsProgress, WithdrawnOnce, Idle, Calls,
           PayRefused, At, Returned, Stands
  <2>6. InvoiceHasInfo'
    BY <1>0, <1>13, <2>1, <2>2
       DEF IInv, TypeOK, CallsFit, CallsProgress, InvoiceHasInfo, Idle, PayRefused, At,
           Returned, Stands
  <2>7. HiddenIsLabelled'
    BY <1>0, <1>13, <2>1, <2>2
       DEF IInv, TypeOK, CallsFit, CallsProgress, WithdrawnOnce, HiddenIsLabelled, InFlight,
           Idle, PayRefused, At, Returned, Stands
  <2>8. LabelIsRight'
    BY <1>0, <1>13, <2>1, <2>2
       DEF IInv, TypeOK, CallsFit, CallsProgress, WithdrawnOnce, LabelIsRight, Idle,
           PayRefused, At, Returned, Stands
  <2> QED
    BY <2>3, <2>4, <2>5, <2>6, <2>7, <2>8 DEF IInv
<1>14. ASSUME NEW t \in Threads, PayStarts(t)
      PROVE  IInv'
  <2>1. call[t].at # "idle" /\ call[t].hash \in Hashes /\ call[t].offer \in Offers \cup {None}
    BY <1>0, <1>14, CallTypes DEF PayStarts, At
  <2>2. Returned(t)
    BY <1>0, <1>14, ReturnEffect DEF PayStarts
  <2>3. TypeOK'
    BY <1>0, <1>14, <2>1, <2>2 DEF TypeOK, SdkStates, PayStarts, At, Returned, Stands
  <2>4. CallsFit' /\ CallsApart' /\ WithdrawnOnce'
    BY <1>0, <1>14, <2>1, <2>2
       DEF CallsApart, IInv, TypeOK, CallsFit, WithdrawnOnce, LabelIsRight, Idle, Calls,
           PayStarts, At, Returned, Stands
  <2>5. CallsProgress'
    BY <1>0, <1>14, <2>1, <2>2
       DEF IInv, TypeOK, CallsApart, CallsFit, CallsProgress, WithdrawnOnce, Idle, Calls,
           PayStarts, At, Returned, Stands
  <2>6. InvoiceHasInfo'
    BY <1>0, <1>14, <2>1, <2>2
       DEF IInv, TypeOK, CallsFit, CallsProgress, InvoiceHasInfo, Idle, PayStarts, At,
           Returned, Stands
  <2>7. HiddenIsLabelled'
    BY <1>0, <1>14, <2>1, <2>2
       DEF IInv, TypeOK, CallsFit, CallsProgress, WithdrawnOnce, HiddenIsLabelled, InFlight,
           Idle, PayStarts, At, Returned, Stands
  <2>8. LabelIsRight'
    BY <1>0, <1>14, <2>1, <2>2
       DEF IInv, TypeOK, CallsFit, CallsProgress, WithdrawnOnce, LabelIsRight, Idle,
           PayStarts, At, Returned, Stands
  <2> QED
    BY <2>3, <2>4, <2>5, <2>6, <2>7, <2>8 DEF IInv
<1>15. ASSUME NEW t \in Threads, CollectHides(t)
      PROVE  IInv'
  <2>1. call[t].at # "idle" /\ call[t].hash \in Hashes /\ call[t].offer \in Offers \cup {None}
    BY <1>0, <1>15, CallTypes DEF CollectHides, At
  <2>2. Moved(t, "collect_info")
    BY <1>0, <1>15, <2>1, GotoEffect DEF CollectHides, Steps
  <2>3. TypeOK'
    BY <1>0, <1>15, <2>1, <2>2
       DEF TypeOK, SdkStates, CollectHides, At, Moved, Stands, IInv, CallsFit
  <2>4. CallsFit' /\ CallsApart' /\ WithdrawnOnce'
    BY <1>0, <1>15, <2>1, <2>2
       DEF CallsApart, IInv, TypeOK, CallsFit, WithdrawnOnce, LabelIsRight, Idle, Calls,
           CollectHides, At, Moved, Stands
  <2>5. CallsProgress'
    BY <1>0, <1>15, <2>1, <2>2
       DEF IInv, TypeOK, CallsApart, CallsFit, CallsProgress, WithdrawnOnce, Idle, Calls,
           CollectHides, At, Moved, Stands
  <2>6. InvoiceHasInfo'
    BY <1>0, <1>15, <2>1, <2>2
       DEF IInv, TypeOK, CallsFit, CallsProgress, InvoiceHasInfo, Idle, CollectHides, At,
           Moved, Stands
  <2>7. HiddenIsLabelled'
    BY <1>0, <1>15, <2>1, <2>2
       DEF IInv, TypeOK, CallsFit, CallsProgress, WithdrawnOnce, HiddenIsLabelled, InFlight,
           Idle, CollectHides, At, Moved, Stands
  <2>8. LabelIsRight'
    BY <1>0, <1>15, <2>1, <2>2
       DEF IInv, TypeOK, CallsFit, CallsProgress, WithdrawnOnce, LabelIsRight, Idle,
           CollectHides, At, Moved, Stands
  <2> QED
    BY <2>3, <2>4, <2>5, <2>6, <2>7, <2>8 DEF IInv
<1>16. ASSUME NEW t \in Threads, CollectHideFails(t)
      PROVE  IInv'
  <2>1. call[t].at # "idle" /\ call[t].hash \in Hashes /\ call[t].offer \in Offers \cup {None}
    BY <1>0, <1>16, CallTypes DEF CollectHideFails, At
  <2>2. Returned(t)
    BY <1>0, <1>16, ReturnEffect DEF CollectHideFails
  <2>3. TypeOK'
    BY <1>0, <1>16, <2>1, <2>2
       DEF TypeOK, SdkStates, CollectHideFails, At, Returned, Stands, IInv, CallsFit
  <2>4. CallsFit' /\ CallsApart' /\ WithdrawnOnce'
    BY <1>0, <1>16, <2>1, <2>2
       DEF CallsApart, IInv, TypeOK, CallsFit, WithdrawnOnce, LabelIsRight, Idle, Calls,
           CollectHideFails, At, Returned, Stands
  <2>5. CallsProgress'
    BY <1>0, <1>16, <2>1, <2>2
       DEF IInv, TypeOK, CallsApart, CallsFit, CallsProgress, WithdrawnOnce, Idle, Calls,
           CollectHideFails, At, Returned, Stands
  <2>6. InvoiceHasInfo'
    BY <1>0, <1>16, <2>1, <2>2
       DEF IInv, TypeOK, CallsFit, CallsProgress, InvoiceHasInfo, Idle, CollectHideFails,
           At, Returned, Stands
  <2>7. HiddenIsLabelled'
    <3> SUFFICES ASSUME NEW o \in hidden', ~InFlight(o)' PROVE offers'[withdrawn'[o]] = o \/ withdrawn'[o] \in failed' \cup cut'
      BY DEF HiddenIsLabelled
    <3>1. CASE call[t].offer = o
      BY <1>0, <1>16, <2>1, <2>2, <3>1
         DEF IInv, TypeOK, CallsFit, CallsProgress, Calls, Steps, CollectHideFails, At,
             Returned, Stands
    <3>2. CASE call[t].offer # o
      <4>1. ~InFlight(o)
        BY <1>0, <1>16, <2>1, <2>2, <3>2
           DEF InFlight, CollectHideFails, At, Returned, Stands
      <4> QED
        BY <1>0, <1>16, <2>1, <2>2, <3>2, <4>1
           DEF IInv, TypeOK, CallsFit, WithdrawnOnce, HiddenIsLabelled, CollectHideFails,
               At, Returned, Stands
    <3> QED
      BY <3>1, <3>2
  <2>8. LabelIsRight'
    BY <1>0, <1>16, <2>1, <2>2
       DEF IInv, TypeOK, CallsFit, CallsProgress, WithdrawnOnce, LabelIsRight, Idle,
           CollectHideFails, At, Returned, Stands
  <2> QED
    BY <2>3, <2>4, <2>5, <2>6, <2>7, <2>8 DEF IInv
<1>17. ASSUME NEW t \in Threads, CollectStoresInfo(t)
      PROVE  IInv'
  <2>1. call[t].at # "idle" /\ call[t].hash \in Hashes /\ call[t].offer \in Offers \cup {None}
    BY <1>0, <1>17, CallTypes DEF CollectStoresInfo, At
  <2>2. Moved(t, "collect_fee")
    BY <1>0, <1>17, <2>1, GotoEffect DEF CollectStoresInfo, Steps
  <2>3. StoreTyped /\ Stored(call[t].hash, call[t].offer)
    BY <1>0, <1>17, <2>1, StoreTypes, StoreEffect DEF CollectStoresInfo
  <2>4. TypeOK'
    BY <1>0, <1>17, <2>1, <2>2, <2>3
       DEF TypeOK, SdkStates, CollectStoresInfo, At, Moved, Stands, StoreTyped
  <2>5. CallsFit' /\ CallsApart' /\ WithdrawnOnce'
    BY <1>0, <1>17, <2>1, <2>2, <2>3
       DEF CallsApart, IInv, TypeOK, CallsFit, WithdrawnOnce, LabelIsRight, Idle, Calls,
           CollectStoresInfo, At, Moved, Stands, Stored
  <2>6. CallsProgress'
    BY <1>0, <1>17, <2>1, <2>2, <2>3
       DEF IInv, TypeOK, CallsApart, CallsFit, CallsProgress, WithdrawnOnce, Idle, Calls,
           CollectStoresInfo, At, Moved, Stands, Stored
  <2>7. InvoiceHasInfo'
    BY <1>0, <1>17, <2>1, <2>2, <2>3
       DEF IInv, TypeOK, CallsFit, CallsProgress, InvoiceHasInfo, Idle, CollectStoresInfo,
           At, Moved, Stands, Stored
  <2>8. HiddenIsLabelled'
    BY <1>0, <1>17, <2>1, <2>2, <2>3
       DEF IInv, TypeOK, CallsFit, CallsProgress, WithdrawnOnce, HiddenIsLabelled, InFlight,
           Idle, CollectStoresInfo, At, Moved, Stands, Stored
  <2>9. LabelIsRight'
    BY <1>0, <1>17, <2>1, <2>2, <2>3
       DEF IInv, TypeOK, CallsFit, CallsProgress, WithdrawnOnce, LabelIsRight, Idle,
           CollectStoresInfo, At, Moved, Stands, Stored
  <2> QED
    BY <2>4, <2>5, <2>6, <2>7, <2>8, <2>9 DEF IInv
<1>18. ASSUME NEW t \in Threads, CollectLooksUpFee(t)
      PROVE  IInv'
  <2>1. CASE Goto(t, "collect_invoice")
    <3>1. call[t].at # "idle" /\ call[t].hash \in Hashes /\ call[t].offer \in Offers \cup {None}
      BY <1>0, <1>18, CallTypes DEF CollectLooksUpFee, At
    <3>2. Moved(t, "collect_invoice")
      BY <1>0, <1>18, <3>1, <2>1, GotoEffect DEF CollectLooksUpFee, Steps
    <3>3. TypeOK'
      BY <1>0, <1>18, <2>1, <3>1, <3>2
         DEF TypeOK, SdkStates, CollectLooksUpFee, At, Moved, Stands
    <3>4. CallsFit' /\ CallsApart' /\ WithdrawnOnce'
      BY <1>0, <1>18, <2>1, <3>1, <3>2
         DEF CallsApart, IInv, TypeOK, CallsFit, WithdrawnOnce, LabelIsRight, Idle, Calls,
             CollectLooksUpFee, At, Moved, Stands
    <3>5. CallsProgress'
      BY <1>0, <1>18, <2>1, <3>1, <3>2
         DEF IInv, TypeOK, CallsApart, CallsFit, CallsProgress, WithdrawnOnce, Idle, Calls,
             CollectLooksUpFee, At, Moved, Stands
    <3>6. InvoiceHasInfo'
      BY <1>0, <1>18, <2>1, <3>1, <3>2
         DEF IInv, TypeOK, CallsFit, CallsProgress, InvoiceHasInfo, Idle, CollectLooksUpFee,
             At, Moved, Stands
    <3>7. HiddenIsLabelled'
      BY <1>0, <1>18, <2>1, <3>1, <3>2
         DEF IInv, TypeOK, CallsFit, CallsProgress, WithdrawnOnce, HiddenIsLabelled,
             InFlight, Idle, CollectLooksUpFee, At, Moved, Stands
    <3>8. LabelIsRight'
      BY <1>0, <1>18, <2>1, <3>1, <3>2
         DEF IInv, TypeOK, CallsFit, CallsProgress, WithdrawnOnce, LabelIsRight, Idle,
             CollectLooksUpFee, At, Moved, Stands
    <3> QED
      BY <3>3, <3>4, <3>5, <3>6, <3>7, <3>8 DEF IInv
  <2>2. CASE Return(t)
    <3>1. call[t].at # "idle" /\ call[t].hash \in Hashes /\ call[t].offer \in Offers \cup {None}
      BY <1>0, <1>18, CallTypes DEF CollectLooksUpFee, At
    <3>2. Returned(t)
      BY <1>0, <1>18, <2>2, ReturnEffect DEF CollectLooksUpFee
    <3>3. TypeOK'
      BY <1>0, <1>18, <2>2, <3>1, <3>2
         DEF TypeOK, SdkStates, CollectLooksUpFee, At, Returned, Stands
    <3>4. CallsFit' /\ CallsApart' /\ WithdrawnOnce'
      BY <1>0, <1>18, <2>2, <3>1, <3>2
         DEF CallsApart, IInv, TypeOK, CallsFit, WithdrawnOnce, LabelIsRight, Idle, Calls,
             CollectLooksUpFee, At, Returned, Stands
    <3>5. CallsProgress'
      BY <1>0, <1>18, <2>2, <3>1, <3>2
         DEF IInv, TypeOK, CallsApart, CallsFit, CallsProgress, WithdrawnOnce, Idle, Calls,
             CollectLooksUpFee, At, Returned, Stands
    <3>6. InvoiceHasInfo'
      BY <1>0, <1>18, <2>2, <3>1, <3>2
         DEF IInv, TypeOK, CallsFit, CallsProgress, InvoiceHasInfo, Idle, CollectLooksUpFee,
             At, Returned, Stands
    <3>7. HiddenIsLabelled'
      BY <1>0, <1>18, <2>2, <3>1, <3>2
         DEF IInv, TypeOK, CallsFit, CallsProgress, WithdrawnOnce, HiddenIsLabelled,
             InFlight, Idle, CollectLooksUpFee, At, Returned, Stands
    <3>8. LabelIsRight'
      BY <1>0, <1>18, <2>2, <3>1, <3>2
         DEF IInv, TypeOK, CallsFit, CallsProgress, WithdrawnOnce, LabelIsRight, Idle,
             CollectLooksUpFee, At, Returned, Stands
    <3> QED
      BY <3>3, <3>4, <3>5, <3>6, <3>7, <3>8 DEF IInv
  <2> QED
    BY <1>18, <2>1, <2>2 DEF CollectLooksUpFee
<1>19. ASSUME NEW t \in Threads, CollectStoresInvoice(t)
      PROVE  IInv'
  <2>1. CASE Goto(t, "collect_again") /\ created_invoices' = created_invoices \cup {call[t].hash}
    <3>1. call[t].at # "idle" /\ call[t].hash \in Hashes /\ call[t].offer \in Offers \cup {None}
      BY <1>0, <1>19, CallTypes DEF CollectStoresInvoice, At
    <3>2. Moved(t, "collect_again")
      BY <1>0, <1>19, <3>1, <2>1, GotoEffect DEF CollectStoresInvoice, Steps
    <3>3. TypeOK'
      BY <1>0, <1>19, <2>1, <3>1, <3>2
         DEF TypeOK, SdkStates, CollectStoresInvoice, At, Moved, Stands
    <3>4. CallsFit' /\ CallsApart' /\ WithdrawnOnce'
      BY <1>0, <1>19, <2>1, <3>1, <3>2
         DEF CallsApart, IInv, TypeOK, CallsFit, WithdrawnOnce, LabelIsRight, Idle, Calls,
             CollectStoresInvoice, At, Moved, Stands
    <3>5. CallsProgress'
      BY <1>0, <1>19, <2>1, <3>1, <3>2
         DEF IInv, TypeOK, CallsApart, CallsFit, CallsProgress, WithdrawnOnce, Idle, Calls,
             CollectStoresInvoice, At, Moved, Stands
    <3>6. InvoiceHasInfo'
      BY <1>0, <1>19, <2>1, <3>1, <3>2
         DEF IInv, TypeOK, CallsFit, CallsProgress, InvoiceHasInfo, Idle,
             CollectStoresInvoice, At, Moved, Stands
    <3>7. HiddenIsLabelled'
      BY <1>0, <1>19, <2>1, <3>1, <3>2
         DEF IInv, TypeOK, CallsFit, CallsProgress, WithdrawnOnce, HiddenIsLabelled,
             InFlight, Idle, CollectStoresInvoice, At, Moved, Stands
    <3>8. LabelIsRight'
      BY <1>0, <1>19, <2>1, <3>1, <3>2
         DEF IInv, TypeOK, CallsFit, CallsProgress, WithdrawnOnce, LabelIsRight, Idle,
             CollectStoresInvoice, At, Moved, Stands
    <3> QED
      BY <3>3, <3>4, <3>5, <3>6, <3>7, <3>8 DEF IInv
  <2>2. CASE Return(t) /\ UNCHANGED created_invoices
    <3>1. call[t].at # "idle" /\ call[t].hash \in Hashes /\ call[t].offer \in Offers \cup {None}
      BY <1>0, <1>19, CallTypes DEF CollectStoresInvoice, At
    <3>2. Returned(t)
      BY <1>0, <1>19, <2>2, ReturnEffect DEF CollectStoresInvoice
    <3>3. TypeOK'
      BY <1>0, <1>19, <2>2, <3>1, <3>2
         DEF TypeOK, SdkStates, CollectStoresInvoice, At, Returned, Stands
    <3>4. CallsFit' /\ CallsApart' /\ WithdrawnOnce'
      BY <1>0, <1>19, <2>2, <3>1, <3>2
         DEF CallsApart, IInv, TypeOK, CallsFit, WithdrawnOnce, LabelIsRight, Idle, Calls,
             CollectStoresInvoice, At, Returned, Stands
    <3>5. CallsProgress'
      BY <1>0, <1>19, <2>2, <3>1, <3>2
         DEF IInv, TypeOK, CallsApart, CallsFit, CallsProgress, WithdrawnOnce, Idle, Calls,
             CollectStoresInvoice, At, Returned, Stands
    <3>6. InvoiceHasInfo'
      BY <1>0, <1>19, <2>2, <3>1, <3>2
         DEF IInv, TypeOK, CallsFit, CallsProgress, InvoiceHasInfo, Idle,
             CollectStoresInvoice, At, Returned, Stands
    <3>7. HiddenIsLabelled'
      BY <1>0, <1>19, <2>2, <3>1, <3>2
         DEF IInv, TypeOK, CallsFit, CallsProgress, WithdrawnOnce, HiddenIsLabelled,
             InFlight, Idle, CollectStoresInvoice, At, Returned, Stands
    <3>8. LabelIsRight'
      BY <1>0, <1>19, <2>2, <3>1, <3>2
         DEF IInv, TypeOK, CallsFit, CallsProgress, WithdrawnOnce, LabelIsRight, Idle,
             CollectStoresInvoice, At, Returned, Stands
    <3> QED
      BY <3>3, <3>4, <3>5, <3>6, <3>7, <3>8 DEF IInv
  <2> QED
    BY <1>19, <2>1, <2>2 DEF CollectStoresInvoice
<1>20. ASSUME NEW t \in Threads, CollectStoresInfoAgain(t)
      PROVE  IInv'
  <2>1. call[t].at # "idle" /\ call[t].hash \in Hashes /\ call[t].offer \in Offers \cup {None}
    BY <1>0, <1>20, CallTypes DEF CollectStoresInfoAgain, At
  <2>2. Returned(t)
    BY <1>0, <1>20, ReturnEffect DEF CollectStoresInfoAgain
  <2>3. StoreTyped /\ Stored(call[t].hash, call[t].offer)
    BY <1>0, <1>20, <2>1, StoreTypes, StoreEffect DEF CollectStoresInfoAgain
  <2>4. TypeOK'
    BY <1>0, <1>20, <2>1, <2>2, <2>3
       DEF TypeOK, SdkStates, CollectStoresInfoAgain, At, Returned, Stands, StoreTyped
  <2>5. CallsFit' /\ CallsApart' /\ WithdrawnOnce'
    BY <1>0, <1>20, <2>1, <2>2, <2>3
       DEF CallsApart, IInv, TypeOK, CallsFit, WithdrawnOnce, LabelIsRight, Idle, Calls,
           CollectStoresInfoAgain, At, Returned, Stands, Stored
  <2>6. CallsProgress'
    BY <1>0, <1>20, <2>1, <2>2, <2>3
       DEF IInv, TypeOK, CallsApart, CallsFit, CallsProgress, WithdrawnOnce, Idle, Calls,
           CollectStoresInfoAgain, At, Returned, Stands, Stored
  <2>7. InvoiceHasInfo'
    BY <1>0, <1>20, <2>1, <2>2, <2>3
       DEF IInv, TypeOK, CallsFit, CallsProgress, InvoiceHasInfo, Idle,
           CollectStoresInfoAgain, At, Returned, Stands, Stored
  <2>8. HiddenIsLabelled'
    BY <1>0, <1>20, <2>1, <2>2, <2>3
       DEF IInv, TypeOK, CallsFit, CallsProgress, WithdrawnOnce, HiddenIsLabelled, InFlight,
           Idle, CollectStoresInfoAgain, At, Returned, Stands, Stored
  <2>9. LabelIsRight'
    BY <1>0, <1>20, <2>1, <2>2, <2>3
       DEF IInv, TypeOK, CallsFit, CallsProgress, WithdrawnOnce, LabelIsRight, Idle,
           CollectStoresInfoAgain, At, Returned, Stands, Stored
  <2> QED
    BY <2>4, <2>5, <2>6, <2>7, <2>8, <2>9 DEF IInv
<1>21. ASSUME NEW t \in Threads, Killed(t)
      PROVE  IInv'
  <2>1. call[t].at # "idle" /\ call[t].hash \in Hashes /\ call[t].offer \in Offers \cup {None}
    BY <1>0, <1>21, CallTypes DEF Killed, At, TypeOK, Calls, Steps
  <2>2. Returned(t)
    BY <1>0, <1>21, ReturnEffect DEF Killed
  <2>3. TypeOK'
    BY <1>0, <1>21, <2>1, <2>2 DEF TypeOK, SdkStates, Killed, Returned, Stands
  <2>4. CallsFit' /\ CallsApart' /\ WithdrawnOnce'
    BY <1>0, <1>21, <2>1, <2>2
       DEF CallsApart, IInv, TypeOK, CallsFit, WithdrawnOnce, LabelIsRight, Idle, Calls,
           Killed, Returned, Stands
  <2>5. CallsProgress'
    BY <1>0, <1>21, <2>1, <2>2
       DEF IInv, TypeOK, CallsApart, CallsFit, CallsProgress, WithdrawnOnce, Idle, Calls,
           Killed, Returned, Stands
  <2>6. InvoiceHasInfo'
    BY <1>0, <1>21, <2>1, <2>2
       DEF IInv, TypeOK, CallsFit, CallsProgress, InvoiceHasInfo, Idle, Killed, Returned,
           Stands
  <2>7. HiddenIsLabelled'
    <3> SUFFICES ASSUME NEW o \in hidden', ~InFlight(o)' PROVE offers'[withdrawn'[o]] = o \/ withdrawn'[o] \in failed' \cup cut'
      BY DEF HiddenIsLabelled
    <3>1. CASE call[t].offer = o
      BY <1>0, <1>21, <2>1, <2>2, <3>1
         DEF IInv, TypeOK, CallsFit, CallsProgress, Calls, Steps, Killed, Returned, Stands
    <3>2. CASE call[t].offer # o
      <4>1. ~InFlight(o)
        BY <1>0, <1>21, <2>1, <2>2, <3>2 DEF InFlight, Killed, Returned, Stands
      <4> QED
        BY <1>0, <1>21, <2>1, <2>2, <3>2, <4>1
           DEF IInv, TypeOK, CallsFit, WithdrawnOnce, HiddenIsLabelled, Killed, Returned,
               Stands
    <3> QED
      BY <3>1, <3>2
  <2>8. LabelIsRight'
    BY <1>0, <1>21, <2>1, <2>2
       DEF IInv, TypeOK, CallsFit, CallsProgress, WithdrawnOnce, LabelIsRight, Idle, Killed,
           Returned, Stands
  <2> QED
    BY <2>3, <2>4, <2>5, <2>6, <2>7, <2>8 DEF IInv
<1>22. CASE UNCHANGED vars
  BY <1>22
     DEF vars, IInv, TypeOK, CallsFit, CallsApart, CallsProgress, WithdrawnOnce,
         InvoiceHasInfo,
     HiddenIsLabelled, InFlight, LabelIsRight
<1> QED
  BY <1>1, <1>2, <1>3, <1>4, <1>5, <1>6, <1>7, <1>8, <1>9, <1>10, <1>11,
     <1>12, <1>13, <1>14, <1>15, <1>16, <1>17, <1>18, <1>19, <1>20, <1>21, <1>22 DEF Next, Continue

LEMMA IInvHolds == Spec => []IInv
BY IInvInit, IInvStep, PTL DEF Spec

-----------------------------------------------------------------------------
(* What follows. *)

\* Every variable keeps its type, whatever operations interleave.
THEOREM TypeCorrect == Spec => []TypeOK
<1>1. IInv => TypeOK
  BY DEF IInv
<1> QED
  BY <1>1, IInvHolds, PTL

\* No invoice without the row that Activities needs, unless its write failed.
THEOREM InvoicesAreShown == Spec => []InvoiceHasInfo
<1>1. IInv => InvoiceHasInfo
  BY DEF IInv
<1> QED
  BY <1>1, IInvHolds, PTL

\* An offer that was hidden from the user is attached to the payment claiming it.
THEOREM NoClaimLost == Spec => []HiddenIsLabelled
<1>1. IInv => HiddenIsLabelled
  BY DEF IInv
<1> QED
  BY <1>1, IInvHolds, PTL

\* Only claims of offers are shown as such, each with its own offer.
THEOREM NoFalseClaim == Spec => []LabelIsRight
<1>1. IInv => LabelIsRight
  BY DEF IInv
<1> QED
  BY <1>1, IInvHolds, PTL

\* A write of the payment info changes a label only to the offer of the running
\* collection, and LabelIsRight says that no other offer can be there.
LEMMA StoreKeepsLabels ==
  ASSUME IInv, NEW h \in Hashes, NEW o \in Offers \cup {None}, TryStoreInfo(h, o),
         o # None => withdrawn[o] = h
  PROVE  \A g \in Hashes : offers[g] # None => offers'[g] = offers[g]
<1>1. TypeOK /\ LabelIsRight /\ WithdrawnOnce
  BY DEF IInv
<1>2. Stored(h, o)
  BY <1>1, StoreEffect
<1>3. o # None /\ offers[h] # None => offers[h] = o
  <2> SUFFICES ASSUME o # None, offers[h] # None PROVE offers[h] = o
    OBVIOUS
  <2>1. offers[h] \in Offers /\ o \in Offers /\ withdrawn[offers[h]] = h /\ withdrawn[o] = h
    BY <1>1 DEF TypeOK, LabelIsRight
  <2>2. h # None
    BY <1>1, <2>1, PaymentDataAssumption DEF TypeOK, LabelIsRight, WithdrawnOnce
  <2> QED
    BY <1>1, <2>1, <2>2 DEF WithdrawnOnce
<1> QED
  BY <1>1, <1>2, <1>3 DEF TypeOK, Stored

\* No retry, note or second write takes a label away.
THEOREM LabelsStay == Spec => LabelStays
<1> DEFINE Kept == \A h \in Hashes : offers[h] # None => offers'[h] = offers[h]
<1>1. IInv /\ [Next]_vars => Kept
  <2> SUFFICES ASSUME IInv, [Next]_vars PROVE Kept
    OBVIOUS
  <2>1. TypeOK /\ CallsFit
    BY DEF IInv
  <2>2. ASSUME NEW t \in Threads, NEW h \in Hashes, Pay(t, h) PROVE Kept
    BY <2>2, StoreKeepsLabels DEF Pay
  <2>3. ASSUME NEW t \in Threads, CreateStoresInfo(t) \/ LnurlStoresInfo(t) PROVE Kept
    <3>1. call[t].at # "idle" /\ TryStoreInfo(call[t].hash, None)
      BY <2>3 DEF CreateStoresInfo, LnurlStoresInfo, At
    <3> QED
      BY <2>1, <3>1, CallTypes, StoreKeepsLabels
  <2>4. ASSUME NEW t \in Threads, CollectStoresInfo(t) \/ CollectStoresInfoAgain(t) PROVE Kept
    <3>1. call[t].at \in CollectSteps /\ call[t].at # "idle"
          /\ TryStoreInfo(call[t].hash, call[t].offer)
      BY <2>4 DEF CollectStoresInfo, CollectStoresInfoAgain, At, CollectSteps
    <3> QED
      BY <2>1, <3>1, CallTypes, StoreKeepsLabels DEF CallsFit
  <2>5. CASE UNCHANGED offers
    BY <2>5
  <2> QED
    BY <2>2, <2>3, <2>4, <2>5
       DEF Next, Continue, vars, Create, IssueForService, CreateStoresInvoice, PayRefused,
           PayStarts, LnurlPay, LnurlPayFails, Collect, CollectTimesOut, CollectHides,
           CollectHideFails, CollectLooksUpFee, CollectStoresInvoice, SetPersonalNote,
           Settles, Killed
<1>2. (IInv /\ [Next]_vars => Kept) => (IInv /\ [Next]_vars => [Kept]_vars)
  OBVIOUS
<1> QED
  BY <1>1, <1>2, IInvHolds, PTL DEF Spec, LabelStays

-----------------------------------------------------------------------------
(* Migrations: values and lists of statements                                *)

\* A nonempty set of natural numbers has a least member.
LEMMA Least ==
  ASSUME NEW T, T \subseteq Nat, T # {}
  PROVE  \E x \in T : \A y \in T : x <= y
<1> DEFINE R == OpToRel(<, Nat)
<1>1. IsWellFoundedOn(R, Nat)
  BY NatLessThanWellFounded
<1>2. PICK x \in T : \A y \in T : ~(<<y, x>> \in R)
  <2> HIDE DEF R
  <2> QED BY <1>1, WFMin
<1>3. \A y \in Nat : \A z \in Nat : y < z => <<y, z>> \in R
  BY DEF OpToRel
<1> HIDE DEF R
<1>4. ASSUME NEW y \in T
      PROVE  x <= y
  <2>1. x \in Nat /\ y \in Nat
    OBVIOUS
  <2>2. ~(y < x)
    BY <1>2, <1>3, <2>1
  <2> QED
    BY <2>1, <2>2
<1> QED
  BY <1>4

\* Values are never NULL: tuples of strings.
LEMMA NotNull ==
  /\ \A a, b : <<a, b>> # Null
  /\ \A a : <<a>> # Null
  /\ \A a, b, c : <<a, b, c>> # Null
BY DEF Null

\* Nor are the records of what the wallet was told.
LEMMA RecordNotNull ==
  \A a, b, c, d, e, f : [user_preferences |-> a, exchange_rate |-> b, offer |-> c, personal_note |-> d,
     received_on |-> e, received_lnurl_comment |-> f] # Null
BY DEF Null

\* The members of a tuple of three.
LEMMA TripleRange ==
  \A a, b, c : Range(<<a, b, c>>) = {a, b, c}
BY DEF Range

\* A function over another one.
LEMMA Extended ==
  ASSUME NEW f, NEW g
  PROVE  /\ DOMAIN (Over(f, g)) = DOMAIN f \cup DOMAIN g
         /\ \A x \in DOMAIN f : (Over(f, g))[x] = f[x]
         /\ \A x \in DOMAIN g \ DOMAIN f : (Over(f, g))[x] = g[x]
BY DEF Over

\* The values a column may default to are distinct.
LEMMA Marks == Null # Required /\ Now # Required /\ Zero # Required /\ Null # Now /\ Zero # Null
               /\ One # Null /\ One # Required /\ One # Zero
BY DEF Null, Required, Now, Zero, One

\* The error of an offer is read back from its code.
LEMMA ErrorBack ==
  ASSUME NEW e \in DOMAIN FromOfferError
  PROVE  ToOfferError(FromOfferError[e]) = e
<1>1. CASE e = "none"
  BY <1>1 DEF FromOfferError, ToOfferError, Null
<1>2. CASE e = "Unknown"
  BY <1>2 DEF FromOfferError, ToOfferError, Null
<1>3. CASE e = "NoRoute"
  BY <1>3 DEF FromOfferError, ToOfferError, Null
<1>4. CASE e = "InvoiceExpired"
  BY <1>4 DEF FromOfferError, ToOfferError, Null
<1>5. CASE e = "Unexpected"
  BY <1>5 DEF FromOfferError, ToOfferError, Null
<1>6. CASE e = "ThresholdExceeded"
  BY <1>6 DEF FromOfferError, ToOfferError, Null
<1>7. CASE e = "OrderInactive"
  BY <1>7 DEF FromOfferError, ToOfferError, Null
<1>8. CASE e = "CompaniesUnsupported"
  BY <1>8 DEF FromOfferError, ToOfferError, Null
<1>9. CASE e = "CountryUnsupported"
  BY <1>9 DEF FromOfferError, ToOfferError, Null
<1>10. CASE e = "OtherRiskDetected"
  BY <1>10 DEF FromOfferError, ToOfferError, Null
<1>11. CASE e = "CustomerRequested"
  BY <1>11 DEF FromOfferError, ToOfferError, Null
<1>12. CASE e = "AccountNotMatching"
  BY <1>12 DEF FromOfferError, ToOfferError, Null
<1>13. CASE e = "PayoutExpired"
  BY <1>13 DEF FromOfferError, ToOfferError, Null
<1> QED
  BY <1>1, <1>2, <1>3, <1>4, <1>5, <1>6, <1>7, <1>8, <1>9, <1>10, <1>11, <1>12, <1>13 DEF FromOfferError

\* The list of migrations that the proofs step through.
LEMMA TheMigrations ==
   /\ Latest = 19
   /\ migrations[1] = Init01 /\ migrations[7] = ResetFundsMigration07
   /\ migrations[19] = PaymentOptionalFields19
BY DEF Latest, migrations

\* A transaction that has not failed.
After(T) == [ok |-> TRUE, tables |-> T]

Failed(T) == [ok |-> FALSE, tables |-> T]

\* A statement after ones that succeeded, and after one that failed.
LEMMA Executes ==
  ASSUME NEW T, NEW s
  PROVE  /\ Can(T, s) => Execute(After(T), s) = After(Result(T, s))
         /\ ~Can(T, s) => Execute(After(T), s) = Failed(T)
         /\ Execute(Failed(T), s) = Failed(T)
BY DEF Execute, After, Failed

RunStep(f, x, s, n) == IF n = 0 THEN x ELSE Execute(f[n - 1], s[n])

\* Running statements is executing them one after the other.
LEMMA Runs ==
  ASSUME NEW x, NEW s, Len(s) \in Nat
  PROVE  \E f : /\ f[0] = x
                /\ \A n \in 1..Len(s) : f[n] = Execute(f[n - 1], s[n])
                /\ Run(x, s) = f[Len(s)]
<1> DEFINE N == Len(s)
           All(f, n) == f = [m \in 0..n |-> RunStep(f, x, s, m)]
           Bad == {n \in Nat : ~\E f : All(f, n)}
<1>1. Bad = {}
  <2> SUFFICES ASSUME Bad # {} PROVE FALSE
    OBVIOUS
  <2>1. PICK n \in Bad : \A m \in Bad : n <= m
    <3>1. Bad \subseteq Nat
      OBVIOUS
    <3> HIDE DEF Bad
    <3> QED BY <3>1, Least
  <2>2. n \in Nat /\ ~\E f : All(f, n)
    OBVIOUS
  <2>3. n # 0
    <3>1. All([m \in 0..0 |-> x], 0)
      BY DEF RunStep
    <3> QED
      BY <2>2, <3>1
  <2>4. n - 1 \in Nat /\ ~(n <= n - 1)
    BY <2>2, <2>3
  <2>5. n - 1 \notin Bad
    <3> HIDE DEF Bad
    <3> QED BY <2>1, <2>4
  <2>6. PICK f : All(f, n - 1)
    BY <2>4, <2>5
  <2> DEFINE g == [m \in 0..n |-> RunStep(f, x, s, m)]
  <2>7. \A m \in 0..(n - 1) : g[m] = f[m]
    BY <2>4, <2>6
  <2>8. \A m \in 0..n : RunStep(g, x, s, m) = RunStep(f, x, s, m)
    <3> TAKE m \in 0..n
    <3>1. CASE m = 0
      BY <3>1 DEF RunStep
    <3>2. CASE m # 0
      <4>1. m - 1 \in 0..(n - 1)
        BY <2>4, <3>2
      <4>2. g[m - 1] = f[m - 1]
        BY <2>7, <4>1
      <4> HIDE DEF g
      <4> QED BY <3>2, <4>2 DEF RunStep
    <3> QED
      BY <3>1, <3>2
  <2>9. All(g, n)
    BY <2>8
  <2> QED
    BY <2>2, <2>9
<1> DEFINE after == CHOOSE f : All(f, N)
<1>2. All(after, N)
  <2>1. \E f : All(f, N)
    BY <1>1
  <2> QED BY <2>1
<1>3. Run(x, s) = after[N]
  BY DEF Run, RunStep
<1>4. \A m \in 0..N : after[m] = RunStep(after, x, s, m)
  <2>1. after = [m \in 0..N |-> RunStep(after, x, s, m)]
    BY <1>2
  <2> HIDE DEF after
  <2> QED BY <2>1
<1> HIDE DEF after
<1>5. after[0] = x /\ \A n \in 1..N : after[n] = Execute(after[n - 1], s[n])
  BY <1>4 DEF RunStep
<1> QED
  BY <1>3, <1>5

\* The lists of statements that the migrations and the writes are.
LEMMA RunOne ==
  ASSUME NEW x, NEW a
  PROVE  Run(x, <<a>>) = Execute(x, a)
<1> DEFINE s == <<a>>
<1>1. Len(s) = 1 /\ s[1] = a
  OBVIOUS
<1> HIDE DEF s
<1>2. PICK f : f[0] = x /\ (\A n \in 1..1 : f[n] = Execute(f[n - 1], s[n])) /\ Run(x, s) = f[1]
  BY <1>1, Runs
<1>3. f[1] = Execute(f[0], s[1])
  BY <1>2
<1>4. Run(x, s) = Execute(x, a)
  BY <1>1, <1>2, <1>3
<1> QED
  BY <1>4 DEF s

LEMMA RunTwo ==
  ASSUME NEW x, NEW a, NEW b
  PROVE  Run(x, <<a, b>>) = Execute(Execute(x, a), b)
<1> DEFINE s == <<a, b>>
<1>1. Len(s) = 2 /\ s[1] = a /\ s[2] = b
  OBVIOUS
<1> HIDE DEF s
<1>2. PICK f : /\ f[0] = x
               /\ \A n \in 1..Len(s) : f[n] = Execute(f[n - 1], s[n])
               /\ Run(x, s) = f[Len(s)]
  <2>1. Len(s) \in Nat
    BY <1>1
  <2> QED BY <2>1, Runs
<1>3. f[1] = Execute(f[0], s[1]) /\ f[2] = Execute(f[1], s[2])
  <2>1. f[1] = Execute(f[0], s[1])
    <3>1. 1 \in 1..Len(s) /\ 1 - 1 = 0
      BY <1>1
    <3> QED BY <1>2, <3>1
  <2>2. f[2] = Execute(f[1], s[2])
    <3>1. 2 \in 1..Len(s) /\ 2 - 1 = 1
      BY <1>1
    <3> QED BY <1>2, <3>1
  <2> QED
    BY <2>1, <2>2
<1>4. Run(x, s) = Execute(Execute(x, a), b)
  BY <1>1, <1>2, <1>3
<1> QED
  BY <1>4 DEF s

LEMMA RunThree ==
  ASSUME NEW x, NEW a, NEW b, NEW c
  PROVE  Run(x, <<a, b, c>>) = Execute(Execute(Execute(x, a), b), c)
<1> DEFINE s == <<a, b, c>>
<1>1. Len(s) = 3 /\ s[1] = a /\ s[2] = b /\ s[3] = c
  OBVIOUS
<1> HIDE DEF s
<1>2. PICK f : /\ f[0] = x
               /\ \A n \in 1..Len(s) : f[n] = Execute(f[n - 1], s[n])
               /\ Run(x, s) = f[Len(s)]
  <2>1. Len(s) \in Nat
    BY <1>1
  <2> QED BY <2>1, Runs
<1>3. f[1] = Execute(f[0], s[1]) /\ f[2] = Execute(f[1], s[2]) /\ f[3] = Execute(f[2], s[3])
  <2>1. f[1] = Execute(f[0], s[1])
    <3>1. 1 \in 1..Len(s) /\ 1 - 1 = 0
      BY <1>1
    <3> QED BY <1>2, <3>1
  <2>2. f[2] = Execute(f[1], s[2])
    <3>1. 2 \in 1..Len(s) /\ 2 - 1 = 1
      BY <1>1
    <3> QED BY <1>2, <3>1
  <2>3. f[3] = Execute(f[2], s[3])
    <3>1. 3 \in 1..Len(s) /\ 3 - 1 = 2
      BY <1>1
    <3> QED BY <1>2, <3>1
  <2> QED
    BY <2>1, <2>2, <2>3
<1>4. Run(x, s) = Execute(Execute(Execute(x, a), b), c)
  BY <1>1, <1>2, <1>3
<1> QED
  BY <1>4 DEF s

LEMMA RunFour ==
  ASSUME NEW x, NEW a, NEW b, NEW c, NEW d
  PROVE  Run(x, <<a, b, c, d>>) = Execute(Execute(Execute(Execute(x, a), b), c), d)
<1> DEFINE s == <<a, b, c, d>>
<1>1. Len(s) = 4 /\ s[1] = a /\ s[2] = b /\ s[3] = c /\ s[4] = d
  OBVIOUS
<1> HIDE DEF s
<1>2. PICK f : /\ f[0] = x
               /\ \A n \in 1..Len(s) : f[n] = Execute(f[n - 1], s[n])
               /\ Run(x, s) = f[Len(s)]
  <2>1. Len(s) \in Nat
    BY <1>1
  <2> QED BY <2>1, Runs
<1>3. f[1] = Execute(f[0], s[1]) /\ f[2] = Execute(f[1], s[2]) /\ f[3] = Execute(f[2], s[3]) /\ f[4] = Execute(f[3], s[4])
  <2>1. f[1] = Execute(f[0], s[1])
    <3>1. 1 \in 1..Len(s) /\ 1 - 1 = 0
      BY <1>1
    <3> QED BY <1>2, <3>1
  <2>2. f[2] = Execute(f[1], s[2])
    <3>1. 2 \in 1..Len(s) /\ 2 - 1 = 1
      BY <1>1
    <3> QED BY <1>2, <3>1
  <2>3. f[3] = Execute(f[2], s[3])
    <3>1. 3 \in 1..Len(s) /\ 3 - 1 = 2
      BY <1>1
    <3> QED BY <1>2, <3>1
  <2>4. f[4] = Execute(f[3], s[4])
    <3>1. 4 \in 1..Len(s) /\ 4 - 1 = 3
      BY <1>1
    <3> QED BY <1>2, <3>1
  <2> QED
    BY <2>1, <2>2, <2>3, <2>4
<1>4. Run(x, s) = Execute(Execute(Execute(Execute(x, a), b), c), d)
  BY <1>1, <1>2, <1>3
<1> QED
  BY <1>4 DEF s

\* A transaction that has failed once has failed.
LEMMA FailedStays ==
  ASSUME NEW T, NEW s, Len(s) \in Nat
  PROVE  Run(Failed(T), s) = Failed(T)
<1>1. PICK f : /\ f[0] = Failed(T)
               /\ \A n \in 1..Len(s) : f[n] = Execute(f[n - 1], s[n])
               /\ Run(Failed(T), s) = f[Len(s)]
  BY Runs
<1> DEFINE Bad == {n \in 0..Len(s) : f[n] # Failed(T)}
<1>2. Bad = {}
  <2> SUFFICES ASSUME Bad # {} PROVE FALSE
    OBVIOUS
  <2>1. PICK n \in Bad : \A m \in Bad : n <= m
    <3>1. Bad \subseteq Nat
      OBVIOUS
    <3> HIDE DEF Bad
    <3> QED BY <3>1, Least
  <2>2. n \in 0..Len(s) /\ f[n] # Failed(T)
    OBVIOUS
  <2>3. n \in 1..Len(s) /\ n - 1 \in 0..Len(s) /\ ~(n <= n - 1)
    BY <1>1, <2>2
  <2>4. n - 1 \notin Bad
    <3> HIDE DEF Bad
    <3> QED BY <2>1, <2>3
  <2>5. f[n - 1] = Failed(T)
    BY <2>3, <2>4
  <2>6. f[n] = Execute(Failed(T), s[n])
    BY <1>1, <2>3, <2>5
  <2> QED
    BY <2>2, <2>6, Executes
<1> QED
  BY <1>1, <1>2

MigrateStep(f, T, from, v) == IF v = from THEN After(T) ELSE Run(f[v - 1], migrations[v])

\* Migrating is running the migrations one after the other.
LEMMA Migrates ==
  ASSUME NEW T, NEW from \in Nat, NEW to \in Nat, from <= to
  PROVE  \E f : /\ f[from] = After(T)
                /\ \A v \in (from + 1)..to : f[v] = Run(f[v - 1], migrations[v])
                /\ Migrate(T, from, to) = f[to]
<1> DEFINE All(f, n) == f = [m \in from..n |-> MigrateStep(f, T, from, m)]
           Bad == {n \in Nat : from <= n /\ ~\E f : All(f, n)}
<1>1. Bad = {}
  <2> SUFFICES ASSUME Bad # {} PROVE FALSE
    OBVIOUS
  <2>1. PICK n \in Bad : \A m \in Bad : n <= m
    <3>1. Bad \subseteq Nat
      OBVIOUS
    <3> HIDE DEF Bad
    <3> QED BY <3>1, Least
  <2>2. n \in Nat /\ from <= n /\ ~\E f : All(f, n)
    OBVIOUS
  <2>3. n # from
    <3>1. All([m \in from..from |-> After(T)], from)
      BY DEF MigrateStep
    <3> QED
      BY <2>2, <3>1
  <2>4. n - 1 \in Nat /\ ~(n <= n - 1) /\ from <= n - 1
    BY <2>2, <2>3
  <2>5. n - 1 \notin Bad
    <3> HIDE DEF Bad
    <3> QED BY <2>1, <2>4
  <2>6. PICK f : All(f, n - 1)
    BY <2>4, <2>5
  <2> DEFINE g == [m \in from..n |-> MigrateStep(f, T, from, m)]
  <2>7. \A m \in from..(n - 1) : g[m] = f[m]
    BY <2>4, <2>6
  <2>8. \A m \in from..n : MigrateStep(g, T, from, m) = MigrateStep(f, T, from, m)
    <3> TAKE m \in from..n
    <3>1. CASE m = from
      BY <3>1 DEF MigrateStep
    <3>2. CASE m # from
      <4>1. m - 1 \in from..(n - 1)
        BY <2>4, <3>2
      <4>2. g[m - 1] = f[m - 1]
        BY <2>7, <4>1
      <4> HIDE DEF g
      <4> QED BY <3>2, <4>2 DEF MigrateStep
    <3> QED
      BY <3>1, <3>2
  <2>9. All(g, n)
    BY <2>8
  <2> QED
    BY <2>2, <2>9
<1> DEFINE after == CHOOSE f : All(f, to)
<1>2. All(after, to)
  <2>1. \E f : All(f, to)
    BY <1>1
  <2> QED BY <2>1
<1>3. Migrate(T, from, to) = after[to]
  BY DEF Migrate, MigrateStep, After
<1>4. \A m \in from..to : after[m] = MigrateStep(after, T, from, m)
  <2>1. after = [m \in from..to |-> MigrateStep(after, T, from, m)]
    BY <1>2
  <2> HIDE DEF after
  <2> QED BY <2>1
<1> HIDE DEF after
<1>5. after[from] = After(T) /\ \A v \in (from + 1)..to : after[v] = Run(after[v - 1], migrations[v])
  BY <1>4 DEF MigrateStep
<1> QED
  BY <1>3, <1>5

-----------------------------------------------------------------------------
(* Tables                                                                    *)

IsSeq(s) == s \in Seq(Range(s))

IsTable(table, cols, req) ==
  /\ table = [default |-> table.default, rows |-> table.rows]
  /\ DOMAIN table.default = cols
  /\ \A c \in cols : table.default[c] = Required <=> c \in req
  /\ IsSeq(table.rows)
  /\ \A i \in DOMAIN table.rows : DOMAIN table.rows[i] = cols

\* The length and the domain of a sequence.
LEMMA SeqIs ==
  ASSUME NEW s
  PROVE  /\ IsSeq(s) => Len(s) \in Nat /\ DOMAIN s = 1..Len(s)
         /\ \A S : s \in Seq(S) => IsSeq(s)
BY DEF IsSeq, Range

\* A function on 1..n is a sequence.
LEMMA SeqMade ==
  ASSUME NEW n \in Nat, NEW f, DOMAIN f = 1..n, f = [i \in 1..n |-> f[i]]
  PROVE  IsSeq(f) /\ Len(f) = n
<1> DEFINE R == Range(f)
<1>1. \A i \in 1..n : f[i] \in R
  BY DEF Range
<1> HIDE DEF R
<1>2. f \in Seq(R)
  BY <1>1
<1>3. Len(f) = n
  BY <1>2
<1> QED
  BY <1>2, <1>3 DEF IsSeq, R

\* The table has more rows than another one, and is otherwise the same.
HasMoreRows(w, table, new) ==
  /\ w.default = table.default
  /\ Len(w.rows) = Len(table.rows) + Len(new)
  /\ \A i \in 1..Len(table.rows) : w.rows[i] = table.rows[i]
  /\ \A i \in 1..Len(new) : w.rows[Len(table.rows) + i] = Over(new[i], table.default)

\* The table has one more column than another one, with its default in every row.
HasColumn(w, table, cols, c, d) ==
  /\ DOMAIN w.rows = DOMAIN table.rows
  /\ \A x \in cols : w.default[x] = table.default[x]
  /\ w.default[c] = d
  /\ \A i \in DOMAIN table.rows :
       /\ w.rows[i][c] = d
       /\ \A x \in cols : w.rows[i][x] = table.rows[i][x]

\* Appended rows, each with the defaults of the columns it does not have.
LEMMA RowsAdded ==
  ASSUME NEW table, NEW cols, NEW req, IsTable(table, cols, req),
         NEW new, IsSeq(new), \A i \in DOMAIN new : DOMAIN new[i] \subseteq cols
  PROVE  /\ IsTable(WithRows(table, new), cols, req)
         /\ HasMoreRows(WithRows(table, new), table, new)
<1> DEFINE s == table.rows
           m == [i \in DOMAIN new |-> Over(new[i], table.default)]
           w == WithRows(table, new)
           S == Range(s) \cup Range(m)
<1>1. IsSeq(s) /\ Len(s) \in Nat /\ DOMAIN s = 1..Len(s)
  BY SeqIs DEF IsTable
<1>2. Len(new) \in Nat /\ DOMAIN new = 1..Len(new)
  BY SeqIs
<1>3. DOMAIN m = 1..Len(new) /\ m = [i \in 1..Len(new) |-> m[i]]
  BY <1>2
<1>4. IsSeq(m) /\ Len(m) = Len(new)
  <2> HIDE DEF m
  <2> QED BY <1>2, <1>3, SeqMade
<1>5. w = [default |-> table.default, rows |-> s \o m]
  <2> DEFINE z == s \o m
  <2>1. w = [table EXCEPT !.rows = z]
    BY DEF WithRows
  <2> HIDE DEF z
  <2>2. table = [default |-> table.default, rows |-> table.rows]
    BY DEF IsTable
  <2>3. w = [default |-> table.default, rows |-> z]
    BY <2>1, <2>2
  <2> QED
    BY <2>3 DEF z
<1>6. s \in Seq(S) /\ m \in Seq(S)
  <2>1. Range(s) \subseteq S /\ Range(m) \subseteq S
    OBVIOUS
  <2> HIDE DEF S, s, m
  <2> QED BY <1>1, <1>4, <2>1 DEF IsSeq
<1>7. /\ s \o m \in Seq(S) /\ Len(s \o m) = Len(s) + Len(m)
      /\ \A i \in 1..(Len(s) + Len(m)) : (s \o m)[i] = IF i <= Len(s) THEN s[i] ELSE m[i - Len(s)]
  <2> HIDE DEF S, s, m
  <2> QED BY <1>6, ConcatProperties
<1>8. w.default = table.default /\ w.rows = s \o m
  BY <1>5
<1>9. \A i \in 1..Len(s) : w.rows[i] = s[i]
  <2> HIDE DEF S, s, m, w
  <2> QED BY <1>1, <1>2, <1>4, <1>7, <1>8
<1>10. \A i \in 1..Len(new) : w.rows[Len(s) + i] = m[i]
  <2> HIDE DEF S, s, m, w
  <2> TAKE i \in 1..Len(new)
  <2>1. Len(s) + i \in 1..(Len(s) + Len(m)) /\ ~(Len(s) + i <= Len(s)) /\ (Len(s) + i) - Len(s) = i
    BY <1>1, <1>2, <1>4
  <2> QED BY <1>7, <1>8, <2>1
<1>11. \A i \in 1..Len(new) : m[i] = Over(new[i], table.default) /\ DOMAIN m[i] = cols
  <2> TAKE i \in 1..Len(new)
  <2>1. m[i] = Over(new[i], table.default) /\ DOMAIN new[i] \subseteq cols
    BY <1>2
  <2>2. DOMAIN Over(new[i], table.default) = DOMAIN new[i] \cup DOMAIN table.default
    BY Extended
  <2>3. DOMAIN table.default = cols
    BY DEF IsTable
  <2> HIDE DEF m
  <2> QED BY <2>1, <2>2, <2>3
<1>12. \A i \in 1..(Len(s) + Len(new)) : DOMAIN w.rows[i] = cols
  <2> TAKE i \in 1..(Len(s) + Len(new))
  <2>1. CASE i \in 1..Len(s)
    BY <1>1, <1>9, <2>1 DEF IsTable
  <2>2. CASE i \notin 1..Len(s)
    <3>1. i - Len(s) \in 1..Len(new) /\ Len(s) + (i - Len(s)) = i
      <4> HIDE DEF s
      <4> QED BY <1>1, <1>2, <2>2
    <3>2. w.rows[i] = m[i - Len(s)] /\ DOMAIN m[i - Len(s)] = cols
      <4> HIDE DEF s, m, w
      <4> QED BY <3>1, <1>10, <1>11
    <3> QED
      BY <3>2
  <2> QED
    BY <2>1, <2>2
<1>13. Len(w.rows) = Len(s) + Len(new) /\ IsSeq(w.rows) /\ DOMAIN w.rows = 1..(Len(s) + Len(new))
  <2> HIDE DEF S, s, m, w
  <2>1. w.rows \in Seq(S) /\ Len(w.rows) = Len(s) + Len(new)
    BY <1>7, <1>8, <1>4
  <2>2. IsSeq(w.rows)
    BY <2>1, SeqIs
  <2> QED BY <2>1, <2>2, SeqIs
<1>14. IsTable(w, cols, req)
  <2>1. w = [default |-> w.default, rows |-> w.rows]
    BY <1>5
  <2>2. \A i \in DOMAIN w.rows : DOMAIN w.rows[i] = cols
    <3> HIDE DEF s, m, w
    <3> QED BY <1>12, <1>13
  <2>3. DOMAIN w.default = cols /\ \A c \in cols : w.default[c] = Required <=> c \in req
    <3> HIDE DEF s, m, w
    <3> QED BY <1>8 DEF IsTable
  <2> HIDE DEF s, m, w
  <2> QED
    BY <1>13, <2>1, <2>2, <2>3 DEF IsTable
<1>15. Len(w.rows) = Len(table.rows) + Len(new) /\ w.default = table.default
  <2> HIDE DEF m, w
  <2> QED BY <1>13, <1>8
<1>16. \A i \in 1..Len(table.rows) : w.rows[i] = table.rows[i]
  <2> HIDE DEF m, w
  <2> QED BY <1>9
<1>17. \A i \in 1..Len(new) : w.rows[Len(table.rows) + i] = Over(new[i], table.default)
  <2> HIDE DEF m, w
  <2> QED BY <1>10, <1>11
<1> HIDE DEF w
<1>18. IsTable(w, cols, req) /\ HasMoreRows(w, table, new)
  BY <1>14, <1>15, <1>16, <1>17 DEF HasMoreRows
<1> QED
  BY <1>18 DEF w

\* A further column.
LEMMA ColumnAdded ==
  ASSUME NEW table, NEW cols, NEW req, IsTable(table, cols, req),
         NEW c, c \notin cols, c \notin req, NEW d, d # Required
  PROVE  /\ IsTable(Widened(table, c, d), cols \cup {c}, req)
         /\ HasColumn(Widened(table, c, d), table, cols, c, d)
<1> DEFINE w == Widened(table, c, d)
<1>1. Len(table.rows) \in Nat /\ DOMAIN table.rows = 1..Len(table.rows)
  BY SeqIs DEF IsTable
<1>2. /\ w = [default |-> w.default, rows |-> w.rows]
      /\ w.default = Over(Only(c, d), table.default)
      /\ w.rows = [i \in DOMAIN table.rows |-> Over(Only(c, d), table.rows[i])]
  BY DEF Widened
<1>3. /\ DOMAIN w.default = cols \cup {c} /\ w.default[c] = d
      /\ \A x \in cols : w.default[x] = table.default[x]
  <2>1. DOMAIN table.default = cols
    BY DEF IsTable
  <2> HIDE DEF w
  <2> QED BY <1>2, <2>1 DEF Over, Only
<1>4. IsSeq(w.rows) /\ DOMAIN w.rows = DOMAIN table.rows
  <2>1. DOMAIN w.rows = 1..Len(table.rows) /\ w.rows = [i \in 1..Len(table.rows) |-> w.rows[i]]
    BY <1>1, <1>2
  <2> HIDE DEF w
  <2> QED BY <1>1, <2>1, SeqMade
<1>5. \A i \in DOMAIN table.rows :
        /\ DOMAIN w.rows[i] = cols \cup {c} /\ w.rows[i][c] = d
        /\ \A x \in cols : w.rows[i][x] = table.rows[i][x]
  <2> TAKE i \in DOMAIN table.rows
  <2>1. w.rows[i] = Over(Only(c, d), table.rows[i])
    BY <1>2
  <2>2. DOMAIN table.rows[i] = cols
    BY DEF IsTable
  <2> HIDE DEF w
  <2> QED BY <2>1, <2>2 DEF Over, Only
<1> HIDE DEF w
<1>6. IsTable(w, cols \cup {c}, req)
  BY <1>2, <1>3, <1>4, <1>5 DEF IsTable
<1>7. HasColumn(w, table, cols, c, d)
  BY <1>3, <1>4, <1>5 DEF HasColumn
<1> QED
  BY <1>6, <1>7 DEF w

\* A new table.
LEMMA TableCreated ==
  ASSUME NEW req, NEW opt, req \cap DOMAIN opt = {}, \A c \in DOMAIN opt : opt[c] # Required
  PROVE  LET table == [default |-> Over([c \in req |-> Required], opt), rows |-> <<>>]
         IN  /\ IsTable(table, req \cup DOMAIN opt, req)
             /\ \A c \in DOMAIN opt : table.default[c] = opt[c]
<1> DEFINE none == [c \in req |-> Required]
           table == [default |-> Over(none, opt), rows |-> <<>>]
<1>1. /\ table = [default |-> table.default, rows |-> table.rows]
      /\ table.rows = <<>> /\ table.default = Over(none, opt)
  OBVIOUS
<1>2. DOMAIN none = req /\ \A c \in req : none[c] = Required
  OBVIOUS
<1>3. IsSeq(<<>>) /\ DOMAIN <<>> = {}
  BY DEF IsSeq
<1> HIDE DEF table, none
<1>4. IsTable(table, req \cup DOMAIN opt, req)
  <2>1. DOMAIN Over(none, opt) = req \cup DOMAIN opt
    BY <1>2, Extended
  <2>2. \A c \in req : Over(none, opt)[c] = Required
    BY <1>2 DEF Over
  <2>3. \A c \in DOMAIN opt : Over(none, opt)[c] = opt[c] /\ c \notin req
    BY <1>2 DEF Over
  <2> QED
    BY <1>1, <1>3, <2>1, <2>2, <2>3 DEF IsTable
<1>5. \A c \in DOMAIN opt : table.default[c] = opt[c]
  <2>1. \A c \in DOMAIN opt : c \notin DOMAIN none
    BY <1>2
  <2> QED BY <1>1, <2>1 DEF Over
<1> QED
  BY <1>4, <1>5 DEF table, none

-----------------------------------------------------------------------------
(* The schema of each version                                                *)

PaymentColumns(k) ==
  {"hash", "timezone_id", "timezone_utc_offset_secs", "fiat_currency"}
  \cup {IF k < 19 THEN "exchange_rates_history_snaphot_id" ELSE "exchange_rates_history_snapshot_id"}
  \cup {c \in {"personal_note"} : k >= 13}
  \cup {c \in {"received_on", "received_lnurl_comment"} : k >= 14}

OfferColumns(k) ==
  {"payment_hash", "pocket_id", "fiat_currency", "rate", "exchanged_at", "topup_value_minor_units",
   "exchange_fee_minor_units", "exchange_fee_rate_permyriad"}
  \cup {c \in {"error"} : k >= 3}
  \cup {c \in {"topup_value_sats"} : k >= 8}

InvoiceColumns(k) ==
  {"hash", "invoice", "id"}
  \cup {c \in {"channel_opening_fees"} : k >= 6}
  \cup {c \in {"invoice_expiry_timestamp"} : k >= 9}

RateColumns == {"snapshot_id", "fiat_currency", "rate", "updated_at", "id"}

TopupColumns ==
  {"order_id", "created_at", "debitor_iban", "creditor_reference", "creditor_iban",
   "creditor_bank_name", "creditor_bank_street", "creditor_bank_postal_code",
   "creditor_bank_town", "creditor_bank_country", "creditor_bank_bic", "creditor_name",
   "creditor_street", "creditor_postal_code", "creditor_town", "creditor_country", "currency"}

AddressColumns(k) == {"address", "registered_at"} \cup {c \in {"enable_status"} : k >= 15}

ColumnsOf(k, t) ==
  CASE t = "payments" -> PaymentColumns(k)
    [] t = "exchange_rates_history" -> RateColumns
    [] t = "offers" -> OfferColumns(k)
    [] t = "exchange_rates" -> {"fiat_currency", "rate", "updated_at"}
    [] t = "funds_migration_status" -> {"status", "id", "updated_at"}
    [] t = "created_invoices" -> InvoiceColumns(k)
    [] t = "fiat_topup_info" -> TopupColumns
    [] t = "analytics_config" -> {"status", "id", "updated_at"}
    [] t = "webhook_base_url" -> {"url", "id", "updated_at"}
    [] t = "lightning_addresses" -> AddressColumns(k)
    [] t = "hidden_channel_close_amount" -> {"amount_sat", "id", "inserted_at"}
    [] t = "hidden_failed_swaps" -> {"swap_address", "id", "inserted_at"}
    [] t = "fiat_currency" -> {"fiat_currency", "id", "inserter_at"}

RequiredOf(k, t) ==
  CASE t = "payments" ->
         IF k < 19 THEN {"hash", "timezone_id", "timezone_utc_offset_secs", "fiat_currency"}
         ELSE {"hash"}
    [] t = "exchange_rates_history" -> {"snapshot_id", "fiat_currency", "rate", "updated_at"}
    [] t = "offers" -> {"payment_hash"}
    [] t = "exchange_rates" -> {"fiat_currency", "rate"}
    [] t = "funds_migration_status" -> {"status"}
    [] t = "created_invoices" -> {"hash", "invoice"}
    [] t = "fiat_topup_info" -> TopupColumns
    [] t = "analytics_config" -> {"status"}
    [] t = "webhook_base_url" -> {"url"}
    [] t = "lightning_addresses" -> {"address"}
    [] t = "hidden_channel_close_amount" -> {"amount_sat"}
    [] t = "hidden_failed_swaps" -> {"swap_address"}
    [] t = "fiat_currency" -> {"fiat_currency"}

AllTables ==
  {"payments", "exchange_rates_history", "offers", "exchange_rates", "funds_migration_status",
   "created_invoices", "fiat_topup_info", "analytics_config", "webhook_base_url",
   "lightning_addresses", "hidden_channel_close_amount", "hidden_failed_swaps", "fiat_currency"}

\* The migration that creates a table.
Created(t) ==
  CASE t = "payments" -> 1
    [] t = "exchange_rates_history" -> 1
    [] t = "offers" -> 1
    [] t = "exchange_rates" -> 1
    [] t = "funds_migration_status" -> 2
    [] t = "created_invoices" -> 4
    [] t = "fiat_topup_info" -> 5
    [] t = "analytics_config" -> 10
    [] t = "webhook_base_url" -> 11
    [] t = "lightning_addresses" -> 12
    [] t = "hidden_channel_close_amount" -> 16
    [] t = "hidden_failed_swaps" -> 17
    [] t = "fiat_currency" -> 18

TablesAt(k) == {t \in AllTables : Created(t) <= k}

\* The tables whose columns a migration changes.
Altered(k) ==
  {t \in {"offers"} : k \in {3, 8}} \cup {t \in {"created_invoices"} : k \in {6, 9}}
  \cup {t \in {"payments"} : k \in {13, 14, 19}} \cup {t \in {"lightning_addresses"} : k = 15}

RowsOf(T, t) == IF t \in DOMAIN T THEN T[t].rows ELSE <<>>

\* The tables T are those of a file of version k.
Fits(k, T) ==
  /\ DOMAIN T = TablesAt(k)
  /\ \A t \in TablesAt(k) : IsTable(T[t], ColumnsOf(k, t), RequiredOf(k, t))
  /\ k >= 10 => T["analytics_config"].rows # <<>>
  /\ k = 19 => \A c \in ColumnsOf(19, "payments") : c # "hash" => T["payments"].default[c] = Null

\* The tables of a version are those of the one before and what it creates.
LEMMA TablesGrow ==
  ASSUME NEW k \in 1..19
  PROVE  \A t : t \in TablesAt(k) <=> t \in TablesAt(k - 1) \/ (t \in AllTables /\ Created(t) = k)
<1>1. \A t \in AllTables : Created(t) \in Int
  BY DEF AllTables, Created
<1> QED
  BY <1>1 DEF TablesAt

\* The other tables keep their columns.
LEMMA Unaltered ==
  ASSUME NEW k \in 1..19, NEW t \in AllTables, t \notin Altered(k)
  PROVE  ColumnsOf(k, t) = ColumnsOf(k - 1, t) /\ RequiredOf(k, t) = RequiredOf(k - 1, t)
<1>1. CASE t = "payments"
  <2>1. k # 13 /\ k # 14 /\ k # 19
    BY <1>1 DEF Altered
  <2>2. k < 19 /\ k - 1 < 19 /\ (k >= 13 <=> k - 1 >= 13) /\ (k >= 14 <=> k - 1 >= 14)
    BY <2>1
  <2>3. PaymentColumns(k) = PaymentColumns(k - 1)
    BY <2>2 DEF PaymentColumns
  <2> QED
    BY <1>1, <2>2, <2>3 DEF ColumnsOf, RequiredOf
<1>2. CASE t = "offers"
  <2>1. k # 3 /\ k # 8
    BY <1>2 DEF Altered
  <2>2. (k >= 3 <=> k - 1 >= 3) /\ (k >= 8 <=> k - 1 >= 8)
    BY <2>1
  <2>3. OfferColumns(k) = OfferColumns(k - 1)
    BY <2>2 DEF OfferColumns
  <2> QED
    BY <1>2, <2>3 DEF ColumnsOf, RequiredOf
<1>3. CASE t = "created_invoices"
  <2>1. k # 6 /\ k # 9
    BY <1>3 DEF Altered
  <2>2. (k >= 6 <=> k - 1 >= 6) /\ (k >= 9 <=> k - 1 >= 9)
    BY <2>1
  <2>3. InvoiceColumns(k) = InvoiceColumns(k - 1)
    BY <2>2 DEF InvoiceColumns
  <2> QED
    BY <1>3, <2>3 DEF ColumnsOf, RequiredOf
<1>4. CASE t = "lightning_addresses"
  <2>1. k # 15
    BY <1>4 DEF Altered
  <2>2. k >= 15 <=> k - 1 >= 15
    BY <2>1
  <2>3. AddressColumns(k) = AddressColumns(k - 1)
    BY <2>2 DEF AddressColumns
  <2> QED
    BY <1>4, <2>3 DEF ColumnsOf, RequiredOf
<1>5. CASE t \notin {"payments", "offers", "created_invoices", "lightning_addresses"}
  BY <1>5 DEF ColumnsOf, RequiredOf, AllTables
<1> QED
  BY <1>1, <1>2, <1>3, <1>4, <1>5

\* The tables U are T and a new one; T but for one.
HasTable(U, T, t, table) ==
  /\ DOMAIN U = DOMAIN T \cup {t}
  /\ U[t] = table
  /\ \A u \in DOMAIN T : U[u] = T[u]

HasChanged(U, T, t, table) ==
  /\ DOMAIN U = DOMAIN T
  /\ U[t] = table
  /\ \A u \in DOMAIN T : u # t => U[u] = T[u]

\* A migration that creates one table.
LEMMA FitsWithTable ==
  ASSUME NEW k \in 1..18, NEW T, Fits(k - 1, T), Altered(k) = {},
         NEW t \in AllTables, \A u \in AllTables : Created(u) = k <=> u = t,
         NEW U, NEW table, HasTable(U, T, t, table),
         IsTable(table, ColumnsOf(k, t), RequiredOf(k, t)),
         t = "analytics_config" => table.rows # <<>>,
         k # 10 \/ t = "analytics_config"
  PROVE  Fits(k, U)
<1>0. k \in 1..19 /\ k # 19
  OBVIOUS
<1>a. /\ DOMAIN U = DOMAIN T \cup {t}
      /\ U[t] = table
      /\ \A u \in DOMAIN T : U[u] = T[u]
  BY DEF HasTable
<1>1. DOMAIN U = TablesAt(k)
  <2>1. \A u : u \in TablesAt(k) <=> u \in TablesAt(k - 1) \/ u = t
    BY <1>0, TablesGrow
  <2> QED
    BY <1>a, <2>1 DEF Fits
<1>2. ASSUME NEW u \in TablesAt(k)
      PROVE  IsTable(U[u], ColumnsOf(k, u), RequiredOf(k, u))
  <2>1. CASE u = t
    BY <1>a, <2>1
  <2>2. CASE u # t
    <3>1. u \in TablesAt(k - 1) /\ u \in DOMAIN T /\ u \in AllTables
      BY <1>1, <1>a, <2>2 DEF Fits, TablesAt
    <3>2. U[u] = T[u] /\ IsTable(T[u], ColumnsOf(k - 1, u), RequiredOf(k - 1, u))
      BY <1>a, <3>1 DEF Fits
    <3>3. ColumnsOf(k, u) = ColumnsOf(k - 1, u) /\ RequiredOf(k, u) = RequiredOf(k - 1, u)
      BY <1>0, <3>1, Unaltered
    <3> QED
      BY <3>2, <3>3
  <2> QED
    BY <2>1, <2>2
<1>3. k >= 10 => U["analytics_config"].rows # <<>>
  <2> SUFFICES ASSUME k >= 10 PROVE U["analytics_config"].rows # <<>>
    OBVIOUS
  <2>1. CASE t = "analytics_config"
    BY <1>a, <2>1
  <2>2. CASE t # "analytics_config"
    <3>1. k - 1 >= 10
      BY <2>2
    <3>2. "analytics_config" \in TablesAt(k - 1)
      BY <3>1 DEF TablesAt, AllTables, Created
    <3> QED
      BY <1>a, <3>1, <3>2 DEF Fits
  <2> QED
    BY <2>1, <2>2
<1> QED
  BY <1>0, <1>1, <1>2, <1>3 DEF Fits

\* A migration that alters one table, or fills it.
LEMMA FitsAltered ==
  ASSUME NEW k \in 1..19, NEW T, Fits(k - 1, T),
         \A u \in AllTables : Created(u) # k,
         NEW t \in TablesAt(k - 1), \A u \in Altered(k) : u = t,
         NEW U, NEW table, HasChanged(U, T, t, table),
         IsTable(table, ColumnsOf(k, t), RequiredOf(k, t)),
         t # "analytics_config",
         k = 19 => \A c \in ColumnsOf(19, "payments") : c # "hash" => table.default[c] = Null
  PROVE  Fits(k, U)
<1>a. /\ DOMAIN U = DOMAIN T
      /\ U[t] = table
      /\ \A u \in DOMAIN T : u # t => U[u] = T[u]
  BY DEF HasChanged
<1>1. DOMAIN U = TablesAt(k)
  <2>1. \A u : u \in TablesAt(k) <=> u \in TablesAt(k - 1)
    BY TablesGrow
  <2> QED
    BY <1>a, <2>1 DEF Fits
<1>2. ASSUME NEW u \in TablesAt(k)
      PROVE  IsTable(U[u], ColumnsOf(k, u), RequiredOf(k, u))
  <2>1. CASE u = t
    BY <1>a, <2>1
  <2>2. CASE u # t
    <3>1. u \in TablesAt(k - 1) /\ u \in DOMAIN T /\ u \in AllTables /\ u \notin Altered(k)
      BY <1>1, <1>a, <2>2 DEF Fits, TablesAt
    <3>2. U[u] = T[u] /\ IsTable(T[u], ColumnsOf(k - 1, u), RequiredOf(k - 1, u))
      BY <1>a, <2>2, <3>1 DEF Fits
    <3>3. ColumnsOf(k, u) = ColumnsOf(k - 1, u) /\ RequiredOf(k, u) = RequiredOf(k - 1, u)
      BY <3>1, Unaltered
    <3> QED
      BY <3>2, <3>3
  <2> QED
    BY <2>1, <2>2
<1>3. k >= 10 => U["analytics_config"].rows # <<>>
  <2> SUFFICES ASSUME k >= 10 PROVE U["analytics_config"].rows # <<>>
    OBVIOUS
  <2>1. Created("analytics_config") = 10 /\ "analytics_config" \in AllTables
    BY DEF AllTables, Created
  <2>2. k - 1 >= 10 /\ "analytics_config" \in TablesAt(k - 1)
    BY <2>1 DEF TablesAt
  <2> QED
    BY <1>a, <2>2 DEF Fits
<1>4. k = 19 => \A c \in ColumnsOf(19, "payments") : c # "hash" => U["payments"].default[c] = Null
  BY <1>a DEF Altered
<1> QED
  BY <1>1, <1>2, <1>3, <1>4 DEF Fits

-----------------------------------------------------------------------------
(* What rows tell                                                            *)

\* What a column reads, of rows that may not have it yet.
Cell(r, c) == IF c \in DOMAIN r THEN r[c] ELSE Null

OldName == "exchange_rates_history_snaphot_id"
NewName == "exchange_rates_history_snapshot_id"

Snapshot(r) == IF Cell(r, OldName) # Null THEN Cell(r, OldName) ELSE Cell(r, NewName)

PaidIn == <<"payments", "fiat_currency">>

\* The row of payment p tells s of it: everything, or no more than a note.
PaymentRow(r, p, s) ==
  /\ \/ /\ Cell(r, "timezone_id") = <<"payments", "timezone_id">>
        /\ Cell(r, "timezone_utc_offset_secs") = <<"payments", "timezone_utc_offset_secs">>
        /\ Cell(r, "fiat_currency") = PaidIn
        /\ Snapshot(r) = <<p>>
        /\ s.user_preferences =
             <<<<"payments", "timezone_id">>, <<"payments", "timezone_utc_offset_secs">>, PaidIn>>
     \/ /\ Cell(r, "timezone_id") = Null
        /\ Cell(r, "timezone_utc_offset_secs") = Null
        /\ Cell(r, "fiat_currency") = Null
        /\ Snapshot(r) = Null
        /\ s.user_preferences = Null
  /\ Cell(r, "personal_note") = s.personal_note
  /\ Cell(r, "received_on") = s.received_on
  /\ Cell(r, "received_lnurl_comment") = s.received_lnurl_comment

PaymentsTell(rows, st) ==
  /\ \A i \in DOMAIN rows : \E p \in Recorded :
       Cell(rows[i], "hash") = <<p>> /\ st[p] # Null /\ PaymentRow(rows[i], p, st[p])
  /\ \A p \in Recorded : st[p] # Null => \E i \in DOMAIN rows : Cell(rows[i], "hash") = <<p>>

HasRates(s) == s # Null /\ s.exchange_rate # Null

RatesTell(rows, st) ==
  /\ \A i \in DOMAIN rows : \E p \in Recorded :
       /\ Cell(rows[i], "snapshot_id") = <<p>> /\ HasRates(st[p])
       /\ Cell(rows[i], "fiat_currency") = PaidIn
       /\ Cell(rows[i], "rate") = <<"exchange_rates_history", "rate">>
       /\ Cell(rows[i], "updated_at") = <<"exchange_rates_history", "updated_at">>
  /\ \A p \in Recorded :
       HasRates(st[p]) => \E i \in DOMAIN rows : Cell(rows[i], "snapshot_id") = <<p>>

HasOffer(s) == s # Null /\ s.offer # Null

OfferRow(r, offer) ==
  /\ Cell(r, "pocket_id") # Null
  /\ offer = <<Cell(r, "pocket_id"), Cell(r, "fiat_currency"), Cell(r, "rate"), Cell(r, "exchanged_at"),
               Cell(r, "topup_value_minor_units"), Cell(r, "exchange_fee_minor_units"),
               Cell(r, "exchange_fee_rate_permyriad"), Cell(r, "topup_value_sats"),
               ToOfferError(Cell(r, "error"))>>

OffersTell(rows, st) ==
  /\ \A i \in DOMAIN rows : \E p \in Recorded :
       Cell(rows[i], "payment_hash") = <<p>> /\ HasOffer(st[p]) /\ OfferRow(rows[i], st[p].offer)
  /\ \A p \in Recorded :
       HasOffer(st[p]) => \E i \in DOMAIN rows : Cell(rows[i], "payment_hash") = <<p>>

AnalyticsTell(rows, ch) ==
  IF rows = <<>> THEN ch.analytics = Zero ELSE Cell(rows[Len(rows)], "status") = ch.analytics

\* Addresses of before the column was added are enabled.
Status(r) == IF "enable_status" \in DOMAIN r THEN r["enable_status"] ELSE Zero

AddressTells(rows, ch) ==
  IF rows = <<>> THEN ch.address = Null
  ELSE ch.address # Null => Status(rows[Len(rows)]) = ch.address

Tells(T, st, ch) ==
  /\ PaymentsTell(RowsOf(T, "payments"), st)
  /\ RatesTell(RowsOf(T, "exchange_rates_history"), st)
  /\ OffersTell(RowsOf(T, "offers"), st)
  /\ AnalyticsTell(RowsOf(T, "analytics_config"), ch)
  /\ AddressTells(RowsOf(T, "lightning_addresses"), ch)

Telling == {"payments", "exchange_rates_history", "offers", "analytics_config", "lightning_addresses"}

\* What the tables tell is in the rows of some.
LEMMA SameRowsTell ==
  ASSUME NEW T, NEW U, \A t \in Telling : RowsOf(U, t) = RowsOf(T, t), NEW st, NEW ch, Tells(T, st, ch)
  PROVE  Tells(U, st, ch)
BY DEF Tells, Telling

\* Rows that read alike tell the same.
SameCells(r, q) == \A c : Cell(r, c) = Cell(q, c)

\* A row with one more column, NULL, reads as before.
LEMMA WiderRow ==
  ASSUME NEW r, NEW q, NEW c, c \notin DOMAIN q, DOMAIN r = DOMAIN q \cup {c},
         r[c] = Null, \A x \in DOMAIN q : r[x] = q[x]
  PROVE  SameCells(r, q)
BY DEF SameCells, Cell

\* Rows that read the same tell the same.
LEMMA SameCellsTell ==
  ASSUME NEW rows, NEW new, DOMAIN new = DOMAIN rows,
         \A i \in DOMAIN rows : SameCells(new[i], rows[i]), NEW st
  PROVE  /\ PaymentsTell(rows, st) => PaymentsTell(new, st)
         /\ OffersTell(rows, st) => OffersTell(new, st)
<1>1. ASSUME NEW i \in DOMAIN rows, NEW p, NEW s
      PROVE  /\ PaymentRow(rows[i], p, s) => PaymentRow(new[i], p, s)
             /\ OfferRow(rows[i], s) => OfferRow(new[i], s)
             /\ Cell(new[i], "hash") = Cell(rows[i], "hash")
             /\ Cell(new[i], "payment_hash") = Cell(rows[i], "payment_hash")
  <2>1. \A c : Cell(new[i], c) = Cell(rows[i], c)
    BY DEF SameCells
  <2>2. Snapshot(new[i]) = Snapshot(rows[i])
    BY <2>1 DEF Snapshot
  <2>3. PaymentRow(rows[i], p, s) => PaymentRow(new[i], p, s)
    BY <2>1, <2>2 DEF PaymentRow
  <2>4. OfferRow(rows[i], s) => OfferRow(new[i], s)
    BY <2>1 DEF OfferRow
  <2> QED
    BY <2>1, <2>3, <2>4
<1>2. PaymentsTell(rows, st) => PaymentsTell(new, st)
  BY <1>1 DEF PaymentsTell
<1>3. OffersTell(rows, st) => OffersTell(new, st)
  BY <1>1 DEF OffersTell
<1> QED
  BY <1>2, <1>3

-----------------------------------------------------------------------------
(* Statements                                                                *)

\* What ALTER TABLE ADD COLUMN does.
LEMMA Adds ==
  ASSUME NEW T, NEW t \in DOMAIN T, NEW c, NEW d
  PROVE  Execute(After(T), AddColumn(t, c, d)) =
           IF c \in DOMAIN T[t].default THEN Failed(T)
           ELSE After([T EXCEPT ![t] = Widened(T[t], c, d)])
<1> DEFINE s == AddColumn(t, c, d)
<1>1. s.do = "add" /\ s.table = t /\ s.column = c /\ s.default = d
  BY DEF AddColumn
<1> HIDE DEF s
<1>2. Can(T, s) <=> c \notin DOMAIN T[t].default
  BY <1>1 DEF Can, Columns
<1>3. Result(T, s) = [T EXCEPT ![t] = Widened(T[t], c, d)]
  BY <1>1 DEF Result
<1>4. Execute(After(T), s) = IF c \in DOMAIN T[t].default THEN Failed(T)
                             ELSE After([T EXCEPT ![t] = Widened(T[t], c, d)])
  BY <1>2, <1>3, Executes
<1> QED
  BY <1>4 DEF s

\* What CREATE TABLE does.
LEMMA Creates ==
  ASSUME NEW T, NEW t, NEW req, NEW opt
  PROVE  Execute(After(T), CreateTable(t, req, opt)) =
           IF t \in DOMAIN T THEN Failed(T)
           ELSE After(Over(Only(t, [default |-> Over([c \in req |-> Required], opt), rows |-> <<>>]), T))
<1> DEFINE d == Over([c \in req |-> Required], opt)
           s == CreateTable(t, req, opt)
<1>1. s.do = "create" /\ s.table = t /\ s.default = d
  BY DEF CreateTable
<1> HIDE DEF s, d
<1>2. Can(T, s) <=> t \notin DOMAIN T
  BY <1>1 DEF Can
<1>3. Result(T, s) = Over(Only(t, [default |-> d, rows |-> <<>>]), T)
  BY <1>1 DEF Result
<1>4. Execute(After(T), s) = IF t \in DOMAIN T THEN Failed(T)
                             ELSE After(Over(Only(t, [default |-> d, rows |-> <<>>]), T))
  BY <1>2, <1>3, Executes
<1> QED
  BY <1>4 DEF s, d

\* What INSERT does to a table of known columns.
LEMMA Inserts ==
  ASSUME NEW T, NEW t \in DOMAIN T, NEW cols, NEW req, req \subseteq cols, IsTable(T[t], cols, req),
         NEW row, DOMAIN row \subseteq cols
  PROVE  Execute(After(T), Insert(t, row)) =
           IF \A c \in req : c \in DOMAIN row /\ row[c] # Null
           THEN After([T EXCEPT ![t] = WithRows(T[t], <<row>>)])
           ELSE Failed(T)
<1> DEFINE s == Insert(t, row)
<1>1. s.do = "insert" /\ s.table = t /\ s.row = row
  BY DEF Insert
<1> HIDE DEF s
<1>2. Columns(T, t) = cols /\ \A c \in cols : T[t].default[c] = Required <=> c \in req
  BY DEF Columns, IsTable
<1>3. Can(T, s) <=> \A c \in req : c \in DOMAIN row /\ row[c] # Null
  BY <1>1, <1>2 DEF Can
<1>4. Result(T, s) = [T EXCEPT ![t] = WithRows(T[t], <<row>>)]
  BY <1>1 DEF Result
<1>5. Execute(After(T), s) = IF \A c \in req : c \in DOMAIN row /\ row[c] # Null
                             THEN After([T EXCEPT ![t] = WithRows(T[t], <<row>>)])
                             ELSE Failed(T)
  BY <1>3, <1>4, Executes
<1> QED
  BY <1>5 DEF s

\* A new table is empty, so there is nothing new to tell.
NewTable(req, opt) == [default |-> Over([c \in req |-> Required], opt), rows |-> <<>>]

WithTable(T, t, table) == Over(Only(t, table), T)

\* Creating a table keeps the others.
LEMMA TableIsNew ==
  ASSUME NEW T, NEW t, t \notin DOMAIN T, NEW table
  PROVE  HasTable(WithTable(T, t, table), T, t, table)
BY DEF HasTable, WithTable, Over, Only

\* Changing a table keeps the others.
LEMMA TableChanges ==
  ASSUME NEW T, NEW t \in DOMAIN T, NEW table
  PROVE  HasChanged([T EXCEPT ![t] = table], T, t, table)
BY DEF HasChanged

\* An empty table has nothing to tell.
LEMMA CreatedTells ==
  ASSUME NEW T, NEW t, t \notin DOMAIN T, NEW table, table.rows = <<>>,
         NEW st, NEW ch, Tells(T, st, ch)
  PROVE  Tells(WithTable(T, t, table), st, ch)
<1> DEFINE U == WithTable(T, t, table)
<1>0. HasTable(U, T, t, table)
  BY TableIsNew
<1> HIDE DEF U
<1>1. \A u : RowsOf(U, u) = RowsOf(T, u)
  BY <1>0 DEF RowsOf, HasTable
<1>2. Tells(U, st, ch)
  BY <1>1, SameRowsTell
<1> QED
  BY <1>2 DEF U

\* The columns of a new table.
LEMMA NewTableIs ==
  ASSUME NEW req, NEW opt, req \cap DOMAIN opt = {}, \A c \in DOMAIN opt : opt[c] # Required
  PROVE  /\ IsTable(NewTable(req, opt), req \cup DOMAIN opt, req)
         /\ \A c \in DOMAIN opt : NewTable(req, opt).default[c] = opt[c]
         /\ NewTable(req, opt).rows = <<>>
BY TableCreated DEF NewTable

\* A migration that creates a table.
LEMMA CreateMigration ==
  ASSUME NEW k \in 1..18, NEW T, Fits(k - 1, T), Altered(k) = {},
         NEW t \in AllTables, \A u \in AllTables : Created(u) = k <=> u = t,
         t # "analytics_config", k # 10,
         NEW req, NEW opt, req \cap DOMAIN opt = {}, \A c \in DOMAIN opt : opt[c] # Required,
         ColumnsOf(k, t) = req \cup DOMAIN opt, RequiredOf(k, t) = req,
         NEW st, NEW ch, Tells(T, st, ch)
  PROVE  \E U : /\ Run(After(T), <<CreateTable(t, req, opt)>>) = After(U)
                /\ Fits(k, U) /\ Tells(U, st, ch)
<1> DEFINE U == WithTable(T, t, NewTable(req, opt))
<1>1. t \notin DOMAIN T
  <2>1. t \notin TablesAt(k - 1)
    <3>1. Created(t) = k
      OBVIOUS
    <3> QED BY <3>1 DEF TablesAt
  <2> QED BY <2>1 DEF Fits
<1>2. Run(After(T), <<CreateTable(t, req, opt)>>) = After(U)
  BY <1>1, RunOne, Creates DEF NewTable, WithTable
<1>3. IsTable(NewTable(req, opt), ColumnsOf(k, t), RequiredOf(k, t)) /\ NewTable(req, opt).rows = <<>>
  BY NewTableIs
<1>4. Tells(U, st, ch)
  BY <1>1, <1>3, CreatedTells
<1>5. Fits(k, U)
  <2>1. HasTable(U, T, t, NewTable(req, opt))
    BY <1>1, TableIsNew
  <2> HIDE DEF U
  <2> QED
    BY <1>3, <2>1, FitsWithTable
<1> QED
  BY <1>2, <1>4, <1>5

\* A further column tells nothing new: it is NULL, and every address is enabled.
LEMMA AddedTells ==
  ASSUME NEW T, NEW t \in DOMAIN T, NEW cols, NEW req, IsTable(T[t], cols, req),
         NEW c, c \notin cols, c \notin req, NEW d, d # Required,
         \/ t \in {"payments", "offers"} /\ d = Null
         \/ t = "lightning_addresses" /\ c = "enable_status" /\ d = Zero
         \/ t \notin Telling,
         NEW st, NEW ch, Tells(T, st, ch)
  PROVE  Tells([T EXCEPT ![t] = Widened(T[t], c, d)], st, ch)
<1> DEFINE w == Widened(T[t], c, d)
           U == [T EXCEPT ![t] = w]
<1>0. IsTable(w, cols \cup {c}, req) /\ HasColumn(w, T[t], cols, c, d)
  BY ColumnAdded
<1>1. /\ DOMAIN w.rows = DOMAIN T[t].rows
      /\ \A i \in DOMAIN T[t].rows :
           /\ w.rows[i][c] = d
           /\ \A x \in cols : w.rows[i][x] = T[t].rows[i][x]
      /\ \A i \in DOMAIN T[t].rows : DOMAIN w.rows[i] = cols \cup {c} /\ DOMAIN T[t].rows[i] = cols
  <2> HIDE DEF w
  <2> QED
    BY <1>0 DEF IsTable, HasColumn
<1>2. RowsOf(U, t) = w.rows /\ RowsOf(T, t) = T[t].rows /\ \A u : u # t => RowsOf(U, u) = RowsOf(T, u)
  BY DEF RowsOf
<1> HIDE DEF w, U
<1> SUFFICES Tells(U, st, ch)
  BY DEF U, w
<1>3. CASE t \in {"payments", "offers"} /\ d = Null
  <2>1. \A i \in DOMAIN T[t].rows : SameCells(w.rows[i], T[t].rows[i])
    <3> TAKE i \in DOMAIN T[t].rows
    <3> DEFINE r == w.rows[i]
               q == T[t].rows[i]
    <3>1. c \notin DOMAIN q /\ DOMAIN r = DOMAIN q \cup {c} /\ r[c] = Null /\ \A x \in DOMAIN q : r[x] = q[x]
      BY <1>1, <1>3
    <3> HIDE DEF r, q
    <3>2. SameCells(r, q)
      BY <3>1, WiderRow
    <3> QED
      BY <3>2 DEF r, q
  <2>2. /\ PaymentsTell(RowsOf(T, t), st) => PaymentsTell(RowsOf(U, t), st)
        /\ OffersTell(RowsOf(T, t), st) => OffersTell(RowsOf(U, t), st)
    BY <1>1, <1>2, <2>1, SameCellsTell
  <2> QED
    BY <1>2, <1>3, <2>2 DEF Tells
<1>4. CASE t = "lightning_addresses" /\ c = "enable_status" /\ d = Zero
  <2>1. IsSeq(T[t].rows) /\ DOMAIN T[t].rows = 1..Len(T[t].rows) /\ Len(T[t].rows) \in Nat
    BY SeqIs DEF IsTable
  <2>2. IsSeq(w.rows) /\ DOMAIN w.rows = 1..Len(w.rows) /\ Len(w.rows) \in Nat
    <3>1. IsSeq(w.rows)
      BY <1>0 DEF IsTable
    <3> QED BY <3>1, SeqIs
  <2>3. Len(w.rows) = Len(T[t].rows)
    <3>1. 1..Len(w.rows) = 1..Len(T[t].rows)
      BY <1>1, <2>1, <2>2
    <3> QED
      BY <2>1, <2>2, <3>1
  <2>4. ASSUME T[t].rows # <<>>
        PROVE  w.rows # <<>> /\ Status(w.rows[Len(w.rows)]) = Zero
               /\ Status(T[t].rows[Len(T[t].rows)]) = Zero
    <3>1. Len(T[t].rows) \in DOMAIN T[t].rows
      <4>1. Len(T[t].rows) # 0
        BY <2>1, <2>4 DEF IsSeq
      <4> QED BY <2>1, <4>1
    <3>2. w.rows # <<>>
      BY <1>1, <3>1
    <3> QED
      BY <1>1, <1>4, <2>3, <3>1, <3>2 DEF Status
  <2>5. T[t].rows = <<>> => w.rows = <<>>
    BY <2>1, <2>2, <2>3 DEF IsSeq
  <2>6. AddressTells(RowsOf(T, t), ch) => AddressTells(RowsOf(U, t), ch)
    BY <1>2, <2>4, <2>5 DEF AddressTells
  <2> QED
    BY <1>2, <1>4, <2>6 DEF Tells
<1>5. CASE t \notin Telling
  <2>1. \A u \in Telling : RowsOf(U, u) = RowsOf(T, u)
    BY <1>2, <1>5
  <2> QED
    BY <2>1, SameRowsTell
<1> QED
  BY <1>3, <1>4, <1>5

\* A migration that adds a column.
LEMMA ColumnMigration ==
  ASSUME NEW k \in 1..18, NEW T, Fits(k - 1, T), \A u \in AllTables : Created(u) # k,
         NEW t \in TablesAt(k - 1), \A u \in Altered(k) : u = t,
         NEW c, c \notin ColumnsOf(k - 1, t), c \notin RequiredOf(k - 1, t),
         ColumnsOf(k, t) = ColumnsOf(k - 1, t) \cup {c}, RequiredOf(k, t) = RequiredOf(k - 1, t),
         NEW d, d # Required,
         \/ t \in {"payments", "offers"} /\ d = Null
         \/ t = "lightning_addresses" /\ c = "enable_status" /\ d = Zero
         \/ t \notin Telling,
         NEW st, NEW ch, Tells(T, st, ch)
  PROVE  \E U : /\ Run(After(T), <<AddColumn(t, c, d)>>) = After(U)
                /\ Fits(k, U) /\ Tells(U, st, ch)
<1> DEFINE w == Widened(T[t], c, d)
           U == [T EXCEPT ![t] = w]
           cols == ColumnsOf(k - 1, t)
           req == RequiredOf(k - 1, t)
<1>1. t \in DOMAIN T /\ IsTable(T[t], cols, req)
  BY DEF Fits
<1>2. DOMAIN T[t].default = cols
  <2> HIDE DEF cols, req
  <2> QED BY <1>1 DEF IsTable
<1>3. Run(After(T), <<AddColumn(t, c, d)>>) = After(U)
  <2>1. c \notin DOMAIN T[t].default
    BY <1>2
  <2> QED
    BY <1>1, <2>1, RunOne, Adds
<1>4. Tells(U, st, ch)
  <2> HIDE DEF U, w, cols, req
  <2>1. c \notin cols /\ c \notin req
    BY DEF cols, req
  <2> QED
    BY <1>1, <2>1, AddedTells DEF U, w
<1>5. IsTable(w, cols \cup {c}, req)
  <2> HIDE DEF U, w, cols, req
  <2>1. c \notin cols /\ c \notin req
    BY DEF cols, req
  <2> QED
    BY <1>1, <2>1, ColumnAdded DEF w
<1>6. Fits(k, U)
  <2>1. HasChanged(U, T, t, w)
    BY <1>1, TableChanges
  <2>2. IsTable(w, ColumnsOf(k, t), RequiredOf(k, t))
    <3> HIDE DEF U, w
    <3> QED BY <1>5
  <2>3. t # "analytics_config" /\ k # 19 /\ k \in 1..19
    BY DEF Telling
  <2> HIDE DEF U, w
  <2> QED
    BY <2>1, <2>2, <2>3, FitsAltered
<1> QED
  BY <1>3, <1>4, <1>6

-----------------------------------------------------------------------------
(* The migrations, one by one                                                *)

\* Migration k leads from tables of version k - 1 to tables of version k, without losing
\* what they tell.
Leads(k) ==
  \A T, st, ch : Fits(k - 1, T) /\ Tells(T, st, ch) =>
    \E U : Run(After(T), migrations[k]) = After(U) /\ Fits(k, U) /\ Tells(U, st, ch)

\* The migrations that create a table, then those that add a column.
LEMMA Migration04 == Leads(4)
<1> SUFFICES ASSUME NEW T, NEW st, NEW ch, Fits(4 - 1, T), Tells(T, st, ch)
             PROVE  \E U : Run(After(T), migrations[4]) = After(U) /\ Fits(4, U) /\ Tells(U, st, ch)
  BY DEF Leads
<1> DEFINE k == 4
           t == "created_invoices"
           req == {"hash", "invoice"}
           opt == Nulls({"id"})
<1>1. migrations[4] = <<CreateTable(t, req, opt)>>
  BY DEF migrations, CreatedInvoices04
<1>2. k \in 1..18 /\ k # 10 /\ Altered(k) = {}
  BY DEF Altered
<1>3. t \in AllTables /\ t # "analytics_config" /\ \A u \in AllTables : Created(u) = k <=> u = t
  BY DEF AllTables, Created
<1>4. req \cap DOMAIN opt = {} /\ \A c \in DOMAIN opt : opt[c] # Required
  BY Marks DEF Nulls
<1>5. ColumnsOf(k, t) = req \cup DOMAIN opt /\ RequiredOf(k, t) = req
  BY DEF ColumnsOf, RequiredOf, Nulls, InvoiceColumns
<1>6. Fits(k - 1, T)
  OBVIOUS
<1> HIDE DEF k, t, req, opt
<1>7. \E U : Run(After(T), <<CreateTable(t, req, opt)>>) = After(U) /\ Fits(k, U) /\ Tells(U, st, ch)
  BY <1>2, <1>3, <1>4, <1>5, <1>6, CreateMigration
<1> QED
  BY <1>1, <1>7 DEF k

LEMMA Migration05 == Leads(5)
<1> SUFFICES ASSUME NEW T, NEW st, NEW ch, Fits(5 - 1, T), Tells(T, st, ch)
             PROVE  \E U : Run(After(T), migrations[5]) = After(U) /\ Fits(5, U) /\ Tells(U, st, ch)
  BY DEF Leads
<1> DEFINE k == 5
           t == "fiat_topup_info"
           req == TopupColumns
           opt == Nulls({})
<1>1. migrations[5] = <<CreateTable(t, req, opt)>>
  BY DEF migrations, FiatTopupInfo05, TopupColumns
<1>2. k \in 1..18 /\ k # 10 /\ Altered(k) = {}
  BY DEF Altered
<1>3. t \in AllTables /\ t # "analytics_config" /\ \A u \in AllTables : Created(u) = k <=> u = t
  BY DEF AllTables, Created
<1>4. req \cap DOMAIN opt = {} /\ \A c \in DOMAIN opt : opt[c] # Required
  BY Marks DEF Nulls, TopupColumns
<1>5. ColumnsOf(k, t) = req \cup DOMAIN opt /\ RequiredOf(k, t) = req
  BY DEF ColumnsOf, RequiredOf, Nulls, TopupColumns
<1>6. Fits(k - 1, T)
  OBVIOUS
<1> HIDE DEF k, t, req, opt
<1>7. \E U : Run(After(T), <<CreateTable(t, req, opt)>>) = After(U) /\ Fits(k, U) /\ Tells(U, st, ch)
  BY <1>2, <1>3, <1>4, <1>5, <1>6, CreateMigration
<1> QED
  BY <1>1, <1>7 DEF k

LEMMA Migration11 == Leads(11)
<1> SUFFICES ASSUME NEW T, NEW st, NEW ch, Fits(11 - 1, T), Tells(T, st, ch)
             PROVE  \E U : Run(After(T), migrations[11]) = After(U) /\ Fits(11, U) /\ Tells(U, st, ch)
  BY DEF Leads
<1> DEFINE k == 11
           t == "webhook_base_url"
           req == {"url"}
           opt == Stamped
<1>1. migrations[11] = <<CreateTable(t, req, opt)>>
  BY DEF migrations, Webhook11
<1>2. k \in 1..18 /\ k # 10 /\ Altered(k) = {}
  BY DEF Altered
<1>3. t \in AllTables /\ t # "analytics_config" /\ \A u \in AllTables : Created(u) = k <=> u = t
  BY DEF AllTables, Created
<1>4. req \cap DOMAIN opt = {} /\ \A c \in DOMAIN opt : opt[c] # Required
  BY Marks DEF Stamped
<1>5. ColumnsOf(k, t) = req \cup DOMAIN opt /\ RequiredOf(k, t) = req
  BY DEF ColumnsOf, RequiredOf, Stamped
<1>6. Fits(k - 1, T)
  OBVIOUS
<1> HIDE DEF k, t, req, opt
<1>7. \E U : Run(After(T), <<CreateTable(t, req, opt)>>) = After(U) /\ Fits(k, U) /\ Tells(U, st, ch)
  BY <1>2, <1>3, <1>4, <1>5, <1>6, CreateMigration
<1> QED
  BY <1>1, <1>7 DEF k

LEMMA Migration12 == Leads(12)
<1> SUFFICES ASSUME NEW T, NEW st, NEW ch, Fits(12 - 1, T), Tells(T, st, ch)
             PROVE  \E U : Run(After(T), migrations[12]) = After(U) /\ Fits(12, U) /\ Tells(U, st, ch)
  BY DEF Leads
<1> DEFINE k == 12
           t == "lightning_addresses"
           req == {"address"}
           opt == [registered_at |-> Now]
<1>1. migrations[12] = <<CreateTable(t, req, opt)>>
  BY DEF migrations, LightningAddresses12
<1>2. k \in 1..18 /\ k # 10 /\ Altered(k) = {}
  BY DEF Altered
<1>3. t \in AllTables /\ t # "analytics_config" /\ \A u \in AllTables : Created(u) = k <=> u = t
  BY DEF AllTables, Created
<1>4. req \cap DOMAIN opt = {} /\ \A c \in DOMAIN opt : opt[c] # Required
  BY Marks
<1>5. ColumnsOf(k, t) = req \cup DOMAIN opt /\ RequiredOf(k, t) = req
  BY DEF ColumnsOf, RequiredOf, AddressColumns
<1>6. Fits(k - 1, T)
  OBVIOUS
<1> HIDE DEF k, t, req, opt
<1>7. \E U : Run(After(T), <<CreateTable(t, req, opt)>>) = After(U) /\ Fits(k, U) /\ Tells(U, st, ch)
  BY <1>2, <1>3, <1>4, <1>5, <1>6, CreateMigration
<1> QED
  BY <1>1, <1>7 DEF k

LEMMA Migration16 == Leads(16)
<1> SUFFICES ASSUME NEW T, NEW st, NEW ch, Fits(16 - 1, T), Tells(T, st, ch)
             PROVE  \E U : Run(After(T), migrations[16]) = After(U) /\ Fits(16, U) /\ Tells(U, st, ch)
  BY DEF Leads
<1> DEFINE k == 16
           t == "hidden_channel_close_amount"
           req == {"amount_sat"}
           opt == [id |-> Null, inserted_at |-> Now]
<1>1. migrations[16] = <<CreateTable(t, req, opt)>>
  BY DEF migrations, HiddenChannelCloses16
<1>2. k \in 1..18 /\ k # 10 /\ Altered(k) = {}
  BY DEF Altered
<1>3. t \in AllTables /\ t # "analytics_config" /\ \A u \in AllTables : Created(u) = k <=> u = t
  BY DEF AllTables, Created
<1>4. req \cap DOMAIN opt = {} /\ \A c \in DOMAIN opt : opt[c] # Required
  BY Marks
<1>5. ColumnsOf(k, t) = req \cup DOMAIN opt /\ RequiredOf(k, t) = req
  BY DEF ColumnsOf, RequiredOf
<1>6. Fits(k - 1, T)
  OBVIOUS
<1> HIDE DEF k, t, req, opt
<1>7. \E U : Run(After(T), <<CreateTable(t, req, opt)>>) = After(U) /\ Fits(k, U) /\ Tells(U, st, ch)
  BY <1>2, <1>3, <1>4, <1>5, <1>6, CreateMigration
<1> QED
  BY <1>1, <1>7 DEF k

LEMMA Migration17 == Leads(17)
<1> SUFFICES ASSUME NEW T, NEW st, NEW ch, Fits(17 - 1, T), Tells(T, st, ch)
             PROVE  \E U : Run(After(T), migrations[17]) = After(U) /\ Fits(17, U) /\ Tells(U, st, ch)
  BY DEF Leads
<1> DEFINE k == 17
           t == "hidden_failed_swaps"
           req == {"swap_address"}
           opt == [id |-> Null, inserted_at |-> Now]
<1>1. migrations[17] = <<CreateTable(t, req, opt)>>
  BY DEF migrations, HiddenFailedSwaps17
<1>2. k \in 1..18 /\ k # 10 /\ Altered(k) = {}
  BY DEF Altered
<1>3. t \in AllTables /\ t # "analytics_config" /\ \A u \in AllTables : Created(u) = k <=> u = t
  BY DEF AllTables, Created
<1>4. req \cap DOMAIN opt = {} /\ \A c \in DOMAIN opt : opt[c] # Required
  BY Marks
<1>5. ColumnsOf(k, t) = req \cup DOMAIN opt /\ RequiredOf(k, t) = req
  BY DEF ColumnsOf, RequiredOf
<1>6. Fits(k - 1, T)
  OBVIOUS
<1> HIDE DEF k, t, req, opt
<1>7. \E U : Run(After(T), <<CreateTable(t, req, opt)>>) = After(U) /\ Fits(k, U) /\ Tells(U, st, ch)
  BY <1>2, <1>3, <1>4, <1>5, <1>6, CreateMigration
<1> QED
  BY <1>1, <1>7 DEF k

LEMMA Migration18 == Leads(18)
<1> SUFFICES ASSUME NEW T, NEW st, NEW ch, Fits(18 - 1, T), Tells(T, st, ch)
             PROVE  \E U : Run(After(T), migrations[18]) = After(U) /\ Fits(18, U) /\ Tells(U, st, ch)
  BY DEF Leads
<1> DEFINE k == 18
           t == "fiat_currency"
           req == {"fiat_currency"}
           opt == [id |-> Null, inserter_at |-> Now]
<1>1. migrations[18] = <<CreateTable(t, req, opt)>>
  BY DEF migrations, FiatCurrency18
<1>2. k \in 1..18 /\ k # 10 /\ Altered(k) = {}
  BY DEF Altered
<1>3. t \in AllTables /\ t # "analytics_config" /\ \A u \in AllTables : Created(u) = k <=> u = t
  BY DEF AllTables, Created
<1>4. req \cap DOMAIN opt = {} /\ \A c \in DOMAIN opt : opt[c] # Required
  BY Marks
<1>5. ColumnsOf(k, t) = req \cup DOMAIN opt /\ RequiredOf(k, t) = req
  BY DEF ColumnsOf, RequiredOf
<1>6. Fits(k - 1, T)
  OBVIOUS
<1> HIDE DEF k, t, req, opt
<1>7. \E U : Run(After(T), <<CreateTable(t, req, opt)>>) = After(U) /\ Fits(k, U) /\ Tells(U, st, ch)
  BY <1>2, <1>3, <1>4, <1>5, <1>6, CreateMigration
<1> QED
  BY <1>1, <1>7 DEF k

LEMMA Migration03 == Leads(3)
<1> SUFFICES ASSUME NEW T, NEW st, NEW ch, Fits(3 - 1, T), Tells(T, st, ch)
             PROVE  \E U : Run(After(T), migrations[3]) = After(U) /\ Fits(3, U) /\ Tells(U, st, ch)
  BY DEF Leads
<1> DEFINE k == 3
           t == "offers"
           c == "error"
           d == Null
<1>1. migrations[3] = <<AddColumn(t, c, d)>>
  BY DEF migrations, OfferErrorMessage03
<1>2. k \in 1..18 /\ \A u \in AllTables : Created(u) # k
  BY DEF AllTables, Created
<1>3. t \in TablesAt(k - 1) /\ \A u \in Altered(k) : u = t
  BY DEF TablesAt, AllTables, Created, Altered
<1>4. /\ c \notin ColumnsOf(k - 1, t) /\ c \notin RequiredOf(k - 1, t)
      /\ RequiredOf(k, t) = RequiredOf(k - 1, t)
  BY DEF ColumnsOf, RequiredOf, OfferColumns
<1>5. ColumnsOf(k, t) = ColumnsOf(k - 1, t) \cup {c}
  BY DEF ColumnsOf, OfferColumns
<1>6. d # Required
  BY Marks
<1>7. \/ t \in {"payments", "offers"} /\ d = Null
      \/ t = "lightning_addresses" /\ c = "enable_status" /\ d = Zero
      \/ t \notin Telling
  BY DEF Telling
<1>8. Fits(k - 1, T)
  OBVIOUS
<1> HIDE DEF k, t, c, d
<1>9. \E U : Run(After(T), <<AddColumn(t, c, d)>>) = After(U) /\ Fits(k, U) /\ Tells(U, st, ch)
  BY <1>2, <1>3, <1>4, <1>5, <1>6, <1>7, <1>8, ColumnMigration
<1> QED
  BY <1>1, <1>9 DEF k

LEMMA Migration06 == Leads(6)
<1> SUFFICES ASSUME NEW T, NEW st, NEW ch, Fits(6 - 1, T), Tells(T, st, ch)
             PROVE  \E U : Run(After(T), migrations[6]) = After(U) /\ Fits(6, U) /\ Tells(U, st, ch)
  BY DEF Leads
<1> DEFINE k == 6
           t == "created_invoices"
           c == "channel_opening_fees"
           d == Null
<1>1. migrations[6] = <<AddColumn(t, c, d)>>
  BY DEF migrations, OpeningFees06
<1>2. k \in 1..18 /\ \A u \in AllTables : Created(u) # k
  BY DEF AllTables, Created
<1>3. t \in TablesAt(k - 1) /\ \A u \in Altered(k) : u = t
  BY DEF TablesAt, AllTables, Created, Altered
<1>4. /\ c \notin ColumnsOf(k - 1, t) /\ c \notin RequiredOf(k - 1, t)
      /\ RequiredOf(k, t) = RequiredOf(k - 1, t)
  BY DEF ColumnsOf, RequiredOf, InvoiceColumns
<1>5. ColumnsOf(k, t) = ColumnsOf(k - 1, t) \cup {c}
  BY DEF ColumnsOf, InvoiceColumns
<1>6. d # Required
  BY Marks
<1>7. \/ t \in {"payments", "offers"} /\ d = Null
      \/ t = "lightning_addresses" /\ c = "enable_status" /\ d = Zero
      \/ t \notin Telling
  BY DEF Telling
<1>8. Fits(k - 1, T)
  OBVIOUS
<1> HIDE DEF k, t, c, d
<1>9. \E U : Run(After(T), <<AddColumn(t, c, d)>>) = After(U) /\ Fits(k, U) /\ Tells(U, st, ch)
  BY <1>2, <1>3, <1>4, <1>5, <1>6, <1>7, <1>8, ColumnMigration
<1> QED
  BY <1>1, <1>9 DEF k

LEMMA Migration08 == Leads(8)
<1> SUFFICES ASSUME NEW T, NEW st, NEW ch, Fits(8 - 1, T), Tells(T, st, ch)
             PROVE  \E U : Run(After(T), migrations[8]) = After(U) /\ Fits(8, U) /\ Tells(U, st, ch)
  BY DEF Leads
<1> DEFINE k == 8
           t == "offers"
           c == "topup_value_sats"
           d == Null
<1>1. migrations[8] = <<AddColumn(t, c, d)>>
  BY DEF migrations, TopupValue08
<1>2. k \in 1..18 /\ \A u \in AllTables : Created(u) # k
  BY DEF AllTables, Created
<1>3. t \in TablesAt(k - 1) /\ \A u \in Altered(k) : u = t
  BY DEF TablesAt, AllTables, Created, Altered
<1>4. /\ c \notin ColumnsOf(k - 1, t) /\ c \notin RequiredOf(k - 1, t)
      /\ RequiredOf(k, t) = RequiredOf(k - 1, t)
  BY DEF ColumnsOf, RequiredOf, OfferColumns
<1>5. ColumnsOf(k, t) = ColumnsOf(k - 1, t) \cup {c}
  BY DEF ColumnsOf, OfferColumns
<1>6. d # Required
  BY Marks
<1>7. \/ t \in {"payments", "offers"} /\ d = Null
      \/ t = "lightning_addresses" /\ c = "enable_status" /\ d = Zero
      \/ t \notin Telling
  BY DEF Telling
<1>8. Fits(k - 1, T)
  OBVIOUS
<1> HIDE DEF k, t, c, d
<1>9. \E U : Run(After(T), <<AddColumn(t, c, d)>>) = After(U) /\ Fits(k, U) /\ Tells(U, st, ch)
  BY <1>2, <1>3, <1>4, <1>5, <1>6, <1>7, <1>8, ColumnMigration
<1> QED
  BY <1>1, <1>9 DEF k

LEMMA Migration09 == Leads(9)
<1> SUFFICES ASSUME NEW T, NEW st, NEW ch, Fits(9 - 1, T), Tells(T, st, ch)
             PROVE  \E U : Run(After(T), migrations[9]) = After(U) /\ Fits(9, U) /\ Tells(U, st, ch)
  BY DEF Leads
<1> DEFINE k == 9
           t == "created_invoices"
           c == "invoice_expiry_timestamp"
           d == Zero
<1>1. migrations[9] = <<AddColumn(t, c, d)>>
  BY DEF migrations, InvoiceExpiry09
<1>2. k \in 1..18 /\ \A u \in AllTables : Created(u) # k
  BY DEF AllTables, Created
<1>3. t \in TablesAt(k - 1) /\ \A u \in Altered(k) : u = t
  BY DEF TablesAt, AllTables, Created, Altered
<1>4. /\ c \notin ColumnsOf(k - 1, t) /\ c \notin RequiredOf(k - 1, t)
      /\ RequiredOf(k, t) = RequiredOf(k - 1, t)
  BY DEF ColumnsOf, RequiredOf, InvoiceColumns
<1>5. ColumnsOf(k, t) = ColumnsOf(k - 1, t) \cup {c}
  BY DEF ColumnsOf, InvoiceColumns
<1>6. d # Required
  BY Marks
<1>7. \/ t \in {"payments", "offers"} /\ d = Null
      \/ t = "lightning_addresses" /\ c = "enable_status" /\ d = Zero
      \/ t \notin Telling
  BY DEF Telling
<1>8. Fits(k - 1, T)
  OBVIOUS
<1> HIDE DEF k, t, c, d
<1>9. \E U : Run(After(T), <<AddColumn(t, c, d)>>) = After(U) /\ Fits(k, U) /\ Tells(U, st, ch)
  BY <1>2, <1>3, <1>4, <1>5, <1>6, <1>7, <1>8, ColumnMigration
<1> QED
  BY <1>1, <1>9 DEF k

LEMMA Migration13 == Leads(13)
<1> SUFFICES ASSUME NEW T, NEW st, NEW ch, Fits(13 - 1, T), Tells(T, st, ch)
             PROVE  \E U : Run(After(T), migrations[13]) = After(U) /\ Fits(13, U) /\ Tells(U, st, ch)
  BY DEF Leads
<1> DEFINE k == 13
           t == "payments"
           c == "personal_note"
           d == Null
<1>1. migrations[13] = <<AddColumn(t, c, d)>>
  BY DEF migrations, PersonalNote13
<1>2. k \in 1..18 /\ \A u \in AllTables : Created(u) # k
  BY DEF AllTables, Created
<1>3. t \in TablesAt(k - 1) /\ \A u \in Altered(k) : u = t
  BY DEF TablesAt, AllTables, Created, Altered
<1>4. /\ c \notin ColumnsOf(k - 1, t) /\ c \notin RequiredOf(k - 1, t)
      /\ RequiredOf(k, t) = RequiredOf(k - 1, t)
  BY DEF ColumnsOf, RequiredOf, PaymentColumns
<1>5. ColumnsOf(k, t) = ColumnsOf(k - 1, t) \cup {c}
  BY DEF ColumnsOf, PaymentColumns
<1>6. d # Required
  BY Marks
<1>7. \/ t \in {"payments", "offers"} /\ d = Null
      \/ t = "lightning_addresses" /\ c = "enable_status" /\ d = Zero
      \/ t \notin Telling
  BY DEF Telling
<1>8. Fits(k - 1, T)
  OBVIOUS
<1> HIDE DEF k, t, c, d
<1>9. \E U : Run(After(T), <<AddColumn(t, c, d)>>) = After(U) /\ Fits(k, U) /\ Tells(U, st, ch)
  BY <1>2, <1>3, <1>4, <1>5, <1>6, <1>7, <1>8, ColumnMigration
<1> QED
  BY <1>1, <1>9 DEF k

LEMMA Migration15 == Leads(15)
<1> SUFFICES ASSUME NEW T, NEW st, NEW ch, Fits(15 - 1, T), Tells(T, st, ch)
             PROVE  \E U : Run(After(T), migrations[15]) = After(U) /\ Fits(15, U) /\ Tells(U, st, ch)
  BY DEF Leads
<1> DEFINE k == 15
           t == "lightning_addresses"
           c == "enable_status"
           d == Zero
<1>1. migrations[15] = <<AddColumn(t, c, d)>>
  BY DEF migrations, EnableStatus15
<1>2. k \in 1..18 /\ \A u \in AllTables : Created(u) # k
  BY DEF AllTables, Created
<1>3. t \in TablesAt(k - 1) /\ \A u \in Altered(k) : u = t
  BY DEF TablesAt, AllTables, Created, Altered
<1>4. /\ c \notin ColumnsOf(k - 1, t) /\ c \notin RequiredOf(k - 1, t)
      /\ RequiredOf(k, t) = RequiredOf(k - 1, t)
  BY DEF ColumnsOf, RequiredOf, AddressColumns
<1>5. ColumnsOf(k, t) = ColumnsOf(k - 1, t) \cup {c}
  BY DEF ColumnsOf, AddressColumns
<1>6. d # Required
  BY Marks
<1>7. \/ t \in {"payments", "offers"} /\ d = Null
      \/ t = "lightning_addresses" /\ c = "enable_status" /\ d = Zero
      \/ t \notin Telling
  BY DEF Telling
<1>8. Fits(k - 1, T)
  OBVIOUS
<1> HIDE DEF k, t, c, d
<1>9. \E U : Run(After(T), <<AddColumn(t, c, d)>>) = After(U) /\ Fits(k, U) /\ Tells(U, st, ch)
  BY <1>2, <1>3, <1>4, <1>5, <1>6, <1>7, <1>8, ColumnMigration
<1> QED
  BY <1>1, <1>9 DEF k

\* A row inserted into a new table, or into one that is there.
LEMMA SingleRow ==
  ASSUME NEW row
  PROVE  IsSeq(<<row>>) /\ \A i \in DOMAIN <<row>> : <<row>>[i] = row
<1>1. <<row>> \in Seq({row})
  OBVIOUS
<1>2. IsSeq(<<row>>)
  BY <1>1, SeqIs
<1>3. \A i \in DOMAIN <<row>> : <<row>>[i] = row
  OBVIOUS
<1> QED
  BY <1>2, <1>3

\* INSERT of one row.
LEMMA InsertsRow ==
  ASSUME NEW T, NEW t \in DOMAIN T, NEW cols, NEW req, req \subseteq cols, IsTable(T[t], cols, req),
         NEW row, DOMAIN row \subseteq cols, \A c \in req : c \in DOMAIN row /\ row[c] # Null
  PROVE  LET table == WithRows(T[t], <<row>>)
         IN  /\ Execute(After(T), Insert(t, row)) = After([T EXCEPT ![t] = table])
             /\ HasChanged([T EXCEPT ![t] = table], T, t, table)
             /\ IsTable(table, cols, req)
             /\ HasMoreRows(table, T[t], <<row>>)
<1> DEFINE old == T[t]
           table == WithRows(old, <<row>>)
<1>1. Execute(After(T), Insert(t, row)) = After([T EXCEPT ![t] = table])
  BY Inserts
<1>2. HasChanged([T EXCEPT ![t] = table], T, t, table)
  BY TableChanges
<1>3. IsTable(old, cols, req)
  OBVIOUS
<1>4. IsSeq(<<row>>) /\ \A i \in DOMAIN <<row>> : DOMAIN <<row>>[i] \subseteq cols
  BY SingleRow
<1>5. IsTable(table, cols, req) /\ HasMoreRows(table, old, <<row>>)
  <2> HIDE DEF old
  <2> QED BY <1>3, <1>4, RowsAdded
<1> QED
  BY <1>1, <1>2, <1>5

HasRow(w, table, row) ==
  /\ w.default = table.default
  /\ DOMAIN w.rows = 1..(Len(table.rows) + 1)
  /\ Len(table.rows) \in Nat
  /\ DOMAIN table.rows = 1..Len(table.rows)
  /\ Len(w.rows) = Len(table.rows) + 1
  /\ \A i \in 1..Len(table.rows) : w.rows[i] = table.rows[i]
  /\ w.rows[Len(table.rows) + 1] = Over(row, table.default)

\* The table has one more row, at the end.
LEMMA OneMore ==
  ASSUME NEW table, NEW cols, NEW req, IsTable(table, cols, req),
         NEW w, IsTable(w, cols, req), NEW row, HasMoreRows(w, table, <<row>>)
  PROVE  HasRow(w, table, row)
<1>1. IsSeq(w.rows) /\ IsSeq(table.rows)
  BY DEF IsTable
<1>2. /\ Len(w.rows) \in Nat /\ DOMAIN w.rows = 1..Len(w.rows)
      /\ Len(table.rows) \in Nat /\ DOMAIN table.rows = 1..Len(table.rows)
  BY <1>1, SeqIs
<1>3. /\ w.default = table.default
      /\ Len(w.rows) = Len(table.rows) + 1
      /\ \A i \in 1..Len(table.rows) : w.rows[i] = table.rows[i]
      /\ w.rows[Len(table.rows) + 1] = Over(row, table.default)
  <2>1. Len(<<row>>) = 1 /\ <<row>>[1] = row /\ 1 \in 1..1
    OBVIOUS
  <2> QED BY <2>1 DEF HasMoreRows
<1>4. DOMAIN w.rows = 1..(Len(table.rows) + 1)
  BY <1>2, <1>3
<1> QED
  BY <1>2, <1>3, <1>4 DEF HasRow

\* A table with one row, of which the statement gave these columns.
IsRowOf(table, req, row) ==
  Len(table.rows) = 1 /\ \A c \in req : table.rows[1][c] = row[c]

\* A migration that creates a table and puts a row into it.
LEMMA CreatesAndInserts ==
  ASSUME NEW T, NEW t, t \notin DOMAIN T,
         NEW req, NEW opt, req \cap DOMAIN opt = {}, \A c \in DOMAIN opt : opt[c] # Required,
         NEW row, DOMAIN row = req, \A c \in req : row[c] # Null
  PROVE  \E U, table :
           /\ Run(After(T), <<CreateTable(t, req, opt), Insert(t, row)>>) = After(U)
           /\ HasTable(U, T, t, table)
           /\ IsTable(table, req \cup DOMAIN opt, req)
           /\ IsRowOf(table, req, row)
<1> DEFINE new == NewTable(req, opt)
           V == WithTable(T, t, new)
           table == WithRows(V[t], <<row>>)
           U == [V EXCEPT ![t] = table]
           cols == req \cup DOMAIN opt
<1>1. Execute(After(T), CreateTable(t, req, opt)) = After(V)
  BY Creates DEF NewTable, WithTable
<1>2. IsTable(new, cols, req) /\ new.rows = <<>>
  BY NewTableIs
<1>3. HasTable(V, T, t, new)
  BY TableIsNew
<1> HIDE DEF new
<1>4. t \in DOMAIN V /\ V[t] = new
  BY <1>3 DEF HasTable
<1>5. IsTable(V[t], cols, req) /\ V[t].rows = <<>> /\ req \subseteq cols /\ DOMAIN row \subseteq cols
  BY <1>2, <1>4
<1>6. /\ Execute(After(V), Insert(t, row)) = After(U)
      /\ HasChanged(U, V, t, table)
      /\ IsTable(table, cols, req)
      /\ HasMoreRows(table, V[t], <<row>>)
  <2> HIDE DEF V, cols
  <2> QED BY <1>4, <1>5, InsertsRow
<1>7. Run(After(T), <<CreateTable(t, req, opt), Insert(t, row)>>) = After(U)
  BY <1>1, <1>6, RunTwo
<1> HIDE DEF U, table, V
<1>8. HasTable(U, T, t, table)
  BY <1>3, <1>6 DEF HasTable, HasChanged
<1>9. HasRow(table, V[t], row)
  <2> HIDE DEF cols
  <2> DEFINE old == V[t]
  <2>1. IsTable(old, cols, req) /\ IsTable(table, cols, req) /\ HasMoreRows(table, old, <<row>>)
    BY <1>5, <1>6
  <2> HIDE DEF old
  <2>2. HasRow(table, old, row)
    BY <2>1, OneMore
  <2> QED BY <2>2 DEF old
<1>10. Len(table.rows) = 1 /\ table.rows[1] = Over(row, V[t].default)
  BY <1>5, <1>9 DEF HasRow
<1>11. IsRowOf(table, req, row)
  BY <1>10 DEF Over, IsRowOf
<1> QED
  BY <1>6, <1>7, <1>8, <1>11

\* The migrations that insert.
LEMMA Migration02 == Leads(2)
<1> SUFFICES ASSUME NEW T, NEW st, NEW ch, Fits(2 - 1, T), Tells(T, st, ch)
             PROVE  \E U : Run(After(T), migrations[2]) = After(U) /\ Fits(2, U) /\ Tells(U, st, ch)
  BY DEF Leads
<1> DEFINE k == 2
           t == "funds_migration_status"
           req == {"status"}
           opt == Stamped
           row == [status |-> Zero]
<1>1. migrations[2] = <<CreateTable(t, req, opt), Insert(t, row)>>
  BY DEF migrations, FundsMigrationStatus02
<1>2. k \in 1..18 /\ k # 10 /\ Altered(k) = {}
  BY DEF Altered
<1>3. t \in AllTables /\ t # "analytics_config" /\ \A u \in AllTables : Created(u) = k <=> u = t
  BY DEF AllTables, Created
<1>4. /\ req \cap DOMAIN opt = {} /\ \A c \in DOMAIN opt : opt[c] # Required
      /\ DOMAIN row = req /\ \A c \in req : row[c] # Null
  BY Marks DEF Stamped
<1>5. ColumnsOf(k, t) = req \cup DOMAIN opt /\ RequiredOf(k, t) = req
  BY DEF ColumnsOf, RequiredOf, Stamped
<1>6. Fits(k - 1, T) /\ t \notin DOMAIN T /\ t \notin Telling
  <2>1. t \notin TablesAt(1)
    BY DEF TablesAt, AllTables, Created
  <2> QED
    BY <2>1 DEF Fits, Telling
<1> HIDE DEF k, t, req, opt, row
<1>7. PICK U, table :
           /\ Run(After(T), <<CreateTable(t, req, opt), Insert(t, row)>>) = After(U)
           /\ HasTable(U, T, t, table)
           /\ IsTable(table, req \cup DOMAIN opt, req)
           /\ IsRowOf(table, req, row)
  BY <1>4, <1>6, CreatesAndInserts
<1>8. Fits(k, U)
  <2>1. IsTable(table, ColumnsOf(k, t), RequiredOf(k, t))
    BY <1>5, <1>7
  <2> QED
    BY <1>2, <1>3, <1>6, <1>7, <2>1, FitsWithTable
<1>9. Tells(U, st, ch)
  <2>1. \A u \in Telling : RowsOf(U, u) = RowsOf(T, u)
    BY <1>6, <1>7 DEF HasTable, RowsOf
  <2> QED
    BY <2>1, SameRowsTell
<1> QED
  BY <1>1, <1>7, <1>8, <1>9 DEF k

LEMMA Migration10 == Leads(10)
<1> SUFFICES ASSUME NEW T, NEW st, NEW ch, Fits(10 - 1, T), Tells(T, st, ch)
             PROVE  \E U : Run(After(T), migrations[10]) = After(U) /\ Fits(10, U) /\ Tells(U, st, ch)
  BY DEF Leads
<1> DEFINE k == 10
           t == "analytics_config"
           req == {"status"}
           opt == Stamped
           row == [status |-> Zero]
<1>1. migrations[10] = <<CreateTable(t, req, opt), Insert(t, row)>>
  BY DEF migrations, AnalyticsConfig10
<1>2. k \in 1..18 /\ Altered(k) = {}
  BY DEF Altered
<1>3. t \in AllTables /\ t = "analytics_config" /\ \A u \in AllTables : Created(u) = k <=> u = t
  BY DEF AllTables, Created
<1>4. /\ req \cap DOMAIN opt = {} /\ \A c \in DOMAIN opt : opt[c] # Required
      /\ DOMAIN row = req /\ \A c \in req : row[c] # Null
  BY Marks DEF Stamped
<1>5. ColumnsOf(k, t) = req \cup DOMAIN opt /\ RequiredOf(k, t) = req
  BY DEF ColumnsOf, RequiredOf, Stamped
<1>6. Fits(k - 1, T) /\ t \notin DOMAIN T
  <2>1. t \notin TablesAt(9)
    BY DEF TablesAt, AllTables, Created
  <2> QED
    BY <2>1 DEF Fits
<1>a. "status" \in req /\ row["status"] = Zero
  OBVIOUS
<1> HIDE DEF k, t, req, opt, row
<1>7. PICK U, table :
           /\ Run(After(T), <<CreateTable(t, req, opt), Insert(t, row)>>) = After(U)
           /\ HasTable(U, T, t, table)
           /\ IsTable(table, req \cup DOMAIN opt, req)
           /\ IsRowOf(table, req, row)
  BY <1>4, <1>6, CreatesAndInserts
<1>b. table.rows # <<>>
  BY <1>7 DEF IsRowOf
<1>8. Fits(k, U)
  <2>1. IsTable(table, ColumnsOf(k, t), RequiredOf(k, t))
    BY <1>5, <1>7
  <2> QED
    BY <1>2, <1>3, <1>6, <1>7, <1>b, <2>1, FitsWithTable
<1>9. Tells(U, st, ch)
  <2>1. \A u \in Telling : u # t => RowsOf(U, u) = RowsOf(T, u)
    BY <1>6, <1>7 DEF HasTable, RowsOf
  <2>2. RowsOf(U, t) = table.rows /\ RowsOf(T, t) = <<>>
    BY <1>6, <1>7 DEF HasTable, RowsOf
  <2>3. ch.analytics = Zero
    BY <1>3, <2>2 DEF Tells, AnalyticsTell
  <2>4. Cell(table.rows[1], "status") = Zero
    <3>1. IsSeq(table.rows) /\ 1 \in DOMAIN table.rows
      <4>1. IsSeq(table.rows)
        BY <1>7 DEF IsTable
      <4>2. DOMAIN table.rows = 1..1
        BY <1>7, <4>1, SeqIs DEF IsRowOf
      <4> QED BY <4>1, <4>2
    <3>2. DOMAIN table.rows[1] = req \cup DOMAIN opt
      BY <1>7, <3>1 DEF IsTable
    <3>3. table.rows[1]["status"] = Zero
      BY <1>7, <1>a DEF IsRowOf
    <3> QED
      BY <1>a, <3>2, <3>3 DEF Cell
  <2>5. AnalyticsTell(RowsOf(U, t), ch)
    BY <1>7, <1>b, <2>2, <2>3, <2>4 DEF AnalyticsTell, IsRowOf
  <2> QED
    BY <1>3, <2>1, <2>5 DEF Tells, Telling
<1> QED
  BY <1>1, <1>7, <1>8, <1>9 DEF k

LEMMA Migration07 == Leads(7)
<1> SUFFICES ASSUME NEW T, NEW st, NEW ch, Fits(7 - 1, T), Tells(T, st, ch)
             PROVE  \E U : Run(After(T), migrations[7]) = After(U) /\ Fits(7, U) /\ Tells(U, st, ch)
  BY DEF Leads
<1> DEFINE k == 7
           t == "funds_migration_status"
           cols == ColumnsOf(k - 1, t)
           req == RequiredOf(k - 1, t)
           row == [status |-> Zero]
<1>1. migrations[7] = <<Insert(t, row)>>
  BY DEF migrations, ResetFundsMigration07
<1>2. k \in 1..19 /\ k # 19 /\ (\A u \in AllTables : Created(u) # k) /\ Altered(k) = {}
  BY DEF AllTables, Created, Altered
<1>3. t \in TablesAt(k - 1) /\ t \in AllTables /\ t # "analytics_config" /\ t \notin Telling
  BY DEF TablesAt, AllTables, Created, Telling
<1>4. req \subseteq cols /\ DOMAIN row \subseteq cols /\ \A c \in req : c \in DOMAIN row /\ row[c] # Null
  BY Marks DEF ColumnsOf, RequiredOf
<1>5. Fits(k - 1, T)
  OBVIOUS
<1> HIDE DEF k, t, row
<1>6. t \in DOMAIN T /\ IsTable(T[t], cols, req)
  BY <1>3, <1>5 DEF Fits
<1> DEFINE table == WithRows(T[t], <<row>>)
           U == [T EXCEPT ![t] = table]
<1>7. /\ Execute(After(T), Insert(t, row)) = After(U)
      /\ HasChanged(U, T, t, table)
      /\ IsTable(table, cols, req)
  <2> HIDE DEF cols, req
  <2> QED BY <1>4, <1>6, InsertsRow
<1>8. ColumnsOf(k, t) = cols /\ RequiredOf(k, t) = req
  BY <1>2, <1>3, Unaltered
<1> HIDE DEF U, table, cols, req
<1>9. Fits(k, U)
  BY <1>2, <1>3, <1>5, <1>7, <1>8, FitsAltered
<1>10. Tells(U, st, ch)
  <2>1. \A u \in Telling : RowsOf(U, u) = RowsOf(T, u)
    BY <1>3, <1>7 DEF HasChanged, RowsOf
  <2> QED
    BY <2>1, SameRowsTell
<1>11. Run(After(T), migrations[7]) = After(U)
  BY <1>1, <1>7, RunOne
<1> QED
  BY <1>9, <1>10, <1>11 DEF k

\* What a column adds to a table, statement by statement.
LEMMA AddsColumn ==
  ASSUME NEW T, NEW t \in DOMAIN T, NEW cols, NEW req, IsTable(T[t], cols, req),
         NEW c, c \notin cols, c \notin req, NEW d, d # Required,
         t \in {"payments", "offers"} /\ d = Null,
         NEW st, NEW ch, Tells(T, st, ch)
  PROVE  \E U, w :
           /\ Execute(After(T), AddColumn(t, c, d)) = After(U)
           /\ HasChanged(U, T, t, w)
           /\ IsTable(w, cols \cup {c}, req)
           /\ Tells(U, st, ch)
<1> DEFINE w == Widened(T[t], c, d)
           U == [T EXCEPT ![t] = w]
<1>1. DOMAIN T[t].default = cols
  BY DEF IsTable
<1>2. Execute(After(T), AddColumn(t, c, d)) = After(U)
  BY <1>1, Adds
<1>3. HasChanged(U, T, t, w)
  BY TableChanges
<1>4. IsTable(w, cols \cup {c}, req)
  <2> DEFINE old == T[t]
  <2>1. IsTable(old, cols, req)
    OBVIOUS
  <2> HIDE DEF old
  <2>2. IsTable(Widened(old, c, d), cols \cup {c}, req)
    BY <2>1, ColumnAdded
  <2> QED BY <2>2 DEF old
<1>5. Tells(U, st, ch)
  BY AddedTells
<1> HIDE DEF U, w
<1> QED
  BY <1>2, <1>3, <1>4, <1>5

\* Two changes of one table are one.
LEMMA ChangedTwice ==
  ASSUME NEW T, NEW V, NEW U, NEW t, NEW v, NEW u, HasChanged(V, T, t, v), HasChanged(U, V, t, u)
  PROVE  HasChanged(U, T, t, u)
BY DEF HasChanged

\* The migration that adds two columns.
LEMMA Migration14 == Leads(14)
<1> SUFFICES ASSUME NEW T, NEW st, NEW ch, Fits(14 - 1, T), Tells(T, st, ch)
             PROVE  \E U : Run(After(T), migrations[14]) = After(U) /\ Fits(14, U) /\ Tells(U, st, ch)
  BY DEF Leads
<1> DEFINE k == 14
           t == "payments"
           cols == ColumnsOf(k - 1, t)
           req == RequiredOf(k - 1, t)
           c == "received_on"
           d == "received_lnurl_comment"
<1>1. migrations[14] = <<AddColumn(t, c, Null), AddColumn(t, d, Null)>>
  BY DEF migrations, LnurlPayReceiveData14
<1>2. k \in 1..19 /\ k # 19 /\ (\A u \in AllTables : Created(u) # k) /\ \A u \in Altered(k) : u = t
  BY DEF AllTables, Created, Altered
<1>3. t \in TablesAt(k - 1) /\ t # "analytics_config"
  BY DEF TablesAt, AllTables, Created
<1>4. /\ c \notin cols /\ c \notin req /\ d \notin cols \cup {c} /\ d \notin req
      /\ ColumnsOf(k, t) = cols \cup {c} \cup {d} /\ RequiredOf(k, t) = req
  BY DEF ColumnsOf, RequiredOf, PaymentColumns
<1>5. Fits(k - 1, T) /\ t \in {"payments", "offers"} /\ Null # Required
  BY Marks
<1> HIDE DEF k, t, c, d
<1>6. t \in DOMAIN T /\ IsTable(T[t], cols, req)
  BY <1>3, <1>5 DEF Fits
<1> HIDE DEF cols, req
<1>7. PICK V, v :
        /\ Execute(After(T), AddColumn(t, c, Null)) = After(V)
        /\ HasChanged(V, T, t, v)
        /\ IsTable(v, cols \cup {c}, req)
        /\ Tells(V, st, ch)
  BY <1>4, <1>5, <1>6, AddsColumn
<1>9. t \in DOMAIN V /\ IsTable(V[t], cols \cup {c}, req)
  BY <1>6, <1>7 DEF HasChanged
<1>10. PICK U, u :
        /\ Execute(After(V), AddColumn(t, d, Null)) = After(U)
        /\ HasChanged(U, V, t, u)
        /\ IsTable(u, cols \cup {c} \cup {d}, req)
        /\ Tells(U, st, ch)
  BY <1>4, <1>5, <1>7, <1>9, AddsColumn
<1>12. Fits(k, U)
  <2>1. HasChanged(U, T, t, u)
    BY <1>7, <1>10, ChangedTwice
  <2>2. IsTable(u, ColumnsOf(k, t), RequiredOf(k, t))
    BY <1>4, <1>10
  <2> QED
    BY <1>2, <1>3, <1>5, <2>1, <2>2, FitsAltered
<1>13. Run(After(T), migrations[14]) = After(U)
  BY <1>1, <1>7, <1>10, RunTwo
<1> QED
  BY <1>10, <1>12, <1>13 DEF k

\* What a statement that creates a table does.
Optional(req, opt) == req \cap DOMAIN opt = {} /\ \A c \in DOMAIN opt : opt[c] # Required

\* A table created among others.
LEMMA CreatesTable ==
  ASSUME NEW T, NEW t, t \notin DOMAIN T, NEW req, NEW opt, Optional(req, opt),
         NEW st, NEW ch, Tells(T, st, ch)
  PROVE  \E U, table :
           /\ Execute(After(T), CreateTable(t, req, opt)) = After(U)
           /\ HasTable(U, T, t, table)
           /\ IsTable(table, req \cup DOMAIN opt, req)
           /\ table = NewTable(req, opt)
           /\ Tells(U, st, ch)
<1> DEFINE table == NewTable(req, opt)
           U == WithTable(T, t, table)
<1>1. Execute(After(T), CreateTable(t, req, opt)) = After(U)
  BY Creates DEF NewTable, WithTable
<1>2. IsTable(table, req \cup DOMAIN opt, req) /\ table.rows = <<>>
  BY NewTableIs DEF Optional
<1>3. HasTable(U, T, t, table)
  BY TableIsNew
<1>4. Tells(U, st, ch)
  <2> HIDE DEF table
  <2> QED BY <1>2, CreatedTells
<1> QED
  BY <1>1, <1>2, <1>3, <1>4

\* The first migration.
LEMMA Migration01 == Leads(1)
<1> SUFFICES ASSUME NEW T, NEW st, NEW ch, Fits(1 - 1, T), Tells(T, st, ch)
             PROVE  \E U : Run(After(T), migrations[1]) = After(U) /\ Fits(1, U) /\ Tells(U, st, ch)
  BY DEF Leads
<1> DEFINE t1 == "payments"
           t2 == "exchange_rates_history"
           t3 == "offers"
           t4 == "exchange_rates"
           r1 == {"hash", "timezone_id", "timezone_utc_offset_secs", "fiat_currency"}
           r2 == {"snapshot_id", "fiat_currency", "rate", "updated_at"}
           r3 == {"payment_hash"}
           r4 == {"fiat_currency", "rate"}
           o1 == Nulls({"exchange_rates_history_snaphot_id"})
           o2 == Nulls({"id"})
           o3 == Nulls({"pocket_id", "fiat_currency", "rate", "exchanged_at", "topup_value_minor_units",
                       "exchange_fee_minor_units", "exchange_fee_rate_permyriad"})
           o4 == [updated_at |-> Now]
<1>1. migrations[1] = <<CreateTable(t1, r1, o1), CreateTable(t2, r2, o2), CreateTable(t3, r3, o3),
                        CreateTable(t4, r4, o4)>>
  BY DEF migrations, Init01
<1>2. Optional(r1, o1) /\ Optional(r2, o2) /\ Optional(r3, o3) /\ Optional(r4, o4)
  BY Marks DEF Nulls, Optional
<1>3. /\ ColumnsOf(1, t1) = r1 \cup DOMAIN o1 /\ RequiredOf(1, t1) = r1
      /\ ColumnsOf(1, t2) = r2 \cup DOMAIN o2 /\ RequiredOf(1, t2) = r2
      /\ ColumnsOf(1, t3) = r3 \cup DOMAIN o3 /\ RequiredOf(1, t3) = r3
      /\ ColumnsOf(1, t4) = r4 \cup DOMAIN o4 /\ RequiredOf(1, t4) = r4
  BY DEF ColumnsOf, RequiredOf, Nulls, PaymentColumns, RateColumns, OfferColumns
<1>4. DOMAIN T = {}
  <2>1. TablesAt(0) = {}
    BY DEF TablesAt, AllTables, Created
  <2> QED BY <2>1 DEF Fits
<1>5. TablesAt(1) = {t1, t2, t3, t4}
  BY DEF TablesAt, AllTables, Created
<1>6. t1 # t2 /\ t1 # t3 /\ t1 # t4 /\ t2 # t3 /\ t2 # t4 /\ t3 # t4
  OBVIOUS
<1> HIDE DEF t1, t2, t3, t4, r1, r2, r3, r4, o1, o2, o3, o4
<1>11. PICK T1, x1 :
           /\ Execute(After(T), CreateTable(t1, r1, o1)) = After(T1)
           /\ HasTable(T1, T, t1, x1)
           /\ IsTable(x1, r1 \cup DOMAIN o1, r1)
           /\ x1 = NewTable(r1, o1)
           /\ Tells(T1, st, ch)
  <2>1. t1 \notin DOMAIN T
    BY <1>4
  <2> QED BY <1>2, <2>1, CreatesTable
<1>12. PICK T2, x2 :
           /\ Execute(After(T1), CreateTable(t2, r2, o2)) = After(T2)
           /\ HasTable(T2, T1, t2, x2)
           /\ IsTable(x2, r2 \cup DOMAIN o2, r2)
           /\ x2 = NewTable(r2, o2)
           /\ Tells(T2, st, ch)
  <2>1. t2 \notin DOMAIN T1
    BY <1>4, <1>6, <1>11 DEF HasTable
  <2>2. Optional(r2, o2)
    BY <1>2
  <2>3. Tells(T1, st, ch)
    BY <1>11
  <2> QED BY <2>1, <2>2, <2>3, CreatesTable
<1>13. PICK T3, x3 :
           /\ Execute(After(T2), CreateTable(t3, r3, o3)) = After(T3)
           /\ HasTable(T3, T2, t3, x3)
           /\ IsTable(x3, r3 \cup DOMAIN o3, r3)
           /\ x3 = NewTable(r3, o3)
           /\ Tells(T3, st, ch)
  <2>1. t3 \notin DOMAIN T2
    BY <1>4, <1>6, <1>11, <1>12 DEF HasTable
  <2>2. Optional(r3, o3)
    BY <1>2
  <2>3. Tells(T2, st, ch)
    BY <1>12
  <2> QED BY <2>1, <2>2, <2>3, CreatesTable
<1>14. PICK T4, x4 :
           /\ Execute(After(T3), CreateTable(t4, r4, o4)) = After(T4)
           /\ HasTable(T4, T3, t4, x4)
           /\ IsTable(x4, r4 \cup DOMAIN o4, r4)
           /\ x4 = NewTable(r4, o4)
           /\ Tells(T4, st, ch)
  <2>1. t4 \notin DOMAIN T3
    BY <1>4, <1>6, <1>11, <1>12, <1>13 DEF HasTable
  <2>2. Optional(r4, o4)
    BY <1>2
  <2>3. Tells(T3, st, ch)
    BY <1>13
  <2> QED BY <2>1, <2>2, <2>3, CreatesTable
<1>15. Run(After(T), migrations[1]) = After(T4)
  BY <1>1, <1>11, <1>12, <1>13, <1>14, RunFour
<1>16. /\ DOMAIN T4 = {t1, t2, t3, t4}
       /\ T4[t1] = x1 /\ T4[t2] = x2 /\ T4[t3] = x3 /\ T4[t4] = x4
  BY <1>4, <1>6, <1>11, <1>12, <1>13, <1>14 DEF HasTable
<1>17. \A t \in TablesAt(1) : IsTable(T4[t], ColumnsOf(1, t), RequiredOf(1, t))
  BY <1>3, <1>5, <1>11, <1>12, <1>13, <1>14, <1>16
<1>18. Fits(1, T4)
  BY <1>5, <1>16, <1>17 DEF Fits
<1> QED
  BY <1>14, <1>15, <1>18

\* The columns a copy reads, by those it writes.
IsSource(source, into, columns) ==
  /\ DOMAIN source = Range(into)
  /\ Range(source) \subseteq Range(columns)
  /\ \A i \in DOMAIN into : source[into[i]] = columns[i]

\* As many columns are written, each of them once.
Pairs(into, columns) ==
  DOMAIN into = DOMAIN columns /\ \A i, j \in DOMAIN into : into[i] = into[j] => i = j

\* Which column each column of a copy is taken from.
LEMMA SourceOfCopy ==
  ASSUME NEW into, NEW columns, Pairs(into, columns)
  PROVE  IsSource([c \in Range(into) |-> columns[CHOOSE i \in DOMAIN into : into[i] = c]], into, columns)
<1> DEFINE Place(c) == CHOOSE i \in DOMAIN into : into[i] = c
           source == [c \in Range(into) |-> columns[Place(c)]]
<1>1. \A i \in DOMAIN into : into[i] \in Range(into) /\ Place(into[i]) = i
  BY DEF Range, Pairs
<1>2. \A c \in Range(into) : Place(c) \in DOMAIN into
  BY <1>1 DEF Range
<1> HIDE DEF Place
<1>3. DOMAIN source = Range(into)
  OBVIOUS
<1>4. Range(source) \subseteq Range(columns)
  <2>1. \A c \in Range(into) : columns[Place(c)] \in Range(columns)
    BY <1>2 DEF Range, Pairs
  <2>2. \A y \in Range(source) : \E c \in Range(into) : y = columns[Place(c)]
    BY DEF Range
  <2> QED BY <2>1, <2>2
<1>5. \A i \in DOMAIN into : source[into[i]] = columns[i]
  BY <1>1
<1> HIDE DEF source
<1>6. IsSource(source, into, columns)
  BY <1>3, <1>4, <1>5 DEF IsSource
<1> QED
  BY <1>6 DEF source, Place

Copied(rows, source) == [i \in DOMAIN rows |-> [c \in DOMAIN source |-> rows[i][source[c]]]]

\* What INSERT of a SELECT does.
LEMMA Copies ==
  ASSUME NEW T, NEW t \in DOMAIN T, NEW u \in DOMAIN T, NEW s, s.do = "copy", s.table = t, s.from = u,
         DOMAIN s.source \subseteq DOMAIN T[t].default, Range(s.source) \subseteq DOMAIN T[u].default
  PROVE  Execute(After(T), s) = After([T EXCEPT ![t] = WithRows(T[t], Copied(T[u].rows, s.source))])
<1> DEFINE U == [T EXCEPT ![t] = WithRows(T[t], Copied(T[u].rows, s.source))]
<1>1. Can(T, s)
  BY DEF Can, Columns
<1>2. Result(T, s) = U
  BY DEF Result, Copied
<1> HIDE DEF U
<1>3. Execute(After(T), s) = After(U)
  BY <1>1, <1>2, Executes
<1> QED
  BY <1>3 DEF U

\* What DROP TABLE does.
LEMMA Drops ==
  ASSUME NEW T, NEW t \in DOMAIN T
  PROVE  Execute(After(T), Drop(t)) = After(Without(T, t))
<1> DEFINE s == Drop(t)
<1>1. s.do = "drop" /\ s.table = t
  BY DEF Drop
<1> HIDE DEF s
<1>2. Can(T, s) /\ Result(T, s) = Without(T, t)
  BY <1>1 DEF Can, Result
<1>3. Execute(After(T), s) = After(Without(T, t))
  BY <1>2, Executes
<1> QED
  BY <1>3 DEF s

\* What ALTER TABLE RENAME does.
LEMMA Renames ==
  ASSUME NEW T, NEW t \in DOMAIN T, NEW u, u \notin DOMAIN T
  PROVE  Execute(After(T), Rename(t, u)) = After(Over(Only(u, T[t]), Without(T, t)))
<1> DEFINE s == Rename(t, u)
<1>1. s.do = "rename" /\ s.table = t /\ s.to = u
  BY DEF Rename
<1> HIDE DEF s
<1>2. Can(T, s) /\ Result(T, s) = Over(Only(u, T[t]), Without(T, t))
  BY <1>1 DEF Can, Result
<1>3. Execute(After(T), s) = After(Over(Only(u, T[t]), Without(T, t)))
  BY <1>2, Executes
<1> QED
  BY <1>3 DEF s

\* A table put in the place of another one.
LEMMA Replaces ==
  ASSUME NEW T, NEW t \in DOMAIN T, NEW n, n \notin DOMAIN T, NEW V, NEW w, NEW x,
         HasTable(V, T, n, x), NEW W, HasChanged(W, V, n, w)
  PROVE  /\ t \in DOMAIN W /\ n \in DOMAIN Without(W, t) /\ t \notin DOMAIN Without(W, t)
         /\ HasChanged(Over(Only(t, Without(W, t)[n]), Without(Without(W, t), n)), T, t, w)
<1>1. /\ DOMAIN W = DOMAIN T \cup {n} /\ W[n] = w /\ t # n
      /\ \A u \in DOMAIN T : W[u] = T[u]
  BY DEF HasTable, HasChanged
<1> DEFINE A == Without(W, t)
           B == Without(A, n)
           U == Over(Only(t, A[n]), B)
<1>2. /\ DOMAIN A = (DOMAIN T \ {t}) \cup {n} /\ A[n] = w
      /\ \A u \in DOMAIN T : u # t => A[u] = T[u]
  BY <1>1 DEF Without
<1> HIDE DEF A
<1>3. /\ DOMAIN B = DOMAIN T \ {t}
      /\ \A u \in DOMAIN T : u # t => B[u] = T[u]
  BY <1>2 DEF Without
<1> HIDE DEF B
<1>4. /\ DOMAIN U = DOMAIN T /\ U[t] = w
      /\ \A u \in DOMAIN T : u # t => U[u] = T[u]
  BY <1>2, <1>3 DEF Over, Only
<1> HIDE DEF U
<1>5. HasChanged(U, T, t, w)
  BY <1>4 DEF HasChanged
<1> QED
  BY <1>1, <1>2, <1>5 DEF U, B, A

Into19 == <<"hash", "timezone_id", "timezone_utc_offset_secs", "fiat_currency",
            "exchange_rates_history_snapshot_id", "personal_note", "received_on",
            "received_lnurl_comment">>

Optional19 ==
  Nulls({"timezone_id", "timezone_utc_offset_secs", "fiat_currency",
         "exchange_rates_history_snapshot_id", "personal_note", "received_on",
         "received_lnurl_comment"})

\* The last migration copies each column to the one of its name, but for the
\* misspelt one.
LEMMA Source19 ==
  ASSUME NEW source, IsSource(source, Into19, Copied19)
  PROVE  /\ DOMAIN source = PaymentColumns(19)
         /\ Range(source) \subseteq PaymentColumns(18)
         /\ source[NewName] = OldName
         /\ \A c \in PaymentColumns(19) : c # NewName => source[c] = c
<1>1. Range(Into19) = PaymentColumns(19) /\ Range(Copied19) = PaymentColumns(18)
  BY DEF Range, Into19, Copied19, PaymentColumns
<1>2. \A i \in 1..8 : source[Into19[i]] = Copied19[i]
  BY DEF IsSource, Into19
<1>3. /\ source[NewName] = OldName
      /\ \A c \in PaymentColumns(19) : c # NewName => source[c] = c
  <2>1. /\ source["hash"] = "hash"
        /\ source["timezone_id"] = "timezone_id"
        /\ source["timezone_utc_offset_secs"] = "timezone_utc_offset_secs"
        /\ source["fiat_currency"] = "fiat_currency"
        /\ source[NewName] = OldName
        /\ source["personal_note"] = "personal_note"
        /\ source["received_on"] = "received_on"
        /\ source["received_lnurl_comment"] = "received_lnurl_comment"
    BY <1>2 DEF Into19, Copied19, NewName, OldName
  <2> QED BY <2>1 DEF PaymentColumns, NewName
<1> QED
  BY <1>1, <1>3 DEF IsSource

\* The copied rows tell the same of the payments.
LEMMA CopiedRowTells ==
  ASSUME NEW old, DOMAIN old = PaymentColumns(18), NEW new, DOMAIN new = PaymentColumns(19),
         new[NewName] = old[OldName], \A c \in PaymentColumns(19) : c # NewName => new[c] = old[c]
  PROVE  /\ \A c : c # NewName /\ c # OldName => Cell(new, c) = Cell(old, c)
         /\ Snapshot(new) = Snapshot(old)
<1>1. /\ NewName \in PaymentColumns(19) /\ OldName \notin PaymentColumns(19)
      /\ NewName \notin PaymentColumns(18) /\ OldName \in PaymentColumns(18) /\ NewName # OldName
      /\ \A c : c # NewName /\ c # OldName => (c \in PaymentColumns(18) <=> c \in PaymentColumns(19))
  BY DEF PaymentColumns, NewName, OldName
<1>2. \A c : c # NewName /\ c # OldName => Cell(new, c) = Cell(old, c)
  BY <1>1 DEF Cell
<1>3. Cell(new, OldName) = Null /\ Cell(old, NewName) = Null /\ Cell(new, NewName) = Cell(old, OldName)
  BY <1>1 DEF Cell
<1>4. Snapshot(new) = Snapshot(old)
  BY <1>3 DEF Snapshot
<1> QED
  BY <1>2, <1>4

\* The copied rows tell what the rows did.
LEMMA CopiedRowsTell ==
  ASSUME NEW rows, NEW new, DOMAIN new = DOMAIN rows, NEW st, PaymentsTell(rows, st),
         \A i \in DOMAIN rows :
           /\ \A c : c # NewName /\ c # OldName => Cell(new[i], c) = Cell(rows[i], c)
           /\ Snapshot(new[i]) = Snapshot(rows[i])
  PROVE  PaymentsTell(new, st)
<1>1. ASSUME NEW i \in DOMAIN rows, NEW p, NEW s
      PROVE  /\ PaymentRow(rows[i], p, s) => PaymentRow(new[i], p, s)
             /\ Cell(new[i], "hash") = Cell(rows[i], "hash")
  <2>1. /\ \A c \in {"hash", "timezone_id", "timezone_utc_offset_secs", "fiat_currency", "personal_note",
                     "received_on", "received_lnurl_comment"} : Cell(new[i], c) = Cell(rows[i], c)
        /\ Snapshot(new[i]) = Snapshot(rows[i])
    BY DEF NewName, OldName
  <2> QED
    BY <2>1 DEF PaymentRow
<1> QED
  BY <1>1 DEF PaymentsTell

\* What the copy and the two statements after it leave.
LEMMA CopyAndReplace ==
  ASSUME NEW T, NEW t \in DOMAIN T, NEW n, n \notin DOMAIN T,
         NEW cols, NEW req, IsTable(T[t], cols, req),
         NEW r, NEW opt, Optional(r, opt), NEW into, NEW columns, Pairs(into, columns),
         Range(into) \subseteq r \cup DOMAIN opt, Range(columns) \subseteq cols,
         NEW st, NEW ch, Tells(T, st, ch)
  PROVE  \E U, w, source :
           /\ Run(After(T), <<CreateTable(n, r, opt), Copy(n, into, t, columns), Drop(t), Rename(n, t)>>)
                = After(U)
           /\ HasChanged(U, T, t, w)
           /\ IsTable(w, r \cup DOMAIN opt, r)
           /\ IsSource(source, into, columns)
           /\ HasMoreRows(w, NewTable(r, opt), Copied(T[t].rows, source))
<1> DEFINE s == Copy(n, into, t, columns)
           source == s.source
           x == NewTable(r, opt)
<1>1. s.do = "copy" /\ s.table = n /\ s.from = t /\ IsSource(source, into, columns)
  BY SourceOfCopy DEF Copy
<1> HIDE DEF s
<1>2. PICK V, y :
           /\ Execute(After(T), CreateTable(n, r, opt)) = After(V)
           /\ HasTable(V, T, n, y)
           /\ IsTable(y, r \cup DOMAIN opt, r)
           /\ y = NewTable(r, opt)
           /\ Tells(V, st, ch)
  BY CreatesTable
<1>3. HasTable(V, T, n, x) /\ IsTable(x, r \cup DOMAIN opt, r)
  BY <1>2
<1>4. x.rows = <<>>
  BY DEF NewTable
<1> HIDE DEF x
<1>5. n \in DOMAIN V /\ t \in DOMAIN V /\ V[n] = x /\ V[t] = T[t]
  BY <1>3 DEF HasTable
<1> DEFINE rows == Copied(T[t].rows, source)
           w == WithRows(x, rows)
           W == [V EXCEPT ![n] = w]
<1>6. DOMAIN source \subseteq DOMAIN x.default /\ Range(source) \subseteq DOMAIN T[t].default
  <2>1. DOMAIN x.default = r \cup DOMAIN opt
    BY <1>3 DEF IsTable
  <2>2. DOMAIN T[t].default = cols
    BY DEF IsTable
  <2>3. DOMAIN source = Range(into) /\ Range(source) \subseteq Range(columns)
    BY <1>1 DEF IsSource
  <2> HIDE DEF source
  <2> QED BY <2>1, <2>2, <2>3
<1>7. Execute(After(V), s) = After(W)
  <2> HIDE DEF W, w, rows
  <2>1. Execute(After(V), s) = After([V EXCEPT ![n] = WithRows(V[n], Copied(V[t].rows, s.source))])
    BY <1>1, <1>5, <1>6, Copies
  <2> QED BY <1>5, <2>1 DEF W, w, rows
<1>8. HasChanged(W, V, n, w)
  BY <1>5, TableChanges
<1>9. IsTable(w, r \cup DOMAIN opt, r) /\ HasMoreRows(w, x, rows)
  <2>1. DOMAIN T[t].rows = 1..Len(T[t].rows) /\ Len(T[t].rows) \in Nat
    BY SeqIs DEF IsTable
  <2>2. DOMAIN rows = DOMAIN T[t].rows /\ rows = [i \in DOMAIN T[t].rows |-> rows[i]]
    BY DEF Copied
  <2>3. \A i \in DOMAIN rows : DOMAIN rows[i] = DOMAIN source
    BY DEF Copied
  <2>4. DOMAIN source \subseteq r \cup DOMAIN opt
    <3>1. DOMAIN source = Range(into)
      BY <1>1 DEF IsSource
    <3> HIDE DEF source
    <3> QED BY <3>1
  <2> HIDE DEF rows, source
  <2>5. IsSeq(rows)
    BY <2>1, <2>2, SeqMade
  <2>6. \A i \in DOMAIN rows : DOMAIN rows[i] \subseteq r \cup DOMAIN opt
    BY <2>3, <2>4
  <2> QED
    BY <1>3, <2>5, <2>6, RowsAdded
<1> DEFINE A == Without(W, t)
           U == Over(Only(t, A[n]), Without(A, n))
<1>10. t \in DOMAIN W /\ n \in DOMAIN A /\ t \notin DOMAIN A
  <2> HIDE DEF W, w
  <2> QED BY <1>3, <1>8, Replaces
<1>11. HasChanged(U, T, t, w)
  <2> HIDE DEF W, w
  <2> QED BY <1>3, <1>8, Replaces
<1> HIDE DEF W, w, rows, source
<1>12. Execute(After(W), Drop(t)) = After(A)
  BY <1>10, Drops
<1> HIDE DEF A
<1>13. Execute(After(A), Rename(n, t)) = After(U)
  BY <1>10, Renames
<1> HIDE DEF U
<1>14. Run(After(T), <<CreateTable(n, r, opt), s, Drop(t), Rename(n, t)>>) = After(U)
  BY <1>2, <1>7, <1>12, <1>13, RunFour
<1>15. HasMoreRows(w, NewTable(r, opt), Copied(T[t].rows, source))
  BY <1>9 DEF rows, x
<1> QED
  BY <1>1, <1>9, <1>11, <1>14, <1>15 DEF s

\* The last migration replaces the table of payments.
LEMMA Migration19 == Leads(19)
<1> SUFFICES ASSUME NEW T, NEW st, NEW ch, Fits(19 - 1, T), Tells(T, st, ch)
             PROVE  \E U : Run(After(T), migrations[19]) = After(U) /\ Fits(19, U) /\ Tells(U, st, ch)
  BY DEF Leads
<1> DEFINE k == 19
           t == "payments"
           n == "payments_new"
           r == {"hash"}
           opt == Optional19
           cols == ColumnsOf(k - 1, t)
           req == RequiredOf(k - 1, t)
<1>1. migrations[19] = <<CreateTable(n, r, opt), Copy(n, Into19, t, Copied19), Drop(t), Rename(n, t)>>
  BY DEF migrations, PaymentOptionalFields19, Into19, Optional19
<1>2. k \in 1..19 /\ (\A u \in AllTables : Created(u) # k) /\ \A u \in Altered(k) : u = t
  BY DEF AllTables, Created, Altered
<1>3. t \in TablesAt(k - 1) /\ n \notin TablesAt(k - 1) /\ t # "analytics_config" /\ t # n
  BY DEF TablesAt, AllTables, Created
<1>4. /\ Optional(r, opt) /\ opt["personal_note"] = Null
      /\ \A c \in DOMAIN opt : opt[c] = Null
  BY Marks DEF Optional, Optional19, Nulls
<1>5. Pairs(Into19, Copied19)
  BY DEF Pairs, Into19, Copied19
<1>6. /\ Range(Into19) \subseteq r \cup DOMAIN opt /\ Range(Copied19) \subseteq cols
      /\ ColumnsOf(k, t) = r \cup DOMAIN opt /\ RequiredOf(k, t) = r
      /\ ColumnsOf(k, t) = PaymentColumns(19) /\ cols = PaymentColumns(18)
      /\ r = {"hash"}
  <2>1. Range(Into19) = PaymentColumns(19) /\ Range(Copied19) = PaymentColumns(18)
    BY DEF Range, Into19, Copied19, PaymentColumns
  <2>2. r \cup DOMAIN opt = PaymentColumns(19)
    BY DEF PaymentColumns, Optional19, Nulls
  <2> QED BY <2>1, <2>2 DEF ColumnsOf, RequiredOf
<1>7. Fits(k - 1, T)
  OBVIOUS
<1>a. k = 19 /\ t = "payments"
  OBVIOUS
<1> HIDE DEF k, t, n, r, opt
<1>8. t \in DOMAIN T /\ n \notin DOMAIN T /\ IsTable(T[t], cols, req)
  BY <1>3, <1>7 DEF Fits
<1> HIDE DEF cols, req
<1>9. PICK U, w, source :
           /\ Run(After(T), <<CreateTable(n, r, opt), Copy(n, Into19, t, Copied19), Drop(t), Rename(n, t)>>)
                = After(U)
           /\ HasChanged(U, T, t, w)
           /\ IsTable(w, r \cup DOMAIN opt, r)
           /\ IsSource(source, Into19, Copied19)
           /\ HasMoreRows(w, NewTable(r, opt), Copied(T[t].rows, source))
  <2>1. Range(Into19) \subseteq r \cup DOMAIN opt /\ Range(Copied19) \subseteq cols
    BY <1>6
  <2>2. Optional(r, opt)
    BY <1>4
  <2> QED
    BY <1>5, <1>8, <2>1, <2>2, CopyAndReplace
<1> DEFINE old == T[t].rows
           copied == Copied(old, source)
<1>10. /\ IsSeq(old) /\ DOMAIN old = 1..Len(old) /\ Len(old) \in Nat
  BY <1>8, SeqIs DEF IsTable
<1>11. DOMAIN copied = DOMAIN old
  BY DEF Copied
<1>12. Len(copied) = Len(old)
  <2>1. copied = [i \in 1..Len(old) |-> copied[i]]
    BY <1>10 DEF Copied
  <2> HIDE DEF copied, old
  <2> QED BY <1>10, <1>11, <2>1, SeqMade
<1>13. /\ NewTable(r, opt).rows = <<>> /\ Len(NewTable(r, opt).rows) = 0
       /\ \A c \in DOMAIN opt : NewTable(r, opt).default[c] = opt[c]
  <2>1. NewTable(r, opt).rows = <<>>
    BY DEF NewTable
  <2>2. \A c \in DOMAIN opt : NewTable(r, opt).default[c] = opt[c]
    <3>1. r \cap DOMAIN opt = {}
      BY <1>4 DEF Optional
    <3> QED BY <3>1 DEF NewTable, Over
  <2> QED BY <2>1, <2>2
<1>14. /\ w.default = NewTable(r, opt).default
       /\ Len(w.rows) = Len(old)
       /\ \A i \in 1..Len(old) : w.rows[i] = Over(copied[i], NewTable(r, opt).default)
  <2> HIDE DEF copied, old
  <2>1. HasMoreRows(w, NewTable(r, opt), copied)
    BY <1>9 DEF copied, old
  <2> DEFINE x == NewTable(r, opt)
  <2>2. Len(x.rows) = 0
    BY <1>13
  <2> HIDE DEF x
  <2>3. HasMoreRows(w, x, copied)
    BY <2>1 DEF x
  <2>4. w.default = x.default /\ Len(w.rows) = 0 + Len(copied)
        /\ \A i \in 1..Len(copied) : w.rows[0 + i] = Over(copied[i], x.default)
    BY <2>2, <2>3 DEF HasMoreRows
  <2>5. \A i \in 1..Len(old) : w.rows[i] = Over(copied[i], x.default)
    <3> TAKE i \in 1..Len(old)
    <3>1. 0 + i = i
      BY <1>10
    <3> QED BY <1>12, <2>4, <3>1
  <2> QED BY <1>10, <1>12, <2>4, <2>5 DEF x
<1>15. DOMAIN w.rows = DOMAIN old
  <2>1. IsSeq(w.rows)
    BY <1>9 DEF IsTable
  <2>2. DOMAIN w.rows = 1..Len(w.rows)
    BY <2>1, SeqIs
  <2> QED BY <1>10, <1>14, <2>2
<1>16. ASSUME NEW i \in DOMAIN old
       PROVE  /\ DOMAIN w.rows[i] = PaymentColumns(19) /\ DOMAIN old[i] = PaymentColumns(18)
              /\ w.rows[i][NewName] = old[i][OldName]
              /\ \A c \in PaymentColumns(19) : c # NewName => w.rows[i][c] = old[i][c]
  <2>1. DOMAIN w.rows[i] = PaymentColumns(19) /\ DOMAIN old[i] = PaymentColumns(18)
    <3>1. IsTable(w, PaymentColumns(19), r)
      BY <1>6, <1>9
    <3>2. IsTable(T[t], PaymentColumns(18), req)
      BY <1>6, <1>8
    <3> QED BY <1>15, <3>1, <3>2 DEF IsTable
  <2>2. /\ DOMAIN source = PaymentColumns(19)
        /\ source[NewName] = OldName
        /\ \A c \in PaymentColumns(19) : c # NewName => source[c] = c
    BY <1>9, Source19
  <2>3. copied[i] = [c \in DOMAIN source |-> old[i][source[c]]]
    BY DEF Copied
  <2>4. w.rows[i] = Over(copied[i], NewTable(r, opt).default)
    <3> HIDE DEF copied, old
    <3> QED BY <1>10, <1>14
  <2> HIDE DEF copied, old
  <2>5. \A c \in PaymentColumns(19) : w.rows[i][c] = old[i][source[c]]
    <3> DEFINE row == copied[i]
               d == NewTable(r, opt).default
    <3>1. DOMAIN row = PaymentColumns(19) /\ \A c \in PaymentColumns(19) : row[c] = old[i][source[c]]
      BY <2>2, <2>3
    <3>2. w.rows[i] = Over(row, d)
      BY <2>4
    <3> HIDE DEF row, d
    <3> QED BY <3>1, <3>2 DEF Over
  <2>6. NewName \in PaymentColumns(19)
    BY DEF NewName, PaymentColumns
  <2> QED
    BY <2>1, <2>2, <2>5, <2>6
<1>17. PaymentsTell(w.rows, st)
  <2>1. \A i \in DOMAIN old :
           /\ \A c : c # NewName /\ c # OldName => Cell(w.rows[i], c) = Cell(old[i], c)
           /\ Snapshot(w.rows[i]) = Snapshot(old[i])
    <3> TAKE i \in DOMAIN old
    <3> DEFINE a == w.rows[i]
               b == old[i]
    <3>1. /\ DOMAIN a = PaymentColumns(19) /\ DOMAIN b = PaymentColumns(18)
          /\ a[NewName] = b[OldName]
          /\ \A c \in PaymentColumns(19) : c # NewName => a[c] = b[c]
      BY <1>16
    <3> HIDE DEF a, b
    <3>2. /\ \A c : c # NewName /\ c # OldName => Cell(a, c) = Cell(b, c)
          /\ Snapshot(a) = Snapshot(b)
      BY <3>1, CopiedRowTells
    <3> QED BY <3>2 DEF a, b
  <2>2. PaymentsTell(old, st)
    BY <1>8, <1>a DEF Tells, RowsOf
  <2> HIDE DEF old
  <2> QED
    BY <1>15, <2>1, <2>2, CopiedRowsTell
<1>18. Tells(U, st, ch)
  <2>1. RowsOf(U, t) = w.rows /\ \A u : u # t => RowsOf(U, u) = RowsOf(T, u)
    BY <1>8, <1>9 DEF HasChanged, RowsOf
  <2> QED
    BY <1>a, <1>17, <2>1 DEF Tells
<1>19. Fits(k, U)
  <2>1. IsTable(w, ColumnsOf(k, t), RequiredOf(k, t))
    BY <1>6, <1>9
  <2>2. \A c \in ColumnsOf(19, "payments") : c # "hash" => w.default[c] = Null
    <3>1. \A c \in ColumnsOf(19, "payments") : c # "hash" => c \in DOMAIN opt
      BY <1>6, <1>a
    <3>2. \A c \in DOMAIN opt : w.default[c] = Null
      BY <1>4, <1>13, <1>14
    <3> QED BY <3>1, <3>2
  <2> QED
    BY <1>2, <1>3, <1>7, <1>9, <2>1, <2>2, FitsAltered
<1>20. Run(After(T), migrations[19]) = After(U)
  BY <1>1, <1>9
<1> QED
  BY <1>a, <1>18, <1>19, <1>20

\* Every migration takes a file from the version before it to its own.
LEMMA AllLead == \A k \in 1..19 : Leads(k)
<1> TAKE k \in 1..19
<1> QED
  BY Migration01, Migration02, Migration03, Migration04, Migration05, Migration06, Migration07,
     Migration08, Migration09, Migration10, Migration11, Migration12, Migration13, Migration14,
     Migration15, Migration16, Migration17, Migration18, Migration19

\* The pending migrations lead from any version to a later one.
LEMMA AllMigrationsLead ==
  ASSUME NEW v \in 0..19, NEW w \in v..19, NEW T, NEW st, NEW ch, Fits(v, T), Tells(T, st, ch)
  PROVE  \E U : Migrate(T, v, w) = After(U) /\ Fits(w, U) /\ Tells(U, st, ch)
<1>1. PICK f : /\ f[v] = After(T)
               /\ \A k \in (v + 1)..w : f[k] = Run(f[k - 1], migrations[k])
               /\ Migrate(T, v, w) = f[w]
  <2>1. v \in Nat /\ w \in Nat /\ v <= w
    OBVIOUS
  <2> QED BY <2>1, Migrates
<1> DEFINE Good(k) == \E U : f[k] = After(U) /\ Fits(k, U) /\ Tells(U, st, ch)
           Bad == {k \in v..w : ~Good(k)}
<1>2. Bad = {}
  <2> SUFFICES ASSUME Bad # {} PROVE FALSE
    OBVIOUS
  <2>1. PICK k \in Bad : \A m \in Bad : k <= m
    <3>1. Bad \subseteq Nat
      OBVIOUS
    <3> HIDE DEF Bad
    <3> QED BY <3>1, Least
  <2>2. k \in v..w /\ ~Good(k)
    OBVIOUS
  <2>3. k # v
    BY <1>1, <2>2
  <2>4. k \in (v + 1)..w /\ k \in 1..19 /\ k - 1 \in v..w /\ ~(k <= k - 1)
    BY <2>2, <2>3
  <2>5. Good(k - 1)
    <3>1. k - 1 \notin Bad
      <4> HIDE DEF Bad
      <4> QED BY <2>1, <2>4
    <3> HIDE DEF Good
    <3> QED BY <2>4, <3>1
  <2>6. PICK V : f[k - 1] = After(V) /\ Fits(k - 1, V) /\ Tells(V, st, ch)
    BY <2>5
  <2>7. PICK U : Run(After(V), migrations[k]) = After(U) /\ Fits(k, U) /\ Tells(U, st, ch)
    <3>1. Leads(k)
      BY <2>4, AllLead
    <3> QED BY <2>6, <3>1 DEF Leads
  <2>8. f[k] = After(U)
    BY <1>1, <2>4, <2>6, <2>7
  <2> QED
    BY <2>2, <2>7, <2>8
<1>3. Good(w)
  <2>1. w \in v..w
    OBVIOUS
  <2> HIDE DEF Good
  <2> QED BY <1>2, <2>1
<1> QED
  BY <1>1, <1>3

-----------------------------------------------------------------------------
(* New files                                                                 *)

Nothing == [p \in Recorded |-> Null]

NoChoice == [analytics |-> Zero, address |-> Null]

\* So do the tables of a new file, migrated to any version.
LEMMA TablesOfFit ==
  ASSUME NEW v \in 0..19
  PROVE  Fits(v, TablesOf(v)) /\ Tells(TablesOf(v), Nothing, NoChoice)
<1> DEFINE T == <<>>
<1>1. DOMAIN T = {}
  OBVIOUS
<1> HIDE DEF T
<1>2. Fits(0, T)
  <2>1. TablesAt(0) = {}
    BY DEF TablesAt, AllTables, Created
  <2> QED BY <1>1, <2>1 DEF Fits
<1>3. Tells(T, Nothing, NoChoice)
  <2>1. \A t : RowsOf(T, t) = <<>>
    BY <1>1 DEF RowsOf
  <2>2. DOMAIN <<>> = {}
    OBVIOUS
  <2>3. PaymentsTell(<<>>, Nothing) /\ RatesTell(<<>>, Nothing) /\ OffersTell(<<>>, Nothing)
    BY <2>2 DEF PaymentsTell, RatesTell, OffersTell, HasRates, HasOffer, Nothing
  <2>4. AnalyticsTell(<<>>, NoChoice) /\ AddressTells(<<>>, NoChoice)
    BY DEF AnalyticsTell, AddressTells, NoChoice
  <2> QED
    BY <2>1, <2>3, <2>4 DEF Tells
<1>4. PICK U : Migrate(T, 0, v) = After(U) /\ Fits(v, U) /\ Tells(U, Nothing, NoChoice)
  <2>1. 0 \in 0..19 /\ v \in 0..19
    OBVIOUS
  <2> DEFINE a == 0
             st == Nothing
             ch == NoChoice
  <2>2. a \in 0..19 /\ v \in a..19 /\ Fits(a, T) /\ Tells(T, st, ch)
    BY <1>2, <1>3, <2>1
  <2> HIDE DEF a, st, ch
  <2>3. \E U : Migrate(T, a, v) = After(U) /\ Fits(v, U) /\ Tells(U, st, ch)
    BY <2>2, AllMigrationsLead
  <2> QED BY <2>3 DEF a, st, ch
<1> QED
  BY <1>4 DEF TablesOf, After, T

\* They hold no payments.
LEMMA NewTablesAreEmpty ==
  ASSUME NEW v \in 0..19
  PROVE  \A t \in {"payments", "exchange_rates_history", "offers"} : DOMAIN RowsOf(TablesOf(v), t) = {}
<1>1. Tells(TablesOf(v), Nothing, NoChoice)
  BY TablesOfFit
<1> DEFINE T == TablesOf(v)
<1> HIDE DEF T
<1>2. \A p \in Recorded : Nothing[p] = Null
  BY DEF Nothing
<1>3. /\ PaymentsTell(RowsOf(T, "payments"), Nothing)
      /\ RatesTell(RowsOf(T, "exchange_rates_history"), Nothing)
      /\ OffersTell(RowsOf(T, "offers"), Nothing)
  BY <1>1 DEF Tells, T
<1>4. DOMAIN RowsOf(T, "payments") = {}
  BY <1>2, <1>3 DEF PaymentsTell
<1>5. DOMAIN RowsOf(T, "exchange_rates_history") = {}
  BY <1>2, <1>3 DEF RatesTell, HasRates
<1>6. DOMAIN RowsOf(T, "offers") = {}
  BY <1>2, <1>3 DEF OffersTell, HasOffer
<1> QED
  BY <1>4, <1>5, <1>6 DEF T

\* A permutation of some members of a finite set.
LEMMA Permutation ==
  ASSUME NEW R, IsFiniteSet(R), NEW s, s \in SetToSeqs(R)
  PROVE  IsSeq(s) /\ ToSet(s) \subseteq R
<1> DEFINE n == Cardinality(R)
<1>1. n \in Nat
  BY FS_CardinalityType
<1>2. s \in [1..n -> R]
  BY DEF SetToSeqs
<1> HIDE DEF n
<1>3. s \in Seq(R)
  BY <1>1, <1>2
<1>4. IsSeq(s)
  BY <1>3, SeqIs
<1>5. ToSet(s) \subseteq R
  BY <1>2 DEF ToSet
<1> QED
  BY <1>4, <1>5

\* What MigrationsInit chooses payments and claims from.
LEMMA AllPermutations ==
  ASSUME NEW S, IsFiniteSet(S), NEW s, s \in SetToAllKPermutations(S)
  PROVE  IsSeq(s) /\ ToSet(s) \subseteq S
<1>1. \E R : R \subseteq S /\ s \in SetToSeqs(R)
  BY DEF SetToAllKPermutations
<1>2. \A R : R \subseteq S => IsFiniteSet(R)
  BY FS_Subset
<1> QED
  BY <1>1, <1>2, Permutation

\* What an older version stored in a column.
OldValue(t, c, p, error) ==
  IF c = "error" THEN FromOfferError[error]
  ELSE IF t = "exchange_rates_history" /\ c = "fiat_currency" THEN Value("payments", c, p)
  ELSE Value(t, c, p)

IsOldRow(row, t, cols, p, error) ==
  /\ DOMAIN row = cols
  /\ \A c \in cols : row[c] = OldValue(t, c, p, error)

\* What an older version stored in the columns it knew.
LEMMA OldRowIs ==
  ASSUME NEW T, NEW t, NEW p, NEW error
  PROVE  IsOldRow(OldRow(T, t, p, error), t, Columns(T, t) \ {"id"}, p, error)
<1> DEFINE cols == Columns(T, t) \ {"id"}
           row == RowOf(t, cols, p)
           new == OldRow(T, t, p, error)
<1>1. DOMAIN row = cols
  BY DEF RowOf
<1>2. \A c \in cols : c # "error" => row[c] = OldValue(t, c, p, error)
  BY DEF RowOf, OldValue
<1>3. new = IF "error" \in DOMAIN row THEN [row EXCEPT !["error"] = FromOfferError[error]] ELSE row
  BY DEF OldRow
<1> DEFINE value == FromOfferError[error]
<1>4. OldValue(t, "error", p, error) = value
  BY DEF OldValue
<1> HIDE DEF row, value, cols
<1>5. DOMAIN new = cols
  BY <1>1, <1>3
<1>6. \A c \in cols : new[c] = OldValue(t, c, p, error)
  <2> TAKE c \in cols
  <2>1. CASE c = "error"
    <3>1. new = [row EXCEPT !["error"] = value]
      BY <1>1, <1>3, <2>1 DEF value
    <3> QED BY <1>1, <1>4, <2>1, <3>1
  <2>2. CASE c # "error"
    BY <1>1, <1>2, <1>3, <2>2
  <2> QED
    BY <2>1, <2>2
<1> HIDE DEF new
<1>7. IsOldRow(new, t, cols, p, error)
  BY <1>5, <1>6 DEF IsOldRow
<1> QED
  BY <1>7 DEF new, cols

\* A table of an old file: its rows are those of the payments, in their order.
HasOldRows(table, t, cols, paid, error) ==
  /\ DOMAIN table.rows = DOMAIN paid
  /\ \A i \in DOMAIN paid :
       /\ \A c \in cols : c # "id" => Cell(table.rows[i], c) = OldValue(t, c, paid[i], error)
       /\ \A c : c \notin cols => Cell(table.rows[i], c) = Null

\* The rows an older version inserted.
LEMMA OldRowsAdded ==
  ASSUME NEW T, NEW t \in DOMAIN T, NEW cols, NEW req, IsTable(T[t], cols, req), DOMAIN T[t].rows = {},
         NEW paid, IsSeq(paid), NEW error
  PROVE  /\ IsTable(WithRows(T[t], OldRows(T, t, paid, error)), cols, req)
         /\ HasOldRows(WithRows(T[t], OldRows(T, t, paid, error)), t, cols, paid, error)
<1> DEFINE x == T[t]
           rows == OldRows(T, t, paid, error)
           w == WithRows(x, rows)
<1>0. IsTable(x, cols, req) /\ DOMAIN x.rows = {}
  OBVIOUS
<1>1. Columns(T, t) = cols
  BY DEF Columns, IsTable
<1> HIDE DEF x
<1>2. Len(paid) \in Nat /\ DOMAIN paid = 1..Len(paid)
  BY SeqIs
<1>3. DOMAIN rows = DOMAIN paid /\ rows = [i \in DOMAIN paid |-> rows[i]]
  BY DEF OldRows
<1>4. \A i \in DOMAIN paid : IsOldRow(rows[i], t, cols \ {"id"}, paid[i], error)
  BY <1>1, OldRowIs DEF OldRows
<1> HIDE DEF rows
<1>5. IsSeq(rows) /\ Len(rows) = Len(paid)
  BY <1>2, <1>3, SeqMade
<1>6. \A i \in DOMAIN rows : DOMAIN rows[i] \subseteq cols
  BY <1>3, <1>4 DEF IsOldRow
<1>7. IsTable(w, cols, req) /\ HasMoreRows(w, x, rows)
  BY <1>0, <1>5, <1>6, RowsAdded
<1> HIDE DEF w
<1>8. Len(x.rows) = 0
  <2>1. IsSeq(x.rows)
    BY <1>0 DEF IsTable
  <2>2. Len(x.rows) \in Nat /\ DOMAIN x.rows = 1..Len(x.rows)
    BY <2>1, SeqIs
  <2> DEFINE n == Len(x.rows)
  <2>3. n \in Nat /\ 1..n = {}
    BY <1>0, <2>2
  <2> HIDE DEF n
  <2>4. n # 0 => 1 \in 1..n
    BY <2>3
  <2>5. n = 0
    BY <2>3, <2>4
  <2> QED BY <2>5 DEF n
<1>9. Len(w.rows) = Len(paid) /\ \A i \in 1..Len(paid) : w.rows[i] = Over(rows[i], x.default)
  <2>1. /\ Len(w.rows) = 0 + Len(rows)
        /\ \A i \in 1..Len(rows) : w.rows[0 + i] = Over(rows[i], x.default)
    BY <1>7, <1>8 DEF HasMoreRows
  <2>2. \A i \in 1..Len(paid) : w.rows[i] = Over(rows[i], x.default)
    <3> TAKE i \in 1..Len(paid)
    <3>1. 0 + i = i
      BY <1>2
    <3> QED BY <1>5, <2>1, <3>1
  <2> QED BY <1>2, <1>5, <2>1, <2>2
<1>10. DOMAIN w.rows = DOMAIN paid
  <2>1. IsSeq(w.rows)
    BY <1>7 DEF IsTable
  <2>2. DOMAIN w.rows = 1..Len(w.rows)
    BY <2>1, SeqIs
  <2> QED BY <1>2, <1>9, <2>2
<1>11. ASSUME NEW i \in DOMAIN paid
       PROVE  /\ \A c \in cols : c # "id" => Cell(w.rows[i], c) = OldValue(t, c, paid[i], error)
              /\ \A c : c \notin cols => Cell(w.rows[i], c) = Null
  <2> DEFINE r == w.rows[i]
             row == rows[i]
             d == x.default
             p == paid[i]
  <2>1. DOMAIN r = cols
    BY <1>7, <1>10 DEF IsTable
  <2>2. DOMAIN row = cols \ {"id"} /\ \A c \in cols \ {"id"} : row[c] = OldValue(t, c, p, error)
    BY <1>4 DEF IsOldRow
  <2>3. r = Over(row, d) /\ DOMAIN d = cols
    BY <1>0, <1>2, <1>9 DEF IsTable
  <2> HIDE DEF r, row, d, p
  <2>4. \A c \in cols : c # "id" => r[c] = OldValue(t, c, p, error)
    BY <2>2, <2>3 DEF Over
  <2>5. /\ \A c \in cols : c # "id" => Cell(r, c) = OldValue(t, c, p, error)
        /\ \A c : c \notin cols => Cell(r, c) = Null
    BY <2>1, <2>4 DEF Cell
  <2> QED
    BY <2>5 DEF r, p
<1>12. HasOldRows(w, t, cols, paid, error)
  BY <1>10, <1>11 DEF HasOldRows
<1> QED
  BY <1>7, <1>12 DEF w, rows, x

\* What is inserted into a table of an old file.
OldInserts(T, t, paid, claims, error, c) ==
  CASE t \in {"payments", "exchange_rates_history"} -> OldRows(T, t, paid, error)
    [] t = "offers" -> OldRows(T, t, claims, error)
    [] t = "analytics_config" -> <<[status |-> c.analytics]>>
    [] t = "lightning_addresses" -> <<OldAddress(T, c.address)>>
    [] OTHER -> <<>>

\* A file of an older version, table by table.
LEMMA OldFileIs ==
  ASSUME NEW v, NEW paid, NEW claims, NEW error, NEW c
  PROVE  /\ OldFile(v, paid, claims, error, c).version = v
         /\ OldFile(v, paid, claims, error, c).tables =
              [t \in DOMAIN TablesOf(v) |->
                 WithRows(TablesOf(v)[t], OldInserts(TablesOf(v), t, paid, claims, error, c))]
BY DEF OldFile, OldInserts

\* The last row of a table that was given one.
LastHas(table, row) ==
  /\ table.rows # <<>>
  /\ Len(table.rows) \in DOMAIN table.rows
  /\ table.rows[Len(table.rows)] = Over(row, table.default)

\* A single row inserted is the last one.
LEMMA RowIsLast ==
  ASSUME NEW table, NEW cols, NEW req, IsTable(table, cols, req), NEW row, DOMAIN row \subseteq cols
  PROVE  /\ IsTable(WithRows(table, <<row>>), cols, req)
         /\ LastHas(WithRows(table, <<row>>), row)
<1> DEFINE w == WithRows(table, <<row>>)
<1>1. IsSeq(<<row>>) /\ \A i \in DOMAIN <<row>> : DOMAIN <<row>>[i] \subseteq cols
  BY SingleRow
<1>2. IsTable(w, cols, req) /\ HasMoreRows(w, table, <<row>>)
  BY <1>1, RowsAdded
<1> HIDE DEF w
<1>3. HasRow(w, table, row)
  BY <1>2, OneMore
<1>4. LastHas(w, row)
  <2>1. Len(table.rows) + 1 \in 1..(Len(table.rows) + 1)
    BY <1>3 DEF HasRow
  <2>2. Len(w.rows) \in DOMAIN w.rows /\ w.rows[Len(w.rows)] = Over(row, w.default)
    BY <1>3, <2>1 DEF HasRow
  <2>3. w.rows # <<>>
    BY <2>2
  <2> QED BY <2>2, <2>3 DEF LastHas
<1> QED
  BY <1>2, <1>4 DEF w

\* A table of an old file.
LEMMA OldTableFits ==
  ASSUME NEW v \in 0..19, NEW T, Fits(v, T),
         \A t \in {"payments", "exchange_rates_history", "offers"} : DOMAIN RowsOf(T, t) = {},
         NEW paid, IsSeq(paid), NEW claims, IsSeq(claims), NEW error, NEW c,
         NEW t \in TablesAt(v)
  PROVE  LET w == WithRows(T[t], OldInserts(T, t, paid, claims, error, c))
             cols == ColumnsOf(v, t)
         IN  /\ IsTable(w, cols, RequiredOf(v, t))
             /\ t \in {"payments", "exchange_rates_history"} => HasOldRows(w, t, cols, paid, error)
             /\ t = "offers" => HasOldRows(w, t, cols, claims, error)
             /\ t = "analytics_config" => LastHas(w, [status |-> c.analytics])
             /\ t = "lightning_addresses" => LastHas(w, OldAddress(T, c.address))
<1> DEFINE new == OldInserts(T, t, paid, claims, error, c)
           old == T[t]
           w == WithRows(old, new)
           cols == ColumnsOf(v, t)
           req == RequiredOf(v, t)
<1>1. t \in DOMAIN T /\ IsTable(T[t], cols, req)
  BY DEF Fits
<1>2. t \in {"payments", "exchange_rates_history", "offers"} => DOMAIN T[t].rows = {}
  BY <1>1 DEF RowsOf
<1>3. CASE t \in {"payments", "exchange_rates_history"}
  <2>1. new = OldRows(T, t, paid, error)
    BY <1>3 DEF OldInserts
  <2> HIDE DEF cols, req
  <2>2. DOMAIN T[t].rows = {}
    BY <1>2, <1>3
  <2>3. IsTable(WithRows(T[t], OldRows(T, t, paid, error)), cols, req)
        /\ HasOldRows(WithRows(T[t], OldRows(T, t, paid, error)), t, cols, paid, error)
    BY <1>1, <2>2, OldRowsAdded
  <2> QED
    BY <1>3, <2>1, <2>3 DEF cols, req
<1>4. CASE t = "offers"
  <2>1. new = OldRows(T, t, claims, error)
    BY <1>4 DEF OldInserts
  <2> HIDE DEF cols, req
  <2>2. DOMAIN T[t].rows = {}
    BY <1>2, <1>4
  <2>3. IsTable(WithRows(T[t], OldRows(T, t, claims, error)), cols, req)
        /\ HasOldRows(WithRows(T[t], OldRows(T, t, claims, error)), t, cols, claims, error)
    BY <1>1, <2>2, OldRowsAdded
  <2> QED
    BY <1>4, <2>1, <2>3 DEF cols, req
<1>5. CASE t = "analytics_config"
  <2> DEFINE row == [status |-> c.analytics]
  <2>1. new = <<row>>
    BY <1>5 DEF OldInserts
  <2>2. DOMAIN row \subseteq cols
    BY <1>5 DEF ColumnsOf
  <2> HIDE DEF row, cols, req, new, old
  <2>3. IsTable(old, cols, req)
    BY <1>1 DEF old
  <2>4. IsTable(w, cols, req) /\ LastHas(w, row)
    BY <2>1, <2>2, <2>3, RowIsLast
  <2> QED
    BY <1>5, <2>4 DEF cols, req, row, new, old
<1>6. CASE t = "lightning_addresses"
  <2> DEFINE row == OldAddress(T, c.address)
  <2>1. new = <<row>>
    BY <1>6 DEF OldInserts
  <2>2. DOMAIN row \subseteq cols
    <3>1. Columns(T, "lightning_addresses") = cols
      BY <1>1, <1>6 DEF Columns, IsTable
    <3>2. "address" \in cols
      BY <1>6 DEF ColumnsOf, AddressColumns
    <3> HIDE DEF cols
    <3> QED BY <3>1, <3>2 DEF OldAddress
  <2> HIDE DEF row, cols, req, new, old
  <2>3. IsTable(old, cols, req)
    BY <1>1 DEF old
  <2>4. IsTable(w, cols, req) /\ LastHas(w, row)
    BY <2>1, <2>2, <2>3, RowIsLast
  <2> QED
    BY <1>6, <2>4 DEF cols, req, row, new, old
<1>7. CASE t \notin {"payments", "exchange_rates_history", "offers", "analytics_config",
                     "lightning_addresses"}
  <2>1. new = <<>>
    BY <1>7 DEF OldInserts
  <2> HIDE DEF cols, req, new, old
  <2>2. IsSeq(<<>>) /\ \A i \in DOMAIN <<>> : DOMAIN <<>>[i] \subseteq cols
    BY DEF IsSeq
  <2>3. IsTable(old, cols, req)
    BY <1>1 DEF old
  <2>4. IsTable(WithRows(old, <<>>), cols, req)
    BY <2>2, <2>3, RowsAdded
  <2> QED
    BY <1>7, <2>1, <2>4 DEF cols, req, new, old
<1> QED
  BY <1>3, <1>4, <1>5, <1>6, <1>7

HasInserts(v, U, paid, claims, error, c) ==
  \A t \in TablesAt(v) :
    /\ t \in {"payments", "exchange_rates_history"} =>
         HasOldRows(U[t], t, ColumnsOf(v, t), paid, error)
    /\ t = "offers" => HasOldRows(U[t], t, ColumnsOf(v, t), claims, error)
    /\ t = "analytics_config" => LastHas(U[t], [status |-> c.analytics])
    /\ t = "lightning_addresses" => LastHas(U[t], OldAddress(TablesOf(v), c.address))

\* The tables of an old file are those of its version, and have what was inserted.
LEMMA OldFileFits ==
  ASSUME NEW v \in 0..19, NEW paid, IsSeq(paid), NEW claims, IsSeq(claims), NEW error, NEW c,
         NEW U, U = OldFile(v, paid, claims, error, c).tables
  PROVE  /\ Fits(v, U)
         /\ HasInserts(v, U, paid, claims, error, c)
<1> DEFINE T == TablesOf(v)
           W(t) == WithRows(T[t], OldInserts(T, t, paid, claims, error, c))
<1>1. U = [t \in DOMAIN T |-> W(t)]
  BY OldFileIs
<1>2. Fits(v, T)
  BY TablesOfFit
<1>3. \A t \in {"payments", "exchange_rates_history", "offers"} : DOMAIN RowsOf(T, t) = {}
  BY NewTablesAreEmpty
<1> HIDE DEF T
<1>4. ASSUME NEW t \in TablesAt(v)
      PROVE  /\ IsTable(W(t), ColumnsOf(v, t), RequiredOf(v, t))
             /\ t \in {"payments", "exchange_rates_history"} =>
                  HasOldRows(W(t), t, ColumnsOf(v, t), paid, error)
             /\ t = "offers" => HasOldRows(W(t), t, ColumnsOf(v, t), claims, error)
             /\ t = "analytics_config" => LastHas(W(t), [status |-> c.analytics])
             /\ t = "lightning_addresses" => LastHas(W(t), OldAddress(T, c.address))
  BY <1>2, <1>3, OldTableFits
<1>5. DOMAIN T = TablesAt(v)
  BY <1>2 DEF Fits
<1>6. DOMAIN U = TablesAt(v) /\ \A t \in TablesAt(v) : U[t] = W(t)
  BY <1>1, <1>5
<1>7. \A t \in TablesAt(v) : W(t).default = T[t].default
  <2> TAKE t \in TablesAt(v)
  <2> DEFINE x == T[t]
             z == x.rows \o [i \in DOMAIN OldInserts(T, t, paid, claims, error, c) |->
                               Over(OldInserts(T, t, paid, claims, error, c)[i], x.default)]
  <2>1. x = [default |-> x.default, rows |-> x.rows]
    BY <1>2 DEF Fits, IsTable
  <2>2. W(t) = [x EXCEPT !.rows = z]
    BY DEF WithRows
  <2> HIDE DEF z, x, W
  <2>3. W(t).default = x.default
    BY <2>1, <2>2
  <2> QED BY <2>3 DEF x
<1> HIDE DEF W
<1>8. Fits(v, U)
  <2>1. \A t \in TablesAt(v) : IsTable(U[t], ColumnsOf(v, t), RequiredOf(v, t))
    BY <1>4, <1>6
  <2>2. v >= 10 => U["analytics_config"].rows # <<>>
    <3>1. v >= 10 => "analytics_config" \in TablesAt(v)
      BY DEF TablesAt, AllTables, Created
    <3> QED BY <1>4, <1>6, <3>1 DEF LastHas
  <2>3. v = 19 => \A k \in ColumnsOf(19, "payments") : k # "hash" => U["payments"].default[k] = Null
    <3>1. "payments" \in TablesAt(19)
      BY DEF TablesAt, AllTables, Created
    <3> QED BY <1>2, <1>6, <1>7, <3>1 DEF Fits
  <2> QED
    BY <1>6, <2>1, <2>2, <2>3 DEF Fits
<1>9. HasInserts(v, U, paid, claims, error, c)
  <2>1. ASSUME NEW t \in TablesAt(v)
        PROVE  /\ t \in {"payments", "exchange_rates_history"} =>
                    HasOldRows(U[t], t, ColumnsOf(v, t), paid, error)
               /\ t = "offers" => HasOldRows(U[t], t, ColumnsOf(v, t), claims, error)
               /\ t = "analytics_config" => LastHas(U[t], [status |-> c.analytics])
               /\ t = "lightning_addresses" => LastHas(U[t], OldAddress(T, c.address))
    BY <1>4, <1>6
  <2> QED
    BY <2>1 DEF HasInserts, T
<1> QED
  BY <1>8, <1>9

Preferences ==
  <<<<"payments", "timezone_id">>, <<"payments", "timezone_utc_offset_secs">>, PaidIn>>

RateOf ==
  <<PaidIn, <<"exchange_rates_history", "rate">>, <<"exchange_rates_history", "updated_at">>>>

\* What the wallet may know of a payment: everything, or a note.
IsInfo(s) ==
  /\ s = [user_preferences |-> s.user_preferences, exchange_rate |-> s.exchange_rate, offer |-> s.offer,
          personal_note |-> s.personal_note, received_on |-> s.received_on,
          received_lnurl_comment |-> s.received_lnurl_comment]
  /\ \/ s.user_preferences = Preferences /\ s.exchange_rate = RateOf
     \/ s.user_preferences = Null /\ s.exchange_rate = Null /\ s.offer = Null

IsStored(st) ==
  /\ st = [p \in Recorded |-> st[p]]
  /\ \A p \in Recorded : st[p] # Null => IsInfo(st[p])

\* What the wallet was told of a payment that was stored as a whole.
LEMMA ToldIsInfo ==
  ASSUME NEW v, NEW p, NEW error
  PROVE  /\ IsInfo(Told(v, p, error)) /\ Told(v, p, error) # Null
         /\ Told(v, p, error).user_preferences = Preferences
         /\ Told(v, p, error).exchange_rate = RateOf /\ HasRates(Told(v, p, error))
         /\ HasOffer(Told(v, p, error)) <=> p \in Claims
<1> DEFINE s == Told(v, p, error)
<1>1. s # Null
  BY RecordNotNull DEF Told
<1>2. s.user_preferences = Preferences /\ s.exchange_rate = RateOf
  BY DEF Told, Preferences, RateOf, PaidIn
<1>3. s = [user_preferences |-> s.user_preferences, exchange_rate |-> s.exchange_rate, offer |-> s.offer,
           personal_note |-> s.personal_note, received_on |-> s.received_on,
           received_lnurl_comment |-> s.received_lnurl_comment]
  BY DEF Told
<1>4. s.offer # Null <=> p \in Claims
  BY DEF Told, Null
<1>5. RateOf # Null
  BY DEF RateOf, Null
<1> HIDE DEF s
<1>6. IsInfo(s) /\ HasRates(s) /\ (HasOffer(s) <=> p \in Claims)
  BY <1>1, <1>2, <1>3, <1>4, <1>5 DEF IsInfo, HasRates, HasOffer
<1> QED
  BY <1>1, <1>2, <1>6 DEF s

\* What was told of payments in a file of version v.
ToldOf(v, paid, error) ==
  [p \in Recorded |-> IF p \in ToSet(paid) THEN Told(v, p, error) ELSE Null]

\* The history of a file of these payments.
LEMMA ToldOfIs ==
  ASSUME NEW v, NEW paid, ToSet(paid) \subseteq Recorded, NEW error
  PROVE  /\ IsStored(ToldOf(v, paid, error))
         /\ \A i \in DOMAIN paid :
              paid[i] \in Recorded /\ ToldOf(v, paid, error)[paid[i]] = Told(v, paid[i], error)
         /\ \A p \in Recorded : ToldOf(v, paid, error)[p] # Null =>
              ToldOf(v, paid, error)[p] = Told(v, p, error) /\ \E i \in DOMAIN paid : paid[i] = p
<1> DEFINE st == ToldOf(v, paid, error)
<1>1. st = [p \in Recorded |-> st[p]]
  BY DEF ToldOf
<1>2. \A p \in Recorded : st[p] = IF p \in ToSet(paid) THEN Told(v, p, error) ELSE Null
  BY DEF ToldOf
<1> HIDE DEF st
<1>3. \A p \in Recorded : st[p] # Null => st[p] = Told(v, p, error) /\ p \in ToSet(paid)
  BY <1>2
<1>4. IsStored(st)
  BY <1>1, <1>3, ToldIsInfo DEF IsStored
<1>5. \A i \in DOMAIN paid : paid[i] \in Recorded /\ paid[i] \in ToSet(paid)
  BY DEF ToSet
<1>6. \A i \in DOMAIN paid : st[paid[i]] = Told(v, paid[i], error)
  BY <1>2, <1>5
<1>7. \A p \in ToSet(paid) : \E i \in DOMAIN paid : paid[i] = p
  BY DEF ToSet
<1> QED
  BY <1>3, <1>4, <1>5, <1>6, <1>7 DEF st

\* The values of the columns a payment is read from.
LEMMA OldValues ==
  ASSUME NEW p, NEW error
  PROVE  /\ OldValue("payments", "hash", p, error) = <<p>>
         /\ OldValue("payments", OldName, p, error) = <<p>>
         /\ OldValue("payments", NewName, p, error) = <<p>>
         /\ OldValue("payments", "timezone_id", p, error) = <<"payments", "timezone_id">>
         /\ OldValue("payments", "timezone_utc_offset_secs", p, error) = <<"payments", "timezone_utc_offset_secs">>
         /\ OldValue("payments", "fiat_currency", p, error) = PaidIn
         /\ OldValue("payments", "personal_note", p, error) = <<"payments", "personal_note">>
         /\ OldValue("payments", "received_on", p, error) = <<"payments", "received_on">>
         /\ OldValue("payments", "received_lnurl_comment", p, error) = <<"payments", "received_lnurl_comment">>
         /\ OldValue("exchange_rates_history", "snapshot_id", p, error) = <<p>>
         /\ OldValue("exchange_rates_history", "fiat_currency", p, error) = PaidIn
         /\ OldValue("exchange_rates_history", "rate", p, error) = <<"exchange_rates_history", "rate">>
         /\ OldValue("exchange_rates_history", "updated_at", p, error) = <<"exchange_rates_history", "updated_at">>
         /\ OldValue("offers", "payment_hash", p, error) = <<p>>
         /\ OldValue("offers", "error", p, error) = FromOfferError[error]
         /\ \A c \in OfferColumns(19) : c \notin {"payment_hash", "error"} =>
              OldValue("offers", c, p, error) = <<"offers", c>>
BY DEF OldValue, Value, Keys, PaidIn, OldName, NewName, OfferColumns

\* The rows of an old file tell of its payments, their rates and their offers.
LEMMA OldPaymentsTell ==
  ASSUME NEW v \in 1..19, NEW paid, ToSet(paid) \subseteq Recorded, NEW error, NEW table,
         HasOldRows(table, "payments", PaymentColumns(v), paid, error)
  PROVE  PaymentsTell(table.rows, ToldOf(v, paid, error))
<1> DEFINE st == ToldOf(v, paid, error)
           rows == table.rows
<1>1. /\ DOMAIN rows = DOMAIN paid
      /\ \A i \in DOMAIN paid :
           /\ \A c \in PaymentColumns(v) : c # "id" => Cell(rows[i], c) = OldValue("payments", c, paid[i], error)
           /\ \A c : c \notin PaymentColumns(v) => Cell(rows[i], c) = Null
  BY DEF HasOldRows
<1>2. /\ \A i \in DOMAIN paid :
              paid[i] \in Recorded /\ st[paid[i]] = Told(v, paid[i], error)
      /\ \A p \in Recorded : st[p] # Null =>
              st[p] = Told(v, p, error) /\ \E i \in DOMAIN paid : paid[i] = p
  BY ToldOfIs
<1> HIDE DEF st, rows
<1>3. ASSUME NEW i \in DOMAIN paid, NEW p, p = paid[i], NEW r, r = rows[i]
      PROVE  Cell(r, "hash") = <<p>> /\ PaymentRow(r, p, Told(v, p, error))
  <2>1. /\ \A c \in PaymentColumns(v) : c # "id" => Cell(r, c) = OldValue("payments", c, p, error)
        /\ \A c : c \notin PaymentColumns(v) => Cell(r, c) = Null
    BY <1>1, <1>3
  <2>2. /\ Cell(r, "hash") = <<p>>
        /\ Cell(r, "timezone_id") = <<"payments", "timezone_id">>
        /\ Cell(r, "timezone_utc_offset_secs") = <<"payments", "timezone_utc_offset_secs">>
        /\ Cell(r, "fiat_currency") = PaidIn
    <3>1. {"hash", "timezone_id", "timezone_utc_offset_secs", "fiat_currency"} \subseteq PaymentColumns(v)
      BY DEF PaymentColumns
    <3> QED BY <2>1, <3>1, OldValues
  <2>3. Snapshot(r) = <<p>>
    <3>1. CASE v < 19
      <4>1. OldName \in PaymentColumns(v) /\ OldName # "id"
        BY <3>1 DEF PaymentColumns, OldName
      <4>2. Cell(r, OldName) = <<p>>
        BY <2>1, <4>1, OldValues
      <4> QED BY <4>2, NotNull DEF Snapshot
    <3>2. CASE v = 19
      <4>1. NewName \in PaymentColumns(v) /\ OldName \notin PaymentColumns(v) /\ NewName # "id"
        BY <3>2 DEF PaymentColumns, OldName, NewName
      <4>2. Cell(r, NewName) = <<p>> /\ Cell(r, OldName) = Null
        BY <2>1, <4>1, OldValues
      <4> QED BY <4>2 DEF Snapshot
    <3> QED
      BY <3>1, <3>2
  <2>4. Cell(r, "personal_note") = Told(v, p, error).personal_note
    <3>1. "personal_note" \in PaymentColumns(v) <=> v >= 13
      BY DEF PaymentColumns
    <3> QED BY <2>1, <3>1, OldValues DEF Told, From
  <2>5. Cell(r, "received_on") = Told(v, p, error).received_on
    <3>1. "received_on" \in PaymentColumns(v) <=> v >= 14
      BY DEF PaymentColumns
    <3> QED BY <2>1, <3>1, OldValues DEF Told, From
  <2>6. Cell(r, "received_lnurl_comment") = Told(v, p, error).received_lnurl_comment
    <3>1. "received_lnurl_comment" \in PaymentColumns(v) <=> v >= 14
      BY DEF PaymentColumns
    <3> QED BY <2>1, <3>1, OldValues DEF Told, From
  <2>7. Told(v, p, error).user_preferences =
          <<<<"payments", "timezone_id">>, <<"payments", "timezone_utc_offset_secs">>, PaidIn>>
    BY DEF Told, PaidIn
  <2> QED
    BY <2>2, <2>3, <2>4, <2>5, <2>6, <2>7 DEF PaymentRow
<1>4. \A i \in DOMAIN rows : \E p \in Recorded :
        Cell(rows[i], "hash") = <<p>> /\ st[p] # Null /\ PaymentRow(rows[i], p, st[p])
  <2> TAKE i \in DOMAIN rows
  <2> DEFINE p == paid[i]
  <2>1. p \in Recorded /\ st[p] = Told(v, p, error)
    BY <1>1, <1>2
  <2>2. Cell(rows[i], "hash") = <<p>> /\ PaymentRow(rows[i], p, Told(v, p, error))
    BY <1>1, <1>3
  <2>3. Told(v, p, error) # Null
    BY ToldIsInfo
  <2> HIDE DEF p
  <2> QED BY <2>1, <2>2, <2>3
<1>5. \A p \in Recorded : st[p] # Null => \E i \in DOMAIN rows : Cell(rows[i], "hash") = <<p>>
  BY <1>1, <1>2, <1>3
<1>6. PaymentsTell(rows, st)
  BY <1>4, <1>5 DEF PaymentsTell
<1> QED
  BY <1>6 DEF st, rows

LEMMA OldRatesTell ==
  ASSUME NEW v \in 1..19, NEW paid, ToSet(paid) \subseteq Recorded, NEW error, NEW table,
         HasOldRows(table, "exchange_rates_history", RateColumns, paid, error)
  PROVE  RatesTell(table.rows, ToldOf(v, paid, error))
<1> DEFINE st == ToldOf(v, paid, error)
           rows == table.rows
<1>1. /\ DOMAIN rows = DOMAIN paid
      /\ \A i \in DOMAIN paid : \A c \in RateColumns : c # "id" =>
           Cell(rows[i], c) = OldValue("exchange_rates_history", c, paid[i], error)
  BY DEF HasOldRows
<1>2. /\ \A i \in DOMAIN paid :
              paid[i] \in Recorded /\ st[paid[i]] = Told(v, paid[i], error)
      /\ \A p \in Recorded : st[p] # Null =>
              st[p] = Told(v, p, error) /\ \E i \in DOMAIN paid : paid[i] = p
  BY ToldOfIs
<1> HIDE DEF st, rows
<1>3. ASSUME NEW i \in DOMAIN paid, NEW p, p = paid[i], NEW r, r = rows[i]
      PROVE  /\ Cell(r, "snapshot_id") = <<p>>
             /\ Cell(r, "fiat_currency") = PaidIn
             /\ Cell(r, "rate") = <<"exchange_rates_history", "rate">>
             /\ Cell(r, "updated_at") = <<"exchange_rates_history", "updated_at">>
  <2>1. \A c \in RateColumns : c # "id" => Cell(r, c) = OldValue("exchange_rates_history", c, p, error)
    BY <1>1, <1>3
  <2>2. {"snapshot_id", "fiat_currency", "rate", "updated_at"} \subseteq RateColumns
    BY DEF RateColumns
  <2> QED BY <2>1, <2>2, OldValues
<1>4. \A i \in DOMAIN rows : \E p \in Recorded :
       /\ Cell(rows[i], "snapshot_id") = <<p>> /\ HasRates(st[p])
       /\ Cell(rows[i], "fiat_currency") = PaidIn
       /\ Cell(rows[i], "rate") = <<"exchange_rates_history", "rate">>
       /\ Cell(rows[i], "updated_at") = <<"exchange_rates_history", "updated_at">>
  <2> TAKE i \in DOMAIN rows
  <2> DEFINE p == paid[i]
  <2>1. p \in Recorded /\ st[p] = Told(v, p, error) /\ HasRates(Told(v, p, error))
    BY <1>1, <1>2, ToldIsInfo
  <2>2. /\ Cell(rows[i], "snapshot_id") = <<p>>
        /\ Cell(rows[i], "fiat_currency") = PaidIn
        /\ Cell(rows[i], "rate") = <<"exchange_rates_history", "rate">>
        /\ Cell(rows[i], "updated_at") = <<"exchange_rates_history", "updated_at">>
    BY <1>1, <1>3
  <2> HIDE DEF p
  <2> QED BY <2>1, <2>2
<1>5. \A p \in Recorded : HasRates(st[p]) => \E i \in DOMAIN rows : Cell(rows[i], "snapshot_id") = <<p>>
  <2>1. \A p \in Recorded : HasRates(st[p]) => st[p] # Null
    BY DEF HasRates
  <2> QED BY <1>1, <1>2, <1>3, <2>1
<1>6. RatesTell(rows, st)
  BY <1>4, <1>5 DEF RatesTell
<1> QED
  BY <1>6 DEF st, rows

\* An offer of before errors were stored has none.
LEMMA NoErrorBack == ToOfferError(Null) = "none"
<1>1. "none" \in DOMAIN FromOfferError /\ FromOfferError["none"] = Null
  BY DEF FromOfferError
<1> QED
  BY <1>1, ErrorBack

LEMMA OldOffersTell ==
  ASSUME NEW v \in 1..19, NEW paid, ToSet(paid) \subseteq Recorded,
         NEW claims, ToSet(claims) = ToSet(paid) \cap Claims,
         NEW error \in DOMAIN FromOfferError, NEW table,
         HasOldRows(table, "offers", OfferColumns(v), claims, error)
  PROVE  OffersTell(table.rows, ToldOf(v, paid, error))
<1> DEFINE st == ToldOf(v, paid, error)
           rows == table.rows
<1>1. /\ DOMAIN rows = DOMAIN claims
      /\ \A i \in DOMAIN claims :
           /\ \A c \in OfferColumns(v) : c # "id" => Cell(rows[i], c) = OldValue("offers", c, claims[i], error)
           /\ \A c : c \notin OfferColumns(v) => Cell(rows[i], c) = Null
  BY DEF HasOldRows
<1>2. \A p \in Recorded : st[p] = IF p \in ToSet(paid) THEN Told(v, p, error) ELSE Null
  BY DEF ToldOf
<1>3. /\ \A i \in DOMAIN claims : claims[i] \in ToSet(claims)
      /\ \A p \in ToSet(claims) : \E i \in DOMAIN claims : claims[i] = p
  BY DEF ToSet
<1> HIDE DEF st, rows
<1>4. ASSUME NEW i \in DOMAIN claims, NEW p, p = claims[i], NEW r, r = rows[i]
      PROVE  Cell(r, "payment_hash") = <<p>> /\ OfferRow(r, Told(v, p, error).offer)
  <2>0. p \in Claims
    BY <1>3, <1>4
  <2>1. /\ \A c \in OfferColumns(v) : c # "id" => Cell(r, c) = OldValue("offers", c, p, error)
        /\ \A c : c \notin OfferColumns(v) => Cell(r, c) = Null
    BY <1>1, <1>4
  <2>2. /\ {"payment_hash", "pocket_id", "fiat_currency", "rate", "exchanged_at", "topup_value_minor_units",
            "exchange_fee_minor_units", "exchange_fee_rate_permyriad"} \subseteq OfferColumns(v)
        /\ OfferColumns(v) \subseteq OfferColumns(19) /\ "id" \notin OfferColumns(v)
    BY DEF OfferColumns
  <2>3. Cell(r, "payment_hash") = <<p>>
    BY <2>1, <2>2, OldValues
  <2>4. \A c \in OfferColumns(v) : c \notin {"payment_hash", "error"} => Cell(r, c) = <<"offers", c>>
    BY <2>1, <2>2, OldValues
  <2>5. /\ Cell(r, "pocket_id") = <<"offers", "pocket_id">>
        /\ Cell(r, "fiat_currency") = <<"offers", "fiat_currency">>
        /\ Cell(r, "rate") = <<"offers", "rate">>
        /\ Cell(r, "exchanged_at") = <<"offers", "exchanged_at">>
        /\ Cell(r, "topup_value_minor_units") = <<"offers", "topup_value_minor_units">>
        /\ Cell(r, "exchange_fee_minor_units") = <<"offers", "exchange_fee_minor_units">>
        /\ Cell(r, "exchange_fee_rate_permyriad") = <<"offers", "exchange_fee_rate_permyriad">>
    BY <2>2, <2>4
  <2>6. Cell(r, "topup_value_sats") = From(v, 8, <<"offers", "topup_value_sats">>)
    <3>1. "topup_value_sats" \in OfferColumns(v) <=> v >= 8
      BY DEF OfferColumns
    <3> QED BY <2>1, <2>4, <3>1 DEF From
  <2>7. ToOfferError(Cell(r, "error")) = IF v >= 3 THEN error ELSE "none"
    <3>1. "error" \in OfferColumns(v) <=> v >= 3
      BY DEF OfferColumns
    <3>2. CASE v >= 3
      <4>1. Cell(r, "error") = FromOfferError[error]
        BY <2>1, <2>2, <3>1, <3>2, OldValues
      <4> QED BY <3>2, <4>1, ErrorBack
    <3>3. CASE ~(v >= 3)
      <4>1. Cell(r, "error") = Null
        BY <2>1, <3>1, <3>3
      <4> QED BY <3>3, <4>1, NoErrorBack
    <3> QED
      BY <3>2, <3>3
  <2>8. Told(v, p, error).offer =
          <<<<"offers", "pocket_id">>, <<"offers", "fiat_currency">>, <<"offers", "rate">>,
            <<"offers", "exchanged_at">>, <<"offers", "topup_value_minor_units">>,
            <<"offers", "exchange_fee_minor_units">>, <<"offers", "exchange_fee_rate_permyriad">>,
            From(v, 8, <<"offers", "topup_value_sats">>), IF v >= 3 THEN error ELSE "none">>
    BY <2>0 DEF Told
  <2> QED
    BY <2>3, <2>5, <2>6, <2>7, <2>8, NotNull DEF OfferRow
<1>5. \A p \in Recorded : HasOffer(st[p]) <=> p \in ToSet(claims)
  <2>1. \A p : HasOffer(Told(v, p, error)) <=> p \in Claims
    BY ToldIsInfo
  <2>2. ~HasOffer(Null)
    BY DEF HasOffer
  <2> QED BY <1>2, <2>1, <2>2
<1>6. \A i \in DOMAIN rows : \E p \in Recorded :
       Cell(rows[i], "payment_hash") = <<p>> /\ HasOffer(st[p]) /\ OfferRow(rows[i], st[p].offer)
  <2> TAKE i \in DOMAIN rows
  <2> DEFINE p == claims[i]
  <2>1. p \in Recorded /\ p \in ToSet(claims) /\ st[p] = Told(v, p, error)
    BY <1>1, <1>2, <1>3
  <2>2. Cell(rows[i], "payment_hash") = <<p>> /\ OfferRow(rows[i], Told(v, p, error).offer)
    BY <1>1, <1>4
  <2> HIDE DEF p
  <2> QED BY <1>5, <2>1, <2>2
<1>7. \A p \in Recorded : HasOffer(st[p]) => \E i \in DOMAIN rows : Cell(rows[i], "payment_hash") = <<p>>
  BY <1>1, <1>3, <1>4, <1>5
<1>8. OffersTell(rows, st)
  BY <1>6, <1>7 DEF OffersTell
<1> QED
  BY <1>8 DEF st, rows

OpenersType == opener \in [Openers -> [at : {"closed", "refused", "migrating", "open"}, seen : 0..19]]

\* What a process has seen of the version.
VersionSeen(o) ==
  /\ opener[o].at = "migrating" =>
       opener[o].seen < 19 /\ (opener[o].seen = db.version \/ db.version = 19)
  /\ opener[o].at = "open" => db.version = 19
  /\ opener[o].at = "refused" => opener[o].seen < db.version /\ db.version = 19

FileInv ==
  /\ db = [version |-> db.version, tables |-> db.tables]
  /\ db.version \in 0..19
  /\ Fits(db.version, db.tables)
  /\ Tells(db.tables, stored, chosen)

HistoryInv ==
  /\ IsStored(stored)
  /\ chosen = [analytics |-> chosen.analytics, address |-> chosen.address]

MigrationsInv ==
  /\ OpenersType
  /\ \A o \in Openers : VersionSeen(o)
  /\ FileInv
  /\ HistoryInv

\* A file of any version fits, and tells what the wallet was told.
LEMMA OldTablesTell ==
  ASSUME NEW v \in 0..19, NEW paid, IsSeq(paid), ToSet(paid) \subseteq Recorded,
         NEW claims, IsSeq(claims), ToSet(claims) = ToSet(paid) \cap Claims,
         NEW error \in DOMAIN FromOfferError, NEW c, v = 0 => paid = <<>>,
         v < 10 => c.analytics = Zero, v < 12 => c.address = Null,
         v \in 12..14 => c.address = Zero,
         NEW U, U = OldFile(v, paid, claims, error, c).tables
  PROVE  Fits(v, U) /\ Tells(U, ToldOf(v, paid, error), c)
<1> DEFINE st == ToldOf(v, paid, error)
<1>0. Fits(v, U) /\ HasInserts(v, U, paid, claims, error, c)
  BY OldFileFits
<1>1. Fits(v, U) /\ DOMAIN U = TablesAt(v)
  BY <1>0 DEF Fits
<1>2. \A t \in TablesAt(v) :
         /\ t \in {"payments", "exchange_rates_history"} =>
              HasOldRows(U[t], t, ColumnsOf(v, t), paid, error)
         /\ t = "offers" => HasOldRows(U[t], t, ColumnsOf(v, t), claims, error)
         /\ t = "analytics_config" => LastHas(U[t], [status |-> c.analytics])
         /\ t = "lightning_addresses" => LastHas(U[t], OldAddress(TablesOf(v), c.address))
  BY <1>0 DEF HasInserts
<1>3. /\ v >= 1 => {"payments", "exchange_rates_history", "offers"} \subseteq TablesAt(v)
      /\ v = 0 => "payments" \notin TablesAt(v) /\ "exchange_rates_history" \notin TablesAt(v)
                  /\ "offers" \notin TablesAt(v)
      /\ v >= 10 => "analytics_config" \in TablesAt(v)
      /\ v < 10 => "analytics_config" \notin TablesAt(v)
      /\ v >= 12 => "lightning_addresses" \in TablesAt(v)
      /\ v < 12 => "lightning_addresses" \notin TablesAt(v)
  BY DEF TablesAt, AllTables, Created
<1>4. /\ PaymentsTell(RowsOf(U, "payments"), st)
      /\ RatesTell(RowsOf(U, "exchange_rates_history"), st)
      /\ OffersTell(RowsOf(U, "offers"), st)
  <2>1. CASE v = 0
    <3>1. \A p \in Recorded : st[p] = Null
      <4>1. ToSet(paid) = {}
        BY <2>1 DEF ToSet
      <4> QED BY <4>1 DEF ToldOf
    <3>2. /\ RowsOf(U, "payments") = <<>> /\ RowsOf(U, "exchange_rates_history") = <<>>
          /\ RowsOf(U, "offers") = <<>>
      BY <1>1, <1>3, <2>1 DEF RowsOf
    <3>3. DOMAIN <<>> = {}
      OBVIOUS
    <3> HIDE DEF st
    <3> QED
      BY <3>1, <3>2, <3>3 DEF PaymentsTell, RatesTell, OffersTell, HasRates, HasOffer
  <2>2. CASE v # 0
    <3>1. v \in 1..19
      BY <2>2
    <3>2. /\ ColumnsOf(v, "payments") = PaymentColumns(v)
          /\ ColumnsOf(v, "exchange_rates_history") = RateColumns
          /\ ColumnsOf(v, "offers") = OfferColumns(v)
      BY DEF ColumnsOf
    <3>3. /\ HasOldRows(U["payments"], "payments", PaymentColumns(v), paid, error)
          /\ HasOldRows(U["exchange_rates_history"], "exchange_rates_history", RateColumns, paid, error)
          /\ HasOldRows(U["offers"], "offers", OfferColumns(v), claims, error)
      BY <1>2, <1>3, <3>1, <3>2
    <3>4. PaymentsTell(U["payments"].rows, st)
      BY <3>1, <3>3, OldPaymentsTell
    <3>5. RatesTell(U["exchange_rates_history"].rows, st)
      BY <3>1, <3>3, OldRatesTell
    <3>6. OffersTell(U["offers"].rows, st)
      BY <3>1, <3>3, OldOffersTell
    <3> HIDE DEF st
    <3> QED
      BY <1>1, <1>3, <3>1, <3>4, <3>5, <3>6 DEF RowsOf
  <2> QED
    BY <2>1, <2>2
<1> HIDE DEF st
<1>5. AnalyticsTell(RowsOf(U, "analytics_config"), c)
  <2>1. CASE v < 10
    <3>1. RowsOf(U, "analytics_config") = <<>>
      BY <1>1, <1>3, <2>1 DEF RowsOf
    <3> QED BY <2>1, <3>1 DEF AnalyticsTell
  <2>2. CASE v >= 10
    <3> DEFINE t == "analytics_config"
               row == [status |-> c.analytics]
               table == U[t]
               last == table.rows[Len(table.rows)]
    <3>1. LastHas(table, row) /\ RowsOf(U, t) = table.rows
      BY <1>1, <1>2, <1>3, <2>2 DEF RowsOf
    <3>2. DOMAIN row = {"status"} /\ row["status"] = c.analytics
      OBVIOUS
    <3> HIDE DEF table, row
    <3>3. last = Over(row, table.default) /\ table.rows # <<>>
      BY <3>1 DEF LastHas
    <3> HIDE DEF last
    <3>4. Cell(last, "status") = c.analytics
      BY <3>2, <3>3 DEF Over, Cell
    <3> QED
      BY <3>1, <3>3, <3>4 DEF AnalyticsTell, last
  <2> QED
    BY <2>1, <2>2
<1>6. AddressTells(RowsOf(U, "lightning_addresses"), c)
  <2>1. CASE v < 12
    <3>1. RowsOf(U, "lightning_addresses") = <<>>
      BY <1>1, <1>3, <2>1 DEF RowsOf
    <3> QED BY <2>1, <3>1 DEF AddressTells
  <2>2. CASE v >= 12
    <3> DEFINE t == "lightning_addresses"
               row == OldAddress(TablesOf(v), c.address)
               table == U[t]
               last == table.rows[Len(table.rows)]
    <3>1. LastHas(table, row) /\ RowsOf(U, t) = table.rows /\ IsTable(table, AddressColumns(v), RequiredOf(v, t))
      BY <1>1, <1>2, <1>3, <2>2 DEF RowsOf, Fits, ColumnsOf
    <3>2. Columns(TablesOf(v), t) = AddressColumns(v)
      <4>1. Fits(v, TablesOf(v))
        BY TablesOfFit
      <4>2. t \in DOMAIN TablesOf(v) /\ IsTable(TablesOf(v)[t], AddressColumns(v), RequiredOf(v, t))
        BY <1>3, <2>2, <4>1 DEF Fits, ColumnsOf
      <4> QED BY <4>2 DEF Columns, IsTable
    <3>3. v >= 15 => DOMAIN row = {"address", "enable_status"} /\ row["enable_status"] = c.address
      BY <3>2 DEF OldAddress, AddressColumns
    <3> HIDE DEF table, row
    <3>4. last = Over(row, table.default) /\ table.rows # <<>> /\ Len(table.rows) \in DOMAIN table.rows
      BY <3>1 DEF LastHas
    <3>5. DOMAIN last = AddressColumns(v)
      BY <3>1, <3>4 DEF IsTable
    <3> HIDE DEF last
    <3>6. Status(last) = c.address
      <4>1. CASE v >= 15
        <5>1. "enable_status" \in DOMAIN last
          BY <3>5, <4>1 DEF AddressColumns
        <5>2. last["enable_status"] = c.address
          BY <3>3, <3>4, <4>1 DEF Over
        <5> QED BY <5>1, <5>2 DEF Status
      <4>2. CASE v < 15
        <5>1. "enable_status" \notin DOMAIN last
          BY <3>5, <4>2 DEF AddressColumns
        <5>2. c.address = Zero
          BY <2>2, <4>2
        <5> QED BY <5>1, <5>2 DEF Status
      <4> QED BY <4>1, <4>2
    <3> QED
      BY <3>1, <3>4, <3>6 DEF AddressTells, last
  <2> QED
    BY <2>1, <2>2
<1>7. Tells(U, st, c)
  BY <1>4, <1>5, <1>6 DEF Tells
<1> QED
  BY <1>1, <1>7 DEF st

\* Files of every age satisfy the invariant.
LEMMA InitFits ==
  ASSUME MigrationsInit
  PROVE  MigrationsInv
<1>1. PICK v \in 0..Latest, paid \in SetToAllKPermutations(Recorded),
           claims \in SetToAllKPermutations(Claims), error \in DOMAIN FromOfferError,
           analytics \in {Zero, One}, address \in {Zero, One} :
       /\ v = 0 => paid = <<>>
       /\ ToSet(claims) = ToSet(paid) \cap Claims
       /\ v < 10 => analytics = Zero
       /\ v < 15 => address = Zero
       /\ chosen = [analytics |-> analytics, address |-> IF v < 12 THEN Null ELSE address]
       /\ stored = [p \in Recorded |-> IF p \in ToSet(paid) THEN Told(v, p, error) ELSE Null]
       /\ db = OldFile(v, paid, claims, error, chosen)
  BY DEF MigrationsInit
<1>2. opener = [o \in Openers |-> [at |-> "closed", seen |-> 0]]
  BY DEF MigrationsInit
<1>3. v \in 0..19
  BY TheMigrations
<1>4. IsSeq(paid) /\ ToSet(paid) \subseteq Recorded /\ IsSeq(claims)
  <2>1. IsFiniteSet(Recorded) /\ IsFiniteSet(Claims)
    BY MigrationsAssumption, FS_Subset
  <2> QED BY <2>1, AllPermutations
<1>5. stored = ToldOf(v, paid, error)
  BY <1>1 DEF ToldOf
<1>6. /\ v < 10 => chosen.analytics = Zero
      /\ v < 12 => chosen.address = Null
      /\ v \in 12..14 => chosen.address = Zero
      /\ chosen = [analytics |-> chosen.analytics, address |-> chosen.address]
  BY <1>1, <1>3
<1>7. db.version = v /\ db = [version |-> db.version, tables |-> db.tables]
  <2>0. db = OldFile(v, paid, claims, error, chosen)
    BY <1>1
  <2>1. db.version = v
    BY <2>0 DEF OldFile
  <2>2. db = [version |-> db.version, tables |-> db.tables]
    BY <2>0 DEF OldFile
  <2> QED BY <2>1, <2>2
<1>8. Fits(v, db.tables) /\ Tells(db.tables, stored, chosen)
  <2>1. /\ v = 0 => paid = <<>>
        /\ ToSet(claims) = ToSet(paid) \cap Claims
        /\ db.tables = OldFile(v, paid, claims, error, chosen).tables
    BY <1>1
  <2>2. Fits(v, db.tables) /\ Tells(db.tables, ToldOf(v, paid, error), chosen)
    BY <1>3, <1>4, <1>6, <2>1, OldTablesTell
  <2> QED BY <1>5, <2>2
<1>9. IsStored(stored)
  BY <1>4, <1>5, ToldOfIs
<1>10. OpenersType /\ \A o \in Openers : VersionSeen(o)
  BY <1>2 DEF OpenersType, VersionSeen
<1> QED
  BY <1>3, <1>6, <1>7, <1>8, <1>9, <1>10 DEF MigrationsInv, FileInv, HistoryInv

-----------------------------------------------------------------------------
(* Migrations that were done already                                         *)

\* A transaction of which the first statement fails.
StartsWith(s, first) == Len(s) \in Nat /\ Len(s) >= 1 /\ s[1] = first

\* A migration whose first statement fails, fails.
LEMMA FailsAtFirst ==
  ASSUME NEW T, NEW s, NEW first, StartsWith(s, first), Execute(After(T), first) = Failed(T)
  PROVE  Run(After(T), s) = Failed(T)
<1>0. Len(s) \in Nat /\ Len(s) >= 1 /\ s[1] = first
  BY DEF StartsWith
<1>1. PICK f : /\ f[0] = After(T)
               /\ \A n \in 1..Len(s) : f[n] = Execute(f[n - 1], s[n])
               /\ Run(After(T), s) = f[Len(s)]
  BY <1>0, Runs
<1> DEFINE Bad == {n \in 1..Len(s) : f[n] # Failed(T)}
<1>2. Bad = {}
  <2> SUFFICES ASSUME Bad # {} PROVE FALSE
    OBVIOUS
  <2>1. PICK n \in Bad : \A m \in Bad : n <= m
    <3>1. Bad \subseteq Nat
      OBVIOUS
    <3> HIDE DEF Bad
    <3> QED BY <3>1, Least
  <2>2. n \in 1..Len(s) /\ f[n] # Failed(T)
    OBVIOUS
  <2>3. n # 1
    <3>1. f[1] = Execute(f[0], s[1])
      <4>1. 1 \in 1..Len(s) /\ 1 - 1 = 0
        BY <1>0
      <4> QED BY <1>1, <4>1
    <3> QED BY <1>0, <1>1, <2>2, <3>1
  <2>4. n - 1 \in 1..Len(s) /\ ~(n <= n - 1)
    BY <1>0, <2>2, <2>3
  <2>5. n - 1 \notin Bad
    <3> HIDE DEF Bad
    <3> QED BY <2>1, <2>4
  <2>6. f[n - 1] = Failed(T)
    BY <2>4, <2>5
  <2>7. f[n] = Execute(Failed(T), s[n])
    BY <1>1, <2>2, <2>6
  <2> QED
    BY <2>2, <2>7, Executes
<1>3. Len(s) \in 1..Len(s)
  BY <1>0
<1> QED
  BY <1>1, <1>2, <1>3

\* Migration k fails on tables that have all of them.
Fails(k) == \A T : Fits(19, T) => \E V : Run(After(T), migrations[k]) = Failed(V)

\* A table is not created twice.
LEMMA CreateFails ==
  ASSUME NEW k, NEW t \in AllTables, NEW req, NEW opt, StartsWith(migrations[k], CreateTable(t, req, opt))
  PROVE  Fails(k)
<1> SUFFICES ASSUME NEW T, Fits(19, T)
             PROVE  \E V : Run(After(T), migrations[k]) = Failed(V)
  BY DEF Fails
<1>1. t \in DOMAIN T
  <2>1. t \in TablesAt(19)
    BY DEF TablesAt, AllTables, Created
  <2> QED BY <2>1 DEF Fits
<1>2. Execute(After(T), CreateTable(t, req, opt)) = Failed(T)
  BY <1>1, Creates
<1> QED
  BY <1>2, FailsAtFirst

\* A column is not added twice.
LEMMA AddFails ==
  ASSUME NEW k, NEW t \in AllTables, NEW c \in ColumnsOf(19, t), NEW d,
         StartsWith(migrations[k], AddColumn(t, c, d))
  PROVE  Fails(k)
<1> SUFFICES ASSUME NEW T, Fits(19, T)
             PROVE  \E V : Run(After(T), migrations[k]) = Failed(V)
  BY DEF Fails
<1>1. t \in DOMAIN T /\ IsTable(T[t], ColumnsOf(19, t), RequiredOf(19, t))
  <2>1. t \in TablesAt(19)
    BY DEF TablesAt, AllTables, Created
  <2> QED BY <2>1 DEF Fits
<1>2. c \in DOMAIN T[t].default
  <2>1. DOMAIN T[t].default = ColumnsOf(19, t)
    BY <1>1 DEF IsTable
  <2> QED BY <2>1
<1>3. Execute(After(T), AddColumn(t, c, d)) = Failed(T)
  BY <1>1, <1>2, Adds
<1> QED
  BY <1>3, FailsAtFirst

\* Each migration but the seventh fails on the latest schema.
LEMMA Fails01 == Fails(1)
<1> DEFINE t == "payments"
           req == {"hash", "timezone_id", "timezone_utc_offset_secs", "fiat_currency"}
           opt == Nulls({"exchange_rates_history_snaphot_id"})
<1>1. StartsWith(migrations[1], CreateTable(t, req, opt))
  BY DEF migrations, Init01, StartsWith
<1>2. t \in AllTables
  BY DEF AllTables
<1> HIDE DEF t, req, opt
<1> QED
  BY <1>1, <1>2, CreateFails

LEMMA Fails02 == Fails(2)
<1> DEFINE t == "funds_migration_status"
           req == {"status"}
           opt == Stamped
<1>1. StartsWith(migrations[2], CreateTable(t, req, opt))
  BY DEF migrations, FundsMigrationStatus02, StartsWith
<1>2. t \in AllTables
  BY DEF AllTables
<1> HIDE DEF t, req, opt
<1> QED
  BY <1>1, <1>2, CreateFails

LEMMA Fails03 == Fails(3)
<1> DEFINE t == "offers"
           c == "error"
           d == Null
<1>1. StartsWith(migrations[3], AddColumn(t, c, d))
  BY DEF migrations, OfferErrorMessage03, StartsWith
<1>2. t \in AllTables /\ c \in ColumnsOf(19, t)
  BY DEF AllTables, ColumnsOf, OfferColumns
<1> HIDE DEF t, c, d
<1> QED
  BY <1>1, <1>2, AddFails

LEMMA Fails04 == Fails(4)
<1> DEFINE t == "created_invoices"
           req == {"hash", "invoice"}
           opt == Nulls({"id"})
<1>1. StartsWith(migrations[4], CreateTable(t, req, opt))
  BY DEF migrations, CreatedInvoices04, StartsWith
<1>2. t \in AllTables
  BY DEF AllTables
<1> HIDE DEF t, req, opt
<1> QED
  BY <1>1, <1>2, CreateFails

LEMMA Fails05 == Fails(5)
<1> DEFINE t == "fiat_topup_info"
           req == TopupColumns
           opt == Nulls({})
<1>1. StartsWith(migrations[5], CreateTable(t, req, opt))
  BY DEF migrations, FiatTopupInfo05, StartsWith, TopupColumns
<1>2. t \in AllTables
  BY DEF AllTables
<1> HIDE DEF t, req, opt
<1> QED
  BY <1>1, <1>2, CreateFails

LEMMA Fails06 == Fails(6)
<1> DEFINE t == "created_invoices"
           c == "channel_opening_fees"
           d == Null
<1>1. StartsWith(migrations[6], AddColumn(t, c, d))
  BY DEF migrations, OpeningFees06, StartsWith
<1>2. t \in AllTables /\ c \in ColumnsOf(19, t)
  BY DEF AllTables, ColumnsOf, InvoiceColumns
<1> HIDE DEF t, c, d
<1> QED
  BY <1>1, <1>2, AddFails

LEMMA Fails08 == Fails(8)
<1> DEFINE t == "offers"
           c == "topup_value_sats"
           d == Null
<1>1. StartsWith(migrations[8], AddColumn(t, c, d))
  BY DEF migrations, TopupValue08, StartsWith
<1>2. t \in AllTables /\ c \in ColumnsOf(19, t)
  BY DEF AllTables, ColumnsOf, OfferColumns
<1> HIDE DEF t, c, d
<1> QED
  BY <1>1, <1>2, AddFails

LEMMA Fails09 == Fails(9)
<1> DEFINE t == "created_invoices"
           c == "invoice_expiry_timestamp"
           d == Zero
<1>1. StartsWith(migrations[9], AddColumn(t, c, d))
  BY DEF migrations, InvoiceExpiry09, StartsWith
<1>2. t \in AllTables /\ c \in ColumnsOf(19, t)
  BY DEF AllTables, ColumnsOf, InvoiceColumns
<1> HIDE DEF t, c, d
<1> QED
  BY <1>1, <1>2, AddFails

LEMMA Fails10 == Fails(10)
<1> DEFINE t == "analytics_config"
           req == {"status"}
           opt == Stamped
<1>1. StartsWith(migrations[10], CreateTable(t, req, opt))
  BY DEF migrations, AnalyticsConfig10, StartsWith
<1>2. t \in AllTables
  BY DEF AllTables
<1> HIDE DEF t, req, opt
<1> QED
  BY <1>1, <1>2, CreateFails

LEMMA Fails11 == Fails(11)
<1> DEFINE t == "webhook_base_url"
           req == {"url"}
           opt == Stamped
<1>1. StartsWith(migrations[11], CreateTable(t, req, opt))
  BY DEF migrations, Webhook11, StartsWith
<1>2. t \in AllTables
  BY DEF AllTables
<1> HIDE DEF t, req, opt
<1> QED
  BY <1>1, <1>2, CreateFails

LEMMA Fails12 == Fails(12)
<1> DEFINE t == "lightning_addresses"
           req == {"address"}
           opt == [registered_at |-> Now]
<1>1. StartsWith(migrations[12], CreateTable(t, req, opt))
  BY DEF migrations, LightningAddresses12, StartsWith
<1>2. t \in AllTables
  BY DEF AllTables
<1> HIDE DEF t, req, opt
<1> QED
  BY <1>1, <1>2, CreateFails

LEMMA Fails13 == Fails(13)
<1> DEFINE t == "payments"
           c == "personal_note"
           d == Null
<1>1. StartsWith(migrations[13], AddColumn(t, c, d))
  BY DEF migrations, PersonalNote13, StartsWith
<1>2. t \in AllTables /\ c \in ColumnsOf(19, t)
  BY DEF AllTables, ColumnsOf, PaymentColumns
<1> HIDE DEF t, c, d
<1> QED
  BY <1>1, <1>2, AddFails

LEMMA Fails14 == Fails(14)
<1> DEFINE t == "payments"
           c == "received_on"
           d == Null
<1>1. StartsWith(migrations[14], AddColumn(t, c, d))
  BY DEF migrations, LnurlPayReceiveData14, StartsWith
<1>2. t \in AllTables /\ c \in ColumnsOf(19, t)
  BY DEF AllTables, ColumnsOf, PaymentColumns
<1> HIDE DEF t, c, d
<1> QED
  BY <1>1, <1>2, AddFails

LEMMA Fails15 == Fails(15)
<1> DEFINE t == "lightning_addresses"
           c == "enable_status"
           d == Zero
<1>1. StartsWith(migrations[15], AddColumn(t, c, d))
  BY DEF migrations, EnableStatus15, StartsWith
<1>2. t \in AllTables /\ c \in ColumnsOf(19, t)
  BY DEF AllTables, ColumnsOf, AddressColumns
<1> HIDE DEF t, c, d
<1> QED
  BY <1>1, <1>2, AddFails

LEMMA Fails16 == Fails(16)
<1> DEFINE t == "hidden_channel_close_amount"
           req == {"amount_sat"}
           opt == [id |-> Null, inserted_at |-> Now]
<1>1. StartsWith(migrations[16], CreateTable(t, req, opt))
  BY DEF migrations, HiddenChannelCloses16, StartsWith
<1>2. t \in AllTables
  BY DEF AllTables
<1> HIDE DEF t, req, opt
<1> QED
  BY <1>1, <1>2, CreateFails

LEMMA Fails17 == Fails(17)
<1> DEFINE t == "hidden_failed_swaps"
           req == {"swap_address"}
           opt == [id |-> Null, inserted_at |-> Now]
<1>1. StartsWith(migrations[17], CreateTable(t, req, opt))
  BY DEF migrations, HiddenFailedSwaps17, StartsWith
<1>2. t \in AllTables
  BY DEF AllTables
<1> HIDE DEF t, req, opt
<1> QED
  BY <1>1, <1>2, CreateFails

LEMMA Fails18 == Fails(18)
<1> DEFINE t == "fiat_currency"
           req == {"fiat_currency"}
           opt == [id |-> Null, inserter_at |-> Now]
<1>1. StartsWith(migrations[18], CreateTable(t, req, opt))
  BY DEF migrations, FiatCurrency18, StartsWith
<1>2. t \in AllTables
  BY DEF AllTables
<1> HIDE DEF t, req, opt
<1> QED
  BY <1>1, <1>2, CreateFails

\* The column that was misspelt is gone.
LEMMA Fails19 == Fails(19)
<1> SUFFICES ASSUME NEW T, Fits(19, T)
             PROVE  \E V : Run(After(T), migrations[19]) = Failed(V)
  BY DEF Fails
<1> DEFINE t == "payments"
           n == "payments_new"
           r == {"hash"}
           opt == Optional19
           s == Copy(n, Into19, t, Copied19)
<1>1. migrations[19] = <<CreateTable(n, r, opt), s, Drop(t), Rename(n, t)>>
  BY DEF migrations, PaymentOptionalFields19, Into19, Optional19
<1>2. n \notin DOMAIN T /\ t # n
  BY DEF Fits, TablesAt, AllTables
<1>3. t \in DOMAIN T /\ DOMAIN T[t].default = PaymentColumns(19)
  <2>1. t \in TablesAt(19)
    BY DEF TablesAt, AllTables, Created
  <2>2. t \in DOMAIN T /\ IsTable(T[t], PaymentColumns(19), RequiredOf(19, t))
    BY <2>1 DEF Fits, ColumnsOf
  <2> QED BY <2>2 DEF IsTable
<1>4. s.do = "copy" /\ s.from = t /\ IsSource(s.source, Into19, Copied19)
  <2>1. Pairs(Into19, Copied19)
    BY DEF Pairs, Into19, Copied19
  <2> QED BY <2>1, SourceOfCopy DEF Copy
<1>5. OldName \in Range(s.source) /\ OldName \notin PaymentColumns(19)
  <2> DEFINE source == s.source
  <2>1. DOMAIN source = PaymentColumns(19) /\ source[NewName] = OldName
    BY <1>4, Source19
  <2>2. NewName \in PaymentColumns(19) /\ OldName \notin PaymentColumns(19)
    BY DEF NewName, OldName, PaymentColumns
  <2> HIDE DEF source
  <2>3. OldName \in Range(source)
    BY <2>1, <2>2 DEF Range
  <2> QED BY <2>2, <2>3 DEF source
<1> DEFINE V == WithTable(T, n, NewTable(r, opt))
<1>6. Execute(After(T), CreateTable(n, r, opt)) = After(V)
  BY <1>2, Creates DEF NewTable, WithTable
<1>7. HasTable(V, T, n, NewTable(r, opt))
  BY <1>2, TableIsNew
<1> HIDE DEF V, s, t, n
<1>8. Columns(V, t) = PaymentColumns(19)
  BY <1>2, <1>3, <1>7 DEF HasTable, Columns
<1>9. ~Can(V, s)
  BY <1>4, <1>5, <1>8 DEF Can
<1>10. Run(After(T), migrations[19]) = Failed(V)
  BY <1>1, <1>6, <1>9, Executes, RunFour
<1> QED
  BY <1>10

\* The seventh migration goes through again, but the ninth does not.
LEMMA Again07 ==
  ASSUME NEW T, Fits(19, T)
  PROVE  \E U : Run(After(T), migrations[7]) = After(U) /\ Fits(19, U)
<1> DEFINE t == "funds_migration_status"
           cols == ColumnsOf(19, t)
           req == RequiredOf(19, t)
           row == [status |-> Zero]
           table == WithRows(T[t], <<row>>)
           U == [T EXCEPT ![t] = table]
<1>1. migrations[7] = <<Insert(t, row)>>
  BY DEF migrations, ResetFundsMigration07
<1>2. t \in TablesAt(19) /\ t # "analytics_config" /\ t # "payments"
  BY DEF TablesAt, AllTables, Created
<1>3. t \in DOMAIN T /\ IsTable(T[t], cols, req)
  BY <1>2 DEF Fits
<1>4. req \subseteq cols /\ DOMAIN row \subseteq cols /\ \A c \in req : c \in DOMAIN row /\ row[c] # Null
  BY Marks DEF ColumnsOf, RequiredOf
<1>a. t = "funds_migration_status"
  OBVIOUS
<1> HIDE DEF t, row
<1>5. /\ Execute(After(T), Insert(t, row)) = After(U)
      /\ HasChanged(U, T, t, table)
      /\ IsTable(table, cols, req)
  <2> HIDE DEF cols, req
  <2> QED BY <1>3, <1>4, InsertsRow
<1> HIDE DEF U, table
<1>6. DOMAIN U = DOMAIN T /\ U[t] = table /\ \A u \in DOMAIN T : u # t => U[u] = T[u]
  BY <1>5 DEF HasChanged
<1>7. Fits(19, U)
  <2>1. \A u \in TablesAt(19) : IsTable(U[u], ColumnsOf(19, u), RequiredOf(19, u))
    <3> TAKE u \in TablesAt(19)
    <3>1. CASE u = t
      BY <1>5, <1>6, <3>1
    <3>2. CASE u # t
      BY <1>6, <3>2 DEF Fits
    <3> QED BY <3>1, <3>2
  <2>2. U["analytics_config"] = T["analytics_config"] /\ U["payments"] = T["payments"]
    <3>1. "analytics_config" \in TablesAt(19) /\ "payments" \in TablesAt(19)
      BY DEF TablesAt, AllTables, Created
    <3> QED BY <1>2, <1>6, <3>1 DEF Fits
  <2> QED
    BY <1>6, <2>1, <2>2 DEF Fits
<1>8. Run(After(T), migrations[7]) = After(U)
  BY <1>1, <1>5, RunOne
<1> QED
  BY <1>7, <1>8

\* All of them.
LEMMA OthersFail == \A k \in 1..19 : k # 7 => Fails(k)
<1> TAKE k \in 1..19
<1> QED
  BY Fails01, Fails02, Fails03, Fails04, Fails05, Fails06, Fails08, Fails09, Fails10, Fails11,
     Fails12, Fails13, Fails14, Fails15, Fails16, Fails17, Fails18, Fails19

\* The migrations are lists.
LEMMA MigrationLengths == \A k \in 1..19 : Len(migrations[k]) \in Nat
<1>1. migrations[1] = Init01 /\ migrations[2] = FundsMigrationStatus02
      /\ migrations[3] = OfferErrorMessage03 /\ migrations[4] = CreatedInvoices04
      /\ migrations[5] = FiatTopupInfo05 /\ migrations[6] = OpeningFees06
      /\ migrations[7] = ResetFundsMigration07 /\ migrations[8] = TopupValue08
      /\ migrations[9] = InvoiceExpiry09 /\ migrations[10] = AnalyticsConfig10
  BY DEF migrations
<1>2. migrations[11] = Webhook11 /\ migrations[12] = LightningAddresses12
      /\ migrations[13] = PersonalNote13 /\ migrations[14] = LnurlPayReceiveData14
      /\ migrations[15] = EnableStatus15 /\ migrations[16] = HiddenChannelCloses16
      /\ migrations[17] = HiddenFailedSwaps17 /\ migrations[18] = FiatCurrency18
      /\ migrations[19] = PaymentOptionalFields19
  BY DEF migrations
<1>3. /\ Len(Init01) = 4 /\ Len(FundsMigrationStatus02) = 2 /\ Len(OfferErrorMessage03) = 1
      /\ Len(CreatedInvoices04) = 1 /\ Len(FiatTopupInfo05) = 1 /\ Len(OpeningFees06) = 1
      /\ Len(ResetFundsMigration07) = 1 /\ Len(TopupValue08) = 1 /\ Len(InvoiceExpiry09) = 1
      /\ Len(AnalyticsConfig10) = 2
  BY DEF Init01, FundsMigrationStatus02, OfferErrorMessage03, CreatedInvoices04, FiatTopupInfo05,
         OpeningFees06, ResetFundsMigration07, TopupValue08, InvoiceExpiry09, AnalyticsConfig10
<1>4. /\ Len(Webhook11) = 1 /\ Len(LightningAddresses12) = 1 /\ Len(PersonalNote13) = 1
      /\ Len(LnurlPayReceiveData14) = 2 /\ Len(EnableStatus15) = 1 /\ Len(HiddenChannelCloses16) = 1
      /\ Len(HiddenFailedSwaps17) = 1 /\ Len(FiatCurrency18) = 1 /\ Len(PaymentOptionalFields19) = 4
  BY DEF Webhook11, LightningAddresses12, PersonalNote13, LnurlPayReceiveData14, EnableStatus15,
         HiddenChannelCloses16, HiddenFailedSwaps17, FiatCurrency18, PaymentOptionalFields19
<1> TAKE k \in 1..19
<1> QED
  BY <1>1, <1>2, <1>3, <1>4

\* A process that looked before another one migrated the file fails.
LEMMA LateMigrationFails ==
  ASSUME NEW T, Fits(19, T), NEW seen \in 0..18
  PROVE  ~Migrate(T, seen, 19).ok
<1>1. PICK f : /\ f[seen] = After(T)
               /\ \A k \in (seen + 1)..19 : f[k] = Run(f[k - 1], migrations[k])
               /\ Migrate(T, seen, 19) = f[19]
  <2>1. seen \in Nat /\ 19 \in Nat /\ seen <= 19
    OBVIOUS
  <2> QED BY <2>1, Migrates
<1>2. \E j \in (seen + 1)..19 : \E V : f[j] = Failed(V)
  <2>1. f[seen + 1] = Run(After(T), migrations[seen + 1])
    <3>1. seen + 1 \in (seen + 1)..19 /\ (seen + 1) - 1 = seen
      OBVIOUS
    <3> QED BY <1>1, <3>1
  <2>2. CASE seen # 6
    <3>1. seen + 1 \in 1..19 /\ seen + 1 # 7
      BY <2>2
    <3>2. Fails(seen + 1)
      BY <3>1, OthersFail
    <3>3. \E V : f[seen + 1] = Failed(V)
      BY <2>1, <3>2 DEF Fails
    <3>4. seen + 1 \in (seen + 1)..19
      OBVIOUS
    <3> QED BY <3>3, <3>4
  <2>3. CASE seen = 6
    <3>1. PICK U : f[7] = After(U) /\ Fits(19, U)
      BY <2>1, <2>3, Again07
    <3>2. f[8] = Run(f[7], migrations[8])
      <4>1. 8 \in (seen + 1)..19 /\ 8 - 1 = 7
        BY <2>3
      <4> QED BY <1>1, <4>1
    <3>3. \E V : f[8] = Failed(V)
      BY <3>1, <3>2, OthersFail DEF Fails
    <3>4. 8 \in (seen + 1)..19
      BY <2>3
    <3> QED BY <3>3, <3>4
  <2> QED
    BY <2>2, <2>3
<1>3. PICK j \in (seen + 1)..19 : \E V : f[j] = Failed(V)
  BY <1>2
<1>4. PICK V : f[j] = Failed(V)
  BY <1>3
<1> DEFINE Bad == {k \in j..19 : f[k] # Failed(V)}
<1>5. Bad = {}
  <2> SUFFICES ASSUME Bad # {} PROVE FALSE
    OBVIOUS
  <2>1. PICK k \in Bad : \A m \in Bad : k <= m
    <3>1. Bad \subseteq Nat
      OBVIOUS
    <3> HIDE DEF Bad
    <3> QED BY <3>1, Least
  <2>2. k \in j..19 /\ f[k] # Failed(V)
    OBVIOUS
  <2>3. k # j
    BY <1>4, <2>2
  <2>4. k - 1 \in j..19 /\ ~(k <= k - 1) /\ k \in (seen + 1)..19 /\ k \in 1..19
    BY <2>2, <2>3
  <2>5. k - 1 \notin Bad
    <3> HIDE DEF Bad
    <3> QED BY <2>1, <2>4
  <2>6. f[k - 1] = Failed(V)
    BY <2>4, <2>5
  <2>7. f[k] = Run(Failed(V), migrations[k])
    BY <1>1, <2>4, <2>6
  <2>8. Run(Failed(V), migrations[k]) = Failed(V)
    BY <2>4, MigrationLengths, FailedStays
  <2> QED
    BY <2>2, <2>7, <2>8
<1>6. f[19] = Failed(V)
  <2>1. 19 \in j..19
    OBVIOUS
  <2> QED BY <1>5, <2>1
<1> QED
  BY <1>1, <1>6 DEF Failed

-----------------------------------------------------------------------------
(* Writes                                                                    *)

Insertable(row, cols, req) ==
  DOMAIN row \subseteq cols /\ \A c \in req : c \in DOMAIN row /\ row[c] # Null

\* A row that has the required columns and no unknown one is inserted.
LEMMA Inserted ==
  ASSUME NEW T, Fits(19, T), NEW t \in TablesAt(19), NEW row,
         Insertable(row, ColumnsOf(19, t), RequiredOf(19, t))
  PROVE  \E U, w :
           /\ Execute(After(T), Insert(t, row)) = After(U)
           /\ HasChanged(U, T, t, w)
           /\ HasRow(w, T[t], row)
           /\ Fits(19, U)
<1> DEFINE cols == ColumnsOf(19, t)
           req == RequiredOf(19, t)
           old == T[t]
           w == WithRows(old, <<row>>)
           U == [T EXCEPT ![t] = w]
<1>1. t \in DOMAIN T /\ IsTable(old, cols, req)
  BY DEF Fits
<1>2. req \subseteq cols /\ DOMAIN row \subseteq cols /\ \A c \in req : c \in DOMAIN row /\ row[c] # Null
  <2>1. DOMAIN row \subseteq cols /\ \A c \in req : c \in DOMAIN row /\ row[c] # Null
    BY DEF Insertable
  <2> HIDE DEF cols, req
  <2> QED BY <2>1
<1>3. /\ Execute(After(T), Insert(t, row)) = After(U)
      /\ HasChanged(U, T, t, w)
      /\ IsTable(w, cols, req)
      /\ HasMoreRows(w, old, <<row>>)
  <2> HIDE DEF cols, req
  <2> QED BY <1>1, <1>2, InsertsRow
<1> HIDE DEF U, w
<1>4. HasRow(w, old, row)
  <2> HIDE DEF cols, req, old
  <2> QED BY <1>1, <1>3, OneMore
<1>5. DOMAIN U = DOMAIN T /\ U[t] = w /\ \A u \in DOMAIN T : u # t => U[u] = T[u]
  BY <1>3 DEF HasChanged
<1>6. w.default = old.default /\ w.rows # <<>>
  <2>1. w.default = old.default /\ Len(w.rows) = Len(old.rows) + 1 /\ Len(old.rows) \in Nat
    BY <1>4 DEF HasRow
  <2> QED BY <2>1
<1>7. Fits(19, U)
  <2>1. \A u \in TablesAt(19) : IsTable(U[u], ColumnsOf(19, u), RequiredOf(19, u))
    <3> TAKE u \in TablesAt(19)
    <3>1. CASE u = t
      BY <1>3, <1>5, <3>1
    <3>2. CASE u # t
      BY <1>5, <3>2 DEF Fits
    <3> QED BY <3>1, <3>2
  <2>2. U["analytics_config"].rows # <<>>
    <3>1. "analytics_config" \in TablesAt(19)
      BY DEF TablesAt, AllTables, Created
    <3> QED BY <1>5, <1>6, <3>1 DEF Fits
  <2>3. \A c \in ColumnsOf(19, "payments") : c # "hash" => U["payments"].default[c] = Null
    <3>1. "payments" \in TablesAt(19)
      BY DEF TablesAt, AllTables, Created
    <3>2. U["payments"].default = T["payments"].default
      BY <1>5, <1>6, <3>1 DEF Fits
    <3> QED BY <3>2 DEF Fits
  <2> QED
    BY <1>5, <2>1, <2>2, <2>3 DEF Fits
<1> QED
  BY <1>3, <1>4, <1>7

\* The histories after the wallet is told of payment p.
IsToldOf(new, st, p, s) ==
  /\ st[p] = Null /\ new[p] = s
  /\ \A q \in Recorded : q # p => new[q] = st[q]

\* The row that was added, the last one.
Added(w) == w.rows[Len(w.rows)]

\* The row is the last one, with defaults; the others are as they were.
LEMMA AddedRow ==
  ASSUME NEW w, NEW table, NEW row, HasRow(w, table, row)
  PROVE  /\ Len(w.rows) \in DOMAIN w.rows
         /\ Added(w) = Over(row, table.default)
         /\ \A i \in DOMAIN w.rows : i = Len(w.rows) \/ (i \in DOMAIN table.rows /\ w.rows[i] = table.rows[i])
         /\ \A i \in DOMAIN table.rows : i \in DOMAIN w.rows /\ w.rows[i] = table.rows[i]
<1> DEFINE n == Len(table.rows)
<1>1. /\ DOMAIN w.rows = 1..(n + 1) /\ n \in Nat /\ DOMAIN table.rows = 1..n
      /\ Len(w.rows) = n + 1
      /\ \A i \in 1..n : w.rows[i] = table.rows[i]
      /\ w.rows[n + 1] = Over(row, table.default)
  BY DEF HasRow
<1> HIDE DEF n
<1>2. \A i \in 1..(n + 1) : i = n + 1 \/ i \in 1..n
  BY <1>1
<1>3. \A i \in 1..n : i \in 1..(n + 1)
  BY <1>1
<1>4. n + 1 \in 1..(n + 1)
  BY <1>1
<1>5. Len(w.rows) \in DOMAIN w.rows /\ Added(w) = Over(row, table.default)
  BY <1>1, <1>4 DEF Added
<1>6. \A i \in DOMAIN w.rows : i = Len(w.rows) \/ (i \in DOMAIN table.rows /\ w.rows[i] = table.rows[i])
  BY <1>1, <1>2
<1>7. \A i \in DOMAIN table.rows : i \in DOMAIN w.rows /\ w.rows[i] = table.rows[i]
  BY <1>1, <1>3
<1> QED
  BY <1>5, <1>6, <1>7

\* A row of a payment tells of it; the others tell what they did.
LEMMA PaymentAdded ==
  ASSUME NEW w, NEW table, NEW row, HasRow(w, table, row),
         NEW st, NEW new, NEW p \in Recorded, NEW s, IsToldOf(new, st, p, s), s # Null,
         PaymentsTell(table.rows, st), Cell(Added(w), "hash") = <<p>>, PaymentRow(Added(w), p, s)
  PROVE  PaymentsTell(w.rows, new)
<1>1. /\ Len(w.rows) \in DOMAIN w.rows
      /\ \A i \in DOMAIN w.rows : i = Len(w.rows) \/ (i \in DOMAIN table.rows /\ w.rows[i] = table.rows[i])
      /\ \A i \in DOMAIN table.rows : i \in DOMAIN w.rows /\ w.rows[i] = table.rows[i]
  BY AddedRow
<1>2. st[p] = Null /\ new[p] = s /\ \A q \in Recorded : q # p => new[q] = st[q]
  BY DEF IsToldOf
<1>3. ASSUME NEW i \in DOMAIN w.rows
      PROVE  \E q \in Recorded :
               Cell(w.rows[i], "hash") = <<q>> /\ new[q] # Null /\ PaymentRow(w.rows[i], q, new[q])
  <2>1. CASE i = Len(w.rows)
    BY <1>2, <2>1 DEF Added
  <2>2. CASE i # Len(w.rows)
    <3>1. i \in DOMAIN table.rows /\ w.rows[i] = table.rows[i]
      BY <1>1, <2>2
    <3>2. PICK q \in Recorded :
            Cell(w.rows[i], "hash") = <<q>> /\ st[q] # Null /\ PaymentRow(w.rows[i], q, st[q])
      BY <3>1 DEF PaymentsTell
    <3> QED BY <1>2, <3>2
  <2> QED
    BY <2>1, <2>2
<1>4. ASSUME NEW q \in Recorded, new[q] # Null
      PROVE  \E i \in DOMAIN w.rows : Cell(w.rows[i], "hash") = <<q>>
  <2>1. CASE q = p
    BY <1>1, <2>1 DEF Added
  <2>2. CASE q # p
    <3>1. PICK i \in DOMAIN table.rows : Cell(table.rows[i], "hash") = <<q>>
      BY <1>2, <1>4, <2>2 DEF PaymentsTell
    <3> QED BY <1>1, <3>1
  <2> QED
    BY <2>1, <2>2
<1> QED
  BY <1>3, <1>4 DEF PaymentsTell

\* So does a row of its rates.
LEMMA RatesAdded ==
  ASSUME NEW w, NEW table, NEW row, HasRow(w, table, row),
         NEW st, NEW new, NEW p \in Recorded, NEW s, IsToldOf(new, st, p, s), HasRates(s),
         RatesTell(table.rows, st),
         Cell(Added(w), "snapshot_id") = <<p>>, Cell(Added(w), "fiat_currency") = PaidIn,
         Cell(Added(w), "rate") = <<"exchange_rates_history", "rate">>,
         Cell(Added(w), "updated_at") = <<"exchange_rates_history", "updated_at">>
  PROVE  RatesTell(w.rows, new)
<1>1. /\ Len(w.rows) \in DOMAIN w.rows
      /\ \A i \in DOMAIN w.rows : i = Len(w.rows) \/ (i \in DOMAIN table.rows /\ w.rows[i] = table.rows[i])
      /\ \A i \in DOMAIN table.rows : i \in DOMAIN w.rows /\ w.rows[i] = table.rows[i]
  BY AddedRow
<1>2. st[p] = Null /\ new[p] = s /\ (\A q \in Recorded : q # p => new[q] = st[q]) /\ ~HasRates(st[p])
  BY DEF IsToldOf, HasRates
<1>3. ASSUME NEW i \in DOMAIN w.rows
      PROVE  \E q \in Recorded :
               /\ Cell(w.rows[i], "snapshot_id") = <<q>> /\ HasRates(new[q])
               /\ Cell(w.rows[i], "fiat_currency") = PaidIn
               /\ Cell(w.rows[i], "rate") = <<"exchange_rates_history", "rate">>
               /\ Cell(w.rows[i], "updated_at") = <<"exchange_rates_history", "updated_at">>
  <2>1. CASE i = Len(w.rows)
    BY <1>2, <2>1 DEF Added
  <2>2. CASE i # Len(w.rows)
    <3>1. i \in DOMAIN table.rows /\ w.rows[i] = table.rows[i]
      BY <1>1, <2>2
    <3>2. PICK q \in Recorded :
               /\ Cell(w.rows[i], "snapshot_id") = <<q>> /\ HasRates(st[q])
               /\ Cell(w.rows[i], "fiat_currency") = PaidIn
               /\ Cell(w.rows[i], "rate") = <<"exchange_rates_history", "rate">>
               /\ Cell(w.rows[i], "updated_at") = <<"exchange_rates_history", "updated_at">>
      BY <3>1 DEF RatesTell
    <3> QED BY <1>2, <3>2
  <2> QED
    BY <2>1, <2>2
<1>4. ASSUME NEW q \in Recorded, HasRates(new[q])
      PROVE  \E i \in DOMAIN w.rows : Cell(w.rows[i], "snapshot_id") = <<q>>
  <2>1. CASE q = p
    BY <1>1, <2>1 DEF Added
  <2>2. CASE q # p
    <3>1. PICK i \in DOMAIN table.rows : Cell(table.rows[i], "snapshot_id") = <<q>>
      BY <1>2, <1>4, <2>2 DEF RatesTell
    <3> QED BY <1>1, <3>1
  <2> QED
    BY <2>1, <2>2
<1> QED
  BY <1>3, <1>4 DEF RatesTell

\* So does a row of its offer.
LEMMA OfferAdded ==
  ASSUME NEW w, NEW table, NEW row, HasRow(w, table, row),
         NEW st, NEW new, NEW p \in Recorded, NEW s, IsToldOf(new, st, p, s), HasOffer(s),
         OffersTell(table.rows, st),
         Cell(Added(w), "payment_hash") = <<p>>, OfferRow(Added(w), s.offer)
  PROVE  OffersTell(w.rows, new)
<1>1. /\ Len(w.rows) \in DOMAIN w.rows
      /\ \A i \in DOMAIN w.rows : i = Len(w.rows) \/ (i \in DOMAIN table.rows /\ w.rows[i] = table.rows[i])
      /\ \A i \in DOMAIN table.rows : i \in DOMAIN w.rows /\ w.rows[i] = table.rows[i]
  BY AddedRow
<1>2. st[p] = Null /\ new[p] = s /\ (\A q \in Recorded : q # p => new[q] = st[q]) /\ ~HasOffer(st[p])
  BY DEF IsToldOf, HasOffer
<1>3. ASSUME NEW i \in DOMAIN w.rows
      PROVE  \E q \in Recorded :
               Cell(w.rows[i], "payment_hash") = <<q>> /\ HasOffer(new[q]) /\ OfferRow(w.rows[i], new[q].offer)
  <2>1. CASE i = Len(w.rows)
    BY <1>2, <2>1 DEF Added
  <2>2. CASE i # Len(w.rows)
    <3>1. i \in DOMAIN table.rows /\ w.rows[i] = table.rows[i]
      BY <1>1, <2>2
    <3>2. PICK q \in Recorded :
            Cell(w.rows[i], "payment_hash") = <<q>> /\ HasOffer(st[q]) /\ OfferRow(w.rows[i], st[q].offer)
      BY <3>1 DEF OffersTell
    <3> QED BY <1>2, <3>2
  <2> QED
    BY <2>1, <2>2
<1>4. ASSUME NEW q \in Recorded, HasOffer(new[q])
      PROVE  \E i \in DOMAIN w.rows : Cell(w.rows[i], "payment_hash") = <<q>>
  <2>1. CASE q = p
    BY <1>1, <2>1 DEF Added
  <2>2. CASE q # p
    <3>1. PICK i \in DOMAIN table.rows : Cell(table.rows[i], "payment_hash") = <<q>>
      BY <1>2, <1>4, <2>2 DEF OffersTell
    <3> QED BY <1>1, <3>1
  <2> QED
    BY <2>1, <2>2
<1> QED
  BY <1>3, <1>4 DEF OffersTell

\* A table that gets no row tells the same of the others.
LEMMA NotAdded ==
  ASSUME NEW rows, NEW st, NEW new, NEW p \in Recorded, NEW s, IsToldOf(new, st, p, s)
  PROVE  /\ RatesTell(rows, st) /\ ~HasRates(s) => RatesTell(rows, new)
         /\ OffersTell(rows, st) /\ ~HasOffer(s) => OffersTell(rows, new)
<1>1. st[p] = Null /\ new[p] = s /\ (\A q \in Recorded : q # p => new[q] = st[q])
      /\ ~HasRates(st[p]) /\ ~HasOffer(st[p])
  BY DEF IsToldOf, HasRates, HasOffer
<1>2. \A q \in Recorded : HasRates(st[q]) => q # p /\ new[q] = st[q]
  BY <1>1
<1>3. \A q \in Recorded : HasOffer(st[q]) => q # p /\ new[q] = st[q]
  BY <1>1
<1>4. ASSUME RatesTell(rows, st), ~HasRates(s)
      PROVE  RatesTell(rows, new)
  <2>1. \A q \in Recorded : HasRates(new[q]) => HasRates(st[q])
    BY <1>1, <1>4
  <2> QED BY <1>2, <1>4, <2>1 DEF RatesTell
<1>5. ASSUME OffersTell(rows, st), ~HasOffer(s)
      PROVE  OffersTell(rows, new)
  <2>1. \A q \in Recorded : HasOffer(new[q]) => HasOffer(st[q])
    BY <1>1, <1>5
  <2> QED BY <1>3, <1>5, <2>1 DEF OffersTell
<1> QED
  BY <1>4, <1>5

RateRow(p) ==
  RowOf("exchange_rates_history", {"snapshot_id", "fiat_currency", "rate", "updated_at"}, p)

InfoRow(p) ==
  RowOf("payments", {"hash", "timezone_id", "timezone_utc_offset_secs", "fiat_currency",
                     "exchange_rates_history_snapshot_id", "received_on", "received_lnurl_comment"}, p)

ClaimRow(p, error) ==
  Over([error |-> FromOfferError[error]],
       RowOf("offers", {"payment_hash", "pocket_id", "fiat_currency", "rate", "exchanged_at",
                        "topup_value_minor_units", "exchange_fee_minor_units",
                        "exchange_fee_rate_permyriad", "topup_value_sats"}, p))

NoteRow(p) == RowOf("payments", {"personal_note", "hash"}, p)

\* A column of a row is what the INSERT says, or the default.
LEMMA CellOver ==
  ASSUME NEW row, NEW d, NEW c
  PROVE  /\ c \in DOMAIN row => Cell(Over(row, d), c) = row[c]
         /\ c \notin DOMAIN row => Cell(Over(row, d), c) = Cell(d, c)
BY DEF Cell, Over

\* The rows DataStore inserts have the columns of the latest schema, and tell what
\* is stored.
LEMMA RateRowIs ==
  ASSUME NEW p, NEW d
  PROVE  /\ Insertable(RateRow(p), ColumnsOf(19, "exchange_rates_history"),
                       RequiredOf(19, "exchange_rates_history"))
         /\ Cell(Over(RateRow(p), d), "snapshot_id") = <<p>>
         /\ Cell(Over(RateRow(p), d), "fiat_currency") = PaidIn
         /\ Cell(Over(RateRow(p), d), "rate") = <<"exchange_rates_history", "rate">>
         /\ Cell(Over(RateRow(p), d), "updated_at") = <<"exchange_rates_history", "updated_at">>
<1> DEFINE row == RateRow(p)
<1>1. /\ DOMAIN row = {"snapshot_id", "fiat_currency", "rate", "updated_at"}
      /\ row["snapshot_id"] = <<p>> /\ row["fiat_currency"] = PaidIn
      /\ row["rate"] = <<"exchange_rates_history", "rate">>
      /\ row["updated_at"] = <<"exchange_rates_history", "updated_at">>
  BY DEF RateRow, RowOf, Value, Keys, PaidIn
<1>2. PaidIn # Null
  BY NotNull DEF PaidIn
<1> HIDE DEF row
<1>3. Insertable(row, ColumnsOf(19, "exchange_rates_history"), RequiredOf(19, "exchange_rates_history"))
  BY <1>1, <1>2, NotNull DEF Insertable, ColumnsOf, RequiredOf, RateColumns
<1>4. /\ Cell(Over(row, d), "snapshot_id") = <<p>>
      /\ Cell(Over(row, d), "fiat_currency") = PaidIn
      /\ Cell(Over(row, d), "rate") = <<"exchange_rates_history", "rate">>
      /\ Cell(Over(row, d), "updated_at") = <<"exchange_rates_history", "updated_at">>
  BY <1>1, CellOver
<1> QED
  BY <1>3, <1>4 DEF row

\* What the defaults of the latest table of payments are.
IsOptional(d) == DOMAIN d = PaymentColumns(19) /\ \A c \in PaymentColumns(19) : c # "hash" => d[c] = Null

\* A column that an INSERT leaves out is NULL.
LEMMA OptionalCells ==
  ASSUME NEW d, IsOptional(d)
  PROVE  \A c : c # "hash" => Cell(d, c) = Null
BY DEF IsOptional, Cell

LEMMA InfoRowIs ==
  ASSUME NEW p, NEW error, NEW d, IsOptional(d)
  PROVE  /\ Insertable(InfoRow(p), ColumnsOf(19, "payments"), RequiredOf(19, "payments"))
         /\ Cell(Over(InfoRow(p), d), "hash") = <<p>>
         /\ PaymentRow(Over(InfoRow(p), d), p, [Told(Latest, p, error) EXCEPT !.personal_note = Null])
<1> DEFINE row == InfoRow(p)
           r == Over(row, d)
           s == [Told(Latest, p, error) EXCEPT !.personal_note = Null]
<1>1. /\ DOMAIN row = {"hash", "timezone_id", "timezone_utc_offset_secs", "fiat_currency", NewName,
                       "received_on", "received_lnurl_comment"}
      /\ row["hash"] = <<p>> /\ row["timezone_id"] = <<"payments", "timezone_id">>
      /\ row["timezone_utc_offset_secs"] = <<"payments", "timezone_utc_offset_secs">>
      /\ row["fiat_currency"] = PaidIn /\ row[NewName] = <<p>>
      /\ row["received_on"] = <<"payments", "received_on">>
      /\ row["received_lnurl_comment"] = <<"payments", "received_lnurl_comment">>
  BY DEF InfoRow, RowOf, Value, Keys, PaidIn, NewName
<1>2. /\ s.user_preferences =
           <<<<"payments", "timezone_id">>, <<"payments", "timezone_utc_offset_secs">>, PaidIn>>
      /\ s.personal_note = Null /\ s.received_on = <<"payments", "received_on">>
      /\ s.received_lnurl_comment = <<"payments", "received_lnurl_comment">>
  BY TheMigrations DEF Told, PaidIn, From
<1> HIDE DEF row, s
<1>3. Insertable(row, ColumnsOf(19, "payments"), RequiredOf(19, "payments"))
  <2>1. ColumnsOf(19, "payments") = PaymentColumns(19) /\ RequiredOf(19, "payments") = {"hash"}
    BY DEF ColumnsOf, RequiredOf
  <2>2. DOMAIN row \subseteq PaymentColumns(19)
    BY <1>1 DEF PaymentColumns, NewName
  <2> QED BY <1>1, <2>1, <2>2, NotNull DEF Insertable
<1>4. OldName \notin DOMAIN row /\ OldName # "hash" /\ NewName # "hash"
      /\ "personal_note" \notin DOMAIN row
  BY <1>1 DEF OldName, NewName
<1>5. /\ \A c \in DOMAIN row : Cell(r, c) = row[c]
      /\ \A c : c \notin DOMAIN row => Cell(r, c) = Cell(d, c)
  BY CellOver
<1> HIDE DEF r
<1>6. Cell(r, OldName) = Null /\ Cell(r, "personal_note") = Null /\ Cell(r, NewName) = <<p>>
  BY <1>1, <1>4, <1>5, OptionalCells
<1>7. Snapshot(r) = <<p>>
  BY <1>6 DEF Snapshot
<1>8. /\ Cell(r, "hash") = <<p>> /\ Cell(r, "timezone_id") = <<"payments", "timezone_id">>
      /\ Cell(r, "timezone_utc_offset_secs") = <<"payments", "timezone_utc_offset_secs">>
      /\ Cell(r, "fiat_currency") = PaidIn
      /\ Cell(r, "received_on") = <<"payments", "received_on">>
      /\ Cell(r, "received_lnurl_comment") = <<"payments", "received_lnurl_comment">>
  BY <1>1, <1>5
<1>9. PaymentRow(r, p, s)
  BY <1>2, <1>6, <1>7, <1>8 DEF PaymentRow
<1> QED
  BY <1>3, <1>8, <1>9 DEF row, r, s

LEMMA NoteRowIs ==
  ASSUME NEW p, NEW d, IsOptional(d), NEW s, s.user_preferences = Null,
         s.personal_note = <<"payments", "personal_note">>, s.received_on = Null,
         s.received_lnurl_comment = Null
  PROVE  /\ Insertable(NoteRow(p), ColumnsOf(19, "payments"), RequiredOf(19, "payments"))
         /\ Cell(Over(NoteRow(p), d), "hash") = <<p>>
         /\ PaymentRow(Over(NoteRow(p), d), p, s)
<1> DEFINE row == NoteRow(p)
           r == Over(row, d)
<1>1. /\ DOMAIN row = {"personal_note", "hash"}
      /\ row["hash"] = <<p>> /\ row["personal_note"] = <<"payments", "personal_note">>
  BY DEF NoteRow, RowOf, Value, Keys
<1> HIDE DEF row
<1>2. Insertable(row, ColumnsOf(19, "payments"), RequiredOf(19, "payments"))
  <2>1. ColumnsOf(19, "payments") = PaymentColumns(19) /\ RequiredOf(19, "payments") = {"hash"}
    BY DEF ColumnsOf, RequiredOf
  <2>2. DOMAIN row \subseteq PaymentColumns(19)
    BY <1>1 DEF PaymentColumns
  <2> QED BY <1>1, <2>1, <2>2, NotNull DEF Insertable
<1>3. /\ \A c \in DOMAIN row : Cell(r, c) = row[c]
      /\ \A c : c \notin DOMAIN row => Cell(r, c) = Cell(d, c)
  BY CellOver
<1> HIDE DEF r
<1>4. \A c : c \notin {"personal_note", "hash"} => Cell(r, c) = Null
  BY <1>1, <1>3, OptionalCells
<1>5. Cell(r, "hash") = <<p>> /\ Cell(r, "personal_note") = <<"payments", "personal_note">>
  BY <1>1, <1>3
<1>6. Snapshot(r) = Null
  BY <1>4 DEF Snapshot, OldName, NewName
<1>7. PaymentRow(r, p, s)
  BY <1>4, <1>5, <1>6 DEF PaymentRow
<1> QED
  BY <1>2, <1>5, <1>7 DEF row, r

LEMMA ClaimRowIs ==
  ASSUME NEW p \in Claims, NEW error \in DOMAIN FromOfferError, NEW d, NEW s,
         s = [Told(Latest, p, error) EXCEPT !.personal_note = Null]
  PROVE  /\ Insertable(ClaimRow(p, error), ColumnsOf(19, "offers"), RequiredOf(19, "offers"))
         /\ Cell(Over(ClaimRow(p, error), d), "payment_hash") = <<p>>
         /\ OfferRow(Over(ClaimRow(p, error), d), s.offer)
<1> DEFINE row == ClaimRow(p, error)
           r == Over(row, d)
           code == FromOfferError[error]
           cols == {"payment_hash", "pocket_id", "fiat_currency", "rate", "exchanged_at",
                    "topup_value_minor_units", "exchange_fee_minor_units",
                    "exchange_fee_rate_permyriad", "topup_value_sats"}
           rest == RowOf("offers", cols, p)
<1>1. /\ DOMAIN rest = cols /\ rest["payment_hash"] = <<p>>
      /\ \A c \in cols : c # "payment_hash" => rest[c] = <<"offers", c>>
  BY DEF RowOf, Value, Keys
<1>2. row = Over([error |-> code], rest)
  BY DEF ClaimRow
<1> HIDE DEF rest, code
<1>3. /\ DOMAIN row = cols \cup {"error"} /\ row["payment_hash"] = <<p>> /\ row["error"] = code
      /\ \A c \in cols : c # "payment_hash" => row[c] = <<"offers", c>>
  BY <1>1, <1>2 DEF Over
<1> HIDE DEF row
<1>4. Insertable(row, ColumnsOf(19, "offers"), RequiredOf(19, "offers"))
  <2>1. ColumnsOf(19, "offers") = OfferColumns(19) /\ RequiredOf(19, "offers") = {"payment_hash"}
    BY DEF ColumnsOf, RequiredOf
  <2>2. DOMAIN row \subseteq OfferColumns(19)
    BY <1>3 DEF OfferColumns
  <2> QED BY <1>3, <2>1, <2>2, NotNull DEF Insertable
<1>5. \A c \in DOMAIN row : Cell(r, c) = row[c]
  BY CellOver
<1> HIDE DEF r
<1>6. /\ Cell(r, "payment_hash") = <<p>>
      /\ Cell(r, "pocket_id") = <<"offers", "pocket_id">>
      /\ Cell(r, "fiat_currency") = <<"offers", "fiat_currency">>
      /\ Cell(r, "rate") = <<"offers", "rate">>
      /\ Cell(r, "exchanged_at") = <<"offers", "exchanged_at">>
      /\ Cell(r, "topup_value_minor_units") = <<"offers", "topup_value_minor_units">>
      /\ Cell(r, "exchange_fee_minor_units") = <<"offers", "exchange_fee_minor_units">>
      /\ Cell(r, "exchange_fee_rate_permyriad") = <<"offers", "exchange_fee_rate_permyriad">>
      /\ Cell(r, "topup_value_sats") = <<"offers", "topup_value_sats">>
      /\ Cell(r, "error") = code
  BY <1>3, <1>5
<1>7. ToOfferError(code) = error
  BY ErrorBack DEF code
<1>8. s.offer =
        <<<<"offers", "pocket_id">>, <<"offers", "fiat_currency">>, <<"offers", "rate">>,
          <<"offers", "exchanged_at">>, <<"offers", "topup_value_minor_units">>,
          <<"offers", "exchange_fee_minor_units">>, <<"offers", "exchange_fee_rate_permyriad">>,
          <<"offers", "topup_value_sats">>, error>>
  BY TheMigrations DEF Told, From
<1>9. OfferRow(r, s.offer)
  BY <1>6, <1>7, <1>8, NotNull DEF OfferRow
<1> QED
  BY <1>4, <1>6, <1>9 DEF row, r

\* Appending one statement to two.
LEMMA TwoAndOne ==
  ASSUME NEW a, NEW b, NEW c
  PROVE  <<a, b>> \o <<c>> = <<a, b, c>>
<1> DEFINE S == {a, b, c}
<1>1. <<a, b>> \in Seq(S) /\ <<c>> \in Seq(S) /\ <<a, b, c>> \in Seq(S)
  OBVIOUS
<1>2. Len(<<a, b>> \o <<c>>) = 3 /\ <<a, b>> \o <<c>> \in Seq(S)
  BY <1>1
<1>3. \A i \in 1..3 : (<<a, b>> \o <<c>>)[i] = <<a, b, c>>[i]
  BY <1>1, <1>2
<1> QED
  BY <1>1, <1>2, <1>3, SeqEqual

\* The latest schema has all tables.
LEMMA LatestTables ==
  TablesAt(19) = AllTables
BY DEF TablesAt, AllTables, Created

\* The rows after a change of one table.
LEMMA RowsOfChanged ==
  ASSUME NEW T, NEW U, NEW t \in DOMAIN T, NEW w, HasChanged(U, T, t, w)
  PROVE  /\ RowsOf(U, t) = w.rows /\ RowsOf(T, t) = T[t].rows
         /\ \A u : u # t => RowsOf(U, u) = RowsOf(T, u)
BY DEF HasChanged, RowsOf

\* A payment needs no more than a hash.
LEMMA LatestDefaults ==
  ASSUME NEW T, Fits(19, T)
  PROVE  IsOptional(T["payments"].default)
<1>1. "payments" \in TablesAt(19)
  BY LatestTables DEF AllTables
<1>2. ColumnsOf(19, "payments") = PaymentColumns(19)
  BY DEF ColumnsOf
<1>3. DOMAIN T["payments"].default = PaymentColumns(19)
  BY <1>1, <1>2 DEF Fits, IsTable
<1> QED
  BY <1>2, <1>3 DEF Fits, IsOptional

\* What the wallet is told of a new payment.
LEMMA NewInfoIs ==
  ASSUME NEW p, NEW error, NEW s, s = [Told(Latest, p, error) EXCEPT !.personal_note = Null]
  PROVE  /\ IsInfo(s) /\ s # Null /\ HasRates(s)
         /\ HasOffer(s) <=> p \in Claims
<1> DEFINE told == Told(Latest, p, error)
<1>1. /\ IsInfo(told) /\ told.user_preferences = Preferences /\ told.exchange_rate = RateOf
      /\ HasRates(told) /\ (HasOffer(told) <=> p \in Claims)
  BY ToldIsInfo
<1>2. told.exchange_rate # Null /\ (told.offer # Null <=> p \in Claims)
  BY <1>1, ToldIsInfo DEF HasRates, HasOffer
<1>3. told = [user_preferences |-> told.user_preferences, exchange_rate |-> told.exchange_rate,
              offer |-> told.offer, personal_note |-> told.personal_note,
              received_on |-> told.received_on, received_lnurl_comment |-> told.received_lnurl_comment]
  BY <1>1 DEF IsInfo
<1> HIDE DEF told
<1>4. s = [user_preferences |-> told.user_preferences, exchange_rate |-> told.exchange_rate,
           offer |-> told.offer, personal_note |-> Null,
           received_on |-> told.received_on, received_lnurl_comment |-> told.received_lnurl_comment]
  BY <1>3 DEF told
<1>5. s # Null
  BY <1>4, RecordNotNull
<1>6. s.user_preferences = Preferences /\ s.exchange_rate = RateOf /\ s.offer = told.offer
  BY <1>1, <1>4
<1>7. IsInfo(s)
  BY <1>4, <1>6 DEF IsInfo
<1> QED
  BY <1>1, <1>2, <1>5, <1>6, <1>7 DEF HasRates, HasOffer

\* The row of a new payment's rates.
LEMMA RateStored ==
  ASSUME NEW T, Fits(19, T), NEW st, NEW new, NEW p \in Recorded, NEW s, IsToldOf(new, st, p, s),
         HasRates(s), RatesTell(RowsOf(T, "exchange_rates_history"), st)
  PROVE  \E U : /\ Execute(After(T), Insert("exchange_rates_history", RateRow(p))) = After(U)
                /\ Fits(19, U)
                /\ RatesTell(RowsOf(U, "exchange_rates_history"), new)
                /\ \A u : u # "exchange_rates_history" => RowsOf(U, u) = RowsOf(T, u)
<1> DEFINE t == "exchange_rates_history"
           old == T[t]
           row == RateRow(p)
<1>1. t \in TablesAt(19) /\ t \in DOMAIN T
  BY LatestTables DEF AllTables, Fits
<1>2. /\ Insertable(row, ColumnsOf(19, t), RequiredOf(19, t))
      /\ Cell(Over(row, old.default), "snapshot_id") = <<p>>
      /\ Cell(Over(row, old.default), "fiat_currency") = PaidIn
      /\ Cell(Over(row, old.default), "rate") = <<"exchange_rates_history", "rate">>
      /\ Cell(Over(row, old.default), "updated_at") = <<"exchange_rates_history", "updated_at">>
  BY RateRowIs
<1>3. PICK U, w : /\ Execute(After(T), Insert(t, row)) = After(U)
                  /\ HasChanged(U, T, t, w) /\ HasRow(w, T[t], row) /\ Fits(19, U)
  <2> HIDE DEF row
  <2> QED BY <1>1, <1>2, Inserted
<1>4. RowsOf(U, t) = w.rows /\ RowsOf(T, t) = old.rows /\ \A u : u # t => RowsOf(U, u) = RowsOf(T, u)
  BY <1>1, <1>3, RowsOfChanged
<1>5. Added(w) = Over(row, old.default)
  <2> HIDE DEF row
  <2> QED BY <1>3, AddedRow
<1>6. RatesTell(w.rows, new)
  <2>1. RatesTell(old.rows, st) /\ HasRow(w, old, row)
    BY <1>3, <1>4
  <2> HIDE DEF row, old
  <2> QED BY <1>2, <1>5, <2>1, RatesAdded
<1> QED
  BY <1>3, <1>4, <1>6

\* The row of a payment.
LEMMA PaymentStored ==
  ASSUME NEW T, Fits(19, T), NEW st, NEW new, NEW p \in Recorded, NEW s, IsToldOf(new, st, p, s),
         s # Null, PaymentsTell(RowsOf(T, "payments"), st), NEW row,
         \A d : IsOptional(d) =>
           /\ Insertable(row, ColumnsOf(19, "payments"), RequiredOf(19, "payments"))
           /\ Cell(Over(row, d), "hash") = <<p>>
           /\ PaymentRow(Over(row, d), p, s)
  PROVE  \E U : /\ Execute(After(T), Insert("payments", row)) = After(U)
                /\ Fits(19, U)
                /\ PaymentsTell(RowsOf(U, "payments"), new)
                /\ \A u : u # "payments" => RowsOf(U, u) = RowsOf(T, u)
<1> DEFINE t == "payments"
           old == T[t]
<1>1. t \in TablesAt(19) /\ t \in DOMAIN T
  BY LatestTables DEF AllTables, Fits
<1>2. /\ Insertable(row, ColumnsOf(19, t), RequiredOf(19, t))
      /\ Cell(Over(row, old.default), "hash") = <<p>>
      /\ PaymentRow(Over(row, old.default), p, s)
  BY LatestDefaults
<1>3. PICK U, w : /\ Execute(After(T), Insert(t, row)) = After(U)
                  /\ HasChanged(U, T, t, w) /\ HasRow(w, T[t], row) /\ Fits(19, U)
  BY <1>1, <1>2, Inserted
<1>4. RowsOf(U, t) = w.rows /\ RowsOf(T, t) = old.rows /\ \A u : u # t => RowsOf(U, u) = RowsOf(T, u)
  BY <1>1, <1>3, RowsOfChanged
<1>5. Added(w) = Over(row, old.default)
  BY <1>3, AddedRow
<1>6. PaymentsTell(w.rows, new)
  <2>1. PaymentsTell(old.rows, st) /\ HasRow(w, old, row)
    BY <1>3, <1>4
  <2> HIDE DEF old
  <2> QED BY <1>2, <1>5, <2>1, PaymentAdded
<1> QED
  BY <1>3, <1>4, <1>6

\* The row of a claimed offer.
LEMMA OfferStored ==
  ASSUME NEW T, Fits(19, T), NEW st, NEW new, NEW p \in Recorded, NEW s, IsToldOf(new, st, p, s),
         p \in Claims, NEW error \in DOMAIN FromOfferError,
         s = [Told(Latest, p, error) EXCEPT !.personal_note = Null],
         OffersTell(RowsOf(T, "offers"), st)
  PROVE  \E U : /\ Execute(After(T), Insert("offers", ClaimRow(p, error))) = After(U)
                /\ Fits(19, U)
                /\ OffersTell(RowsOf(U, "offers"), new)
                /\ \A u : u # "offers" => RowsOf(U, u) = RowsOf(T, u)
<1> DEFINE t == "offers"
           old == T[t]
           row == ClaimRow(p, error)
<1>1. t \in TablesAt(19) /\ t \in DOMAIN T
  BY LatestTables DEF AllTables, Fits
<1>2. /\ Insertable(row, ColumnsOf(19, t), RequiredOf(19, t))
      /\ Cell(Over(row, old.default), "payment_hash") = <<p>>
      /\ OfferRow(Over(row, old.default), s.offer)
  BY ClaimRowIs
<1>3. PICK U, w : /\ Execute(After(T), Insert(t, row)) = After(U)
                  /\ HasChanged(U, T, t, w) /\ HasRow(w, T[t], row) /\ Fits(19, U)
  <2> HIDE DEF row
  <2> QED BY <1>1, <1>2, Inserted
<1>4. RowsOf(U, t) = w.rows /\ RowsOf(T, t) = old.rows /\ \A u : u # t => RowsOf(U, u) = RowsOf(T, u)
  BY <1>1, <1>3, RowsOfChanged
<1>5. Added(w) = Over(row, old.default)
  <2> HIDE DEF row
  <2> QED BY <1>3, AddedRow
<1>6. HasOffer(s)
  BY NewInfoIs
<1>7. OffersTell(w.rows, new)
  <2>1. OffersTell(old.rows, st) /\ HasRow(w, old, row)
    BY <1>3, <1>4
  <2> HIDE DEF row, old
  <2> QED BY <1>2, <1>5, <1>6, <2>1, OfferAdded
<1> QED
  BY <1>3, <1>4, <1>7

\* store_payment_info on the latest schema.
LEMMA InfoStored ==
  ASSUME NEW T, Fits(19, T), NEW st, NEW ch, Tells(T, st, ch), NEW p \in Recorded,
         NEW error \in DOMAIN FromOfferError, NEW s,
         s = [Told(Latest, p, error) EXCEPT !.personal_note = Null], NEW new, IsToldOf(new, st, p, s)
  PROVE  \E U : Transaction(T, StorePaymentInfo(p, error)) = After(U) /\ Fits(19, U) /\ Tells(U, new, ch)
<1> DEFINE rates == Insert("exchange_rates_history", RateRow(p))
           info == Insert("payments", InfoRow(p))
           claim == Insert("offers", ClaimRow(p, error))
<1>1. IsInfo(s) /\ s # Null /\ HasRates(s) /\ (HasOffer(s) <=> p \in Claims)
  BY NewInfoIs
<1>2. /\ PaymentsTell(RowsOf(T, "payments"), st)
      /\ RatesTell(RowsOf(T, "exchange_rates_history"), st)
      /\ OffersTell(RowsOf(T, "offers"), st)
      /\ AnalyticsTell(RowsOf(T, "analytics_config"), ch)
      /\ AddressTells(RowsOf(T, "lightning_addresses"), ch)
  BY DEF Tells
<1>3. PICK V : /\ Execute(After(T), rates) = After(V) /\ Fits(19, V)
               /\ RatesTell(RowsOf(V, "exchange_rates_history"), new)
               /\ \A u : u # "exchange_rates_history" => RowsOf(V, u) = RowsOf(T, u)
  BY <1>1, <1>2, RateStored
<1>4. \A d : IsOptional(d) =>
           /\ Insertable(InfoRow(p), ColumnsOf(19, "payments"), RequiredOf(19, "payments"))
           /\ Cell(Over(InfoRow(p), d), "hash") = <<p>>
           /\ PaymentRow(Over(InfoRow(p), d), p, s)
  BY InfoRowIs
<1>5. PICK W : /\ Execute(After(V), info) = After(W) /\ Fits(19, W)
               /\ PaymentsTell(RowsOf(W, "payments"), new)
               /\ \A u : u # "payments" => RowsOf(W, u) = RowsOf(V, u)
  <2>1. PaymentsTell(RowsOf(V, "payments"), st)
    BY <1>2, <1>3
  <2> QED BY <1>1, <1>3, <1>4, <2>1, PaymentStored
<1>6. /\ RatesTell(RowsOf(W, "exchange_rates_history"), new)
      /\ OffersTell(RowsOf(W, "offers"), st)
      /\ AnalyticsTell(RowsOf(W, "analytics_config"), ch)
      /\ AddressTells(RowsOf(W, "lightning_addresses"), ch)
  BY <1>2, <1>3, <1>5
<1>7. Transaction(T, StorePaymentInfo(p, error)) =
        Run(After(T), <<rates, info>> \o IF p \notin Claims THEN <<>> ELSE <<claim>>)
  BY DEF Transaction, After, StorePaymentInfo, RateRow, InfoRow, ClaimRow
<1> HIDE DEF rates, info, claim
<1>8. CASE p \notin Claims
  <2>1. <<rates, info>> \o <<>> = <<rates, info>>
    OBVIOUS
  <2>2. Transaction(T, StorePaymentInfo(p, error)) = After(W)
    BY <1>3, <1>5, <1>7, <1>8, <2>1, RunTwo
  <2>3. OffersTell(RowsOf(W, "offers"), new)
    BY <1>1, <1>6, <1>8, NotAdded
  <2> QED
    BY <1>5, <1>6, <2>2, <2>3 DEF Tells
<1>9. CASE p \in Claims
  <2>1. <<rates, info>> \o <<claim>> = <<rates, info, claim>>
    BY TwoAndOne
  <2>2. PICK U : /\ Execute(After(W), claim) = After(U) /\ Fits(19, U)
                 /\ OffersTell(RowsOf(U, "offers"), new)
                 /\ \A u : u # "offers" => RowsOf(U, u) = RowsOf(W, u)
    BY <1>5, <1>6, <1>9, OfferStored DEF claim
  <2>3. Transaction(T, StorePaymentInfo(p, error)) = After(U)
    <3>1. Transaction(T, StorePaymentInfo(p, error)) = Run(After(T), <<rates, info, claim>>)
      BY <1>7, <1>9, <2>1
    <3>2. Run(After(T), <<rates, info, claim>>) = Execute(Execute(Execute(After(T), rates), info), claim)
      BY RunThree
    <3> QED BY <1>3, <1>5, <2>2, <3>1, <3>2
  <2> QED
    BY <1>5, <1>6, <2>2, <2>3 DEF Tells
<1> QED
  BY <1>8, <1>9

\* update_personal_note of a payment without a row.
LEMMA NoteStored ==
  ASSUME NEW T, Fits(19, T), NEW st, NEW ch, Tells(T, st, ch), NEW p \in Recorded, NEW s,
         s = [user_preferences |-> Null, exchange_rate |-> Null, offer |-> Null,
              personal_note |-> <<"payments", "personal_note">>,
              received_on |-> Null, received_lnurl_comment |-> Null],
         NEW new, IsToldOf(new, st, p, s)
  PROVE  \E U : /\ Transaction(T, <<Insert("payments", NoteRow(p))>>) = After(U)
                /\ Fits(19, U) /\ Tells(U, new, ch)
<1> DEFINE note == Insert("payments", NoteRow(p))
<1>1. s # Null /\ ~HasRates(s) /\ ~HasOffer(s)
  BY RecordNotNull DEF HasRates, HasOffer
<1>2. /\ s.user_preferences = Null /\ s.personal_note = <<"payments", "personal_note">>
      /\ s.received_on = Null /\ s.received_lnurl_comment = Null
  OBVIOUS
<1>3. \A d : IsOptional(d) =>
           /\ Insertable(NoteRow(p), ColumnsOf(19, "payments"), RequiredOf(19, "payments"))
           /\ Cell(Over(NoteRow(p), d), "hash") = <<p>>
           /\ PaymentRow(Over(NoteRow(p), d), p, s)
  BY <1>2, NoteRowIs
<1>4. /\ PaymentsTell(RowsOf(T, "payments"), st)
      /\ RatesTell(RowsOf(T, "exchange_rates_history"), st)
      /\ OffersTell(RowsOf(T, "offers"), st)
      /\ AnalyticsTell(RowsOf(T, "analytics_config"), ch)
      /\ AddressTells(RowsOf(T, "lightning_addresses"), ch)
  BY DEF Tells
<1>5. PICK U : /\ Execute(After(T), note) = After(U) /\ Fits(19, U)
               /\ PaymentsTell(RowsOf(U, "payments"), new)
               /\ \A u : u # "payments" => RowsOf(U, u) = RowsOf(T, u)
  BY <1>1, <1>3, <1>4, PaymentStored
<1>6. Transaction(T, <<note>>) = After(U)
  <2>1. Transaction(T, <<note>>) = Run(After(T), <<note>>)
    BY DEF Transaction, After
  <2> HIDE DEF note
  <2>2. Run(After(T), <<note>>) = Execute(After(T), note)
    BY RunOne
  <2> QED BY <1>5, <2>1, <2>2
<1>7. /\ RatesTell(RowsOf(U, "exchange_rates_history"), new)
      /\ OffersTell(RowsOf(U, "offers"), new)
      /\ AnalyticsTell(RowsOf(U, "analytics_config"), ch)
      /\ AddressTells(RowsOf(U, "lightning_addresses"), ch)
  <2>1. RatesTell(RowsOf(T, "exchange_rates_history"), new) /\ OffersTell(RowsOf(T, "offers"), new)
    BY <1>1, <1>4, NotAdded
  <2> QED BY <1>4, <1>5, <2>1
<1>8. Tells(U, new, ch)
  BY <1>5, <1>7 DEF Tells
<1> QED
  BY <1>5, <1>6, <1>8

\* append_analytics_config.
LEMMA ConfigStored ==
  ASSUME NEW T, Fits(19, T), NEW st, NEW ch, Tells(T, st, ch), NEW status \in {Zero, One},
         NEW new, new.analytics = status, new.address = ch.address
  PROVE  \E U : /\ Transaction(T, <<Insert("analytics_config", [status |-> status])>>) = After(U)
                /\ Fits(19, U) /\ Tells(U, st, new)
<1> DEFINE t == "analytics_config"
           old == T[t]
           row == [status |-> status]
           config == Insert(t, row)
<1>1. t \in TablesAt(19) /\ t \in DOMAIN T
  BY LatestTables DEF AllTables, Fits
<1>2. DOMAIN row = {"status"} /\ row["status"] = status
  OBVIOUS
<1> HIDE DEF row
<1>3. Insertable(row, ColumnsOf(19, t), RequiredOf(19, t))
  <2>1. ColumnsOf(19, t) = {"status", "id", "updated_at"} /\ RequiredOf(19, t) = {"status"}
    BY DEF ColumnsOf, RequiredOf
  <2> QED BY <1>2, <2>1, Marks DEF Insertable
<1>4. PICK U, w : /\ Execute(After(T), Insert(t, row)) = After(U)
                  /\ HasChanged(U, T, t, w) /\ HasRow(w, T[t], row) /\ Fits(19, U)
  BY <1>1, <1>3, Inserted
<1>5. RowsOf(U, t) = w.rows /\ RowsOf(T, t) = old.rows /\ \A u : u # t => RowsOf(U, u) = RowsOf(T, u)
  BY <1>1, <1>4, RowsOfChanged
<1>6. Added(w) = Over(row, old.default) /\ Len(w.rows) \in DOMAIN w.rows
  BY <1>4, AddedRow
<1>7. w.rows # <<>>
  <2>1. DOMAIN <<>> = {}
    OBVIOUS
  <2> QED BY <1>6, <2>1
<1>8. AnalyticsTell(w.rows, new)
  <2>1. Cell(Added(w), "status") = status
    BY <1>2, <1>6, CellOver
  <2> QED BY <1>7, <2>1 DEF AnalyticsTell, Added
<1>9. AddressTells(RowsOf(U, "lightning_addresses"), new)
  BY <1>5 DEF AddressTells, Tells
<1>10. Tells(U, st, new)
  BY <1>5, <1>8, <1>9 DEF Tells
<1>11. Transaction(T, <<config>>) = After(U)
  <2>1. Transaction(T, <<config>>) = Run(After(T), <<config>>)
    BY DEF Transaction, After
  <2>2. Execute(After(T), config) = After(U)
    BY <1>4
  <2> HIDE DEF config
  <2>3. Run(After(T), <<config>>) = Execute(After(T), config)
    BY RunOne
  <2> QED BY <2>1, <2>2, <2>3
<1> QED
  BY <1>4, <1>10, <1>11 DEF row

-----------------------------------------------------------------------------
(* Steps                                                                     *)

\* Looking at the version: a process that finds an older one has to migrate.
LEMMA LooksFit ==
  ASSUME MigrationsInv, NEW o \in Openers, LooksAtVersion(o)
  PROVE  MigrationsInv'
<1>1. /\ opener' = [opener EXCEPT ![o] =
            [at |-> IF db.version = Latest THEN "open" ELSE "migrating", seen |-> db.version]]
      /\ db' = db /\ stored' = stored /\ chosen' = chosen
  BY DEF LooksAtVersion
<1>2. OpenersType /\ (\A q \in Openers : VersionSeen(q)) /\ FileInv /\ HistoryInv
  BY DEF MigrationsInv
<1>3. FileInv' /\ HistoryInv'
  BY <1>1, <1>2 DEF FileInv, HistoryInv
<1>4. db.version \in 0..19 /\ Latest = 19
  BY <1>2, TheMigrations DEF FileInv
<1>5. OpenersType'
  BY <1>1, <1>2, <1>4 DEF OpenersType
<1>6. \A q \in Openers : VersionSeen(q)'
  <2> TAKE q \in Openers
  <2>1. CASE q = o
    BY <1>1, <1>2, <1>4, <2>1 DEF VersionSeen, OpenersType
  <2>2. CASE q # o
    <3>1. opener'[q] = opener[q]
      BY <1>1, <1>2, <2>2 DEF OpenersType
    <3> QED BY <1>1, <1>2, <3>1 DEF VersionSeen
  <2> QED BY <2>1, <2>2
<1> QED
  BY <1>3, <1>5, <1>6 DEF MigrationsInv

\* A process that moves keeps what it has seen.
LEMMA GoesSomewhere ==
  ASSUME OpenersType, NEW o \in Openers, NEW at \in {"closed", "refused", "migrating", "open"}, Goes(o, at)
  PROVE  /\ OpenersType'
         /\ opener'[o].at = at /\ opener'[o].seen = opener[o].seen
         /\ \A q \in Openers : q # o => opener'[q] = opener[q]
BY DEF OpenersType, Goes

\* All that is pending leads from an older version to the latest.
LEMMA MigratesAll ==
  ASSUME NEW seen \in 0..18, NEW T, NEW st, NEW ch, Fits(seen, T), Tells(T, st, ch)
  PROVE  \E U : Migrate(T, seen, 19) = After(U) /\ Fits(19, U) /\ Tells(U, st, ch)
<1>1. seen \in 0..19 /\ 19 \in seen..19
  OBVIOUS
<1> QED
  BY <1>1, AllMigrationsLead

\* A migration succeeds only on the version that was looked at.
LEMMA ToLatestFits ==
  ASSUME MigrationsInv, NEW o \in Openers, ToLatest(o)
  PROVE  MigrationsInv'
<1>1. /\ opener[o].at = "migrating" /\ Migrated(o).ok
      /\ db' = [version |-> Latest, tables |-> Migrated(o).tables]
      /\ Goes(o, "open") /\ stored' = stored /\ chosen' = chosen
  BY DEF ToLatest
<1>2. OpenersType /\ (\A q \in Openers : VersionSeen(q)) /\ FileInv /\ HistoryInv
  BY DEF MigrationsInv
<1>3. Latest = 19
  BY TheMigrations
<1>4. opener[o].seen \in 0..18
  BY <1>1, <1>2 DEF OpenersType, VersionSeen
<1>5. Migrated(o) = Migrate(db.tables, opener[o].seen, 19)
  BY <1>3 DEF Migrated
<1>6. opener[o].seen = db.version
  <2>1. CASE db.version = 19
    <3>1. Fits(19, db.tables)
      BY <1>2, <2>1 DEF FileInv
    <3>2. ~Migrated(o).ok
      BY <1>4, <1>5, <3>1, LateMigrationFails
    <3> QED BY <1>1, <3>2
  <2>2. CASE db.version # 19
    BY <1>1, <1>2, <2>2 DEF VersionSeen
  <2> QED BY <2>1, <2>2
<1>7. PICK U : Migrated(o) = After(U) /\ Fits(19, U) /\ Tells(U, stored, chosen)
  <2>1. Fits(opener[o].seen, db.tables) /\ Tells(db.tables, stored, chosen)
    BY <1>2, <1>6 DEF FileInv
  <2> QED BY <1>4, <1>5, <2>1, MigratesAll
<1>8. db' = [version |-> 19, tables |-> U]
  BY <1>1, <1>3, <1>7 DEF After
<1>9. FileInv' /\ HistoryInv'
  BY <1>1, <1>2, <1>7, <1>8 DEF FileInv, HistoryInv
<1>10. /\ OpenersType' /\ opener'[o].at = "open"
       /\ \A q \in Openers : q # o => opener'[q] = opener[q]
  BY <1>1, <1>2, GoesSomewhere
<1>11. \A q \in Openers : VersionSeen(q)'
  <2> TAKE q \in Openers
  <2>1. db'.version = 19
    BY <1>8
  <2>2. CASE q = o
    BY <1>10, <2>1, <2>2 DEF VersionSeen
  <2>3. CASE q # o
    <3>1. opener'[q] = opener[q] /\ VersionSeen(q)
      BY <1>2, <1>10, <2>3
    <3>2. opener[q].at = "refused" => opener[q].seen < 19
      BY <3>1 DEF VersionSeen
    <3> QED BY <2>1, <3>1, <3>2 DEF VersionSeen
  <2> QED BY <2>2, <2>3
<1> QED
  BY <1>9, <1>10, <1>11 DEF MigrationsInv

\* It fails only on one that was migrated since.
LEMMA FailureFits ==
  ASSUME MigrationsInv, NEW o \in Openers, MigrationFails(o)
  PROVE  MigrationsInv'
<1>1. /\ opener[o].at = "migrating" /\ ~Migrated(o).ok /\ Goes(o, "refused")
      /\ db' = db /\ stored' = stored /\ chosen' = chosen
  BY DEF MigrationFails
<1>2. OpenersType /\ (\A q \in Openers : VersionSeen(q)) /\ FileInv /\ HistoryInv
  BY DEF MigrationsInv
<1>3. Latest = 19
  BY TheMigrations
<1>4. opener[o].seen \in 0..18
  BY <1>1, <1>2 DEF OpenersType, VersionSeen
<1>5. Migrated(o) = Migrate(db.tables, opener[o].seen, 19)
  BY <1>3 DEF Migrated
<1>6. db.version = 19
  <2> SUFFICES ASSUME db.version # 19 PROVE FALSE
    OBVIOUS
  <2>1. opener[o].seen = db.version
    BY <1>1, <1>2 DEF VersionSeen
  <2>2. Fits(opener[o].seen, db.tables) /\ Tells(db.tables, stored, chosen)
    BY <1>2, <2>1 DEF FileInv
  <2>3. PICK U : Migrated(o) = After(U)
    BY <1>4, <1>5, <2>2, MigratesAll
  <2> QED BY <1>1, <2>3 DEF After
<1>7. FileInv' /\ HistoryInv'
  BY <1>1, <1>2 DEF FileInv, HistoryInv
<1>8. /\ OpenersType' /\ opener'[o].at = "refused" /\ opener'[o].seen = opener[o].seen
      /\ \A q \in Openers : q # o => opener'[q] = opener[q]
  BY <1>1, <1>2, GoesSomewhere
<1>9. \A q \in Openers : VersionSeen(q)'
  <2> TAKE q \in Openers
  <2>1. CASE q = o
    BY <1>1, <1>4, <1>6, <1>8, <2>1 DEF VersionSeen
  <2>2. CASE q # o
    <3>1. opener'[q] = opener[q] /\ VersionSeen(q)
      BY <1>2, <1>8, <2>2
    <3> QED BY <1>1, <3>1 DEF VersionSeen
  <2> QED BY <2>1, <2>2
<1> QED
  BY <1>7, <1>8, <1>9 DEF MigrationsInv

\* Closing forgets.
LEMMA ClosingFits ==
  ASSUME MigrationsInv, NEW o \in Openers, Closes(o)
  PROVE  MigrationsInv'
<1>1. Goes(o, "closed") /\ db' = db /\ stored' = stored /\ chosen' = chosen
  BY DEF Closes
<1>2. OpenersType /\ (\A q \in Openers : VersionSeen(q)) /\ FileInv /\ HistoryInv
  BY DEF MigrationsInv
<1>3. FileInv' /\ HistoryInv'
  BY <1>1, <1>2 DEF FileInv, HistoryInv
<1>4. /\ OpenersType' /\ opener'[o].at = "closed"
      /\ \A q \in Openers : q # o => opener'[q] = opener[q]
  BY <1>1, <1>2, GoesSomewhere
<1>5. \A q \in Openers : VersionSeen(q)'
  <2> TAKE q \in Openers
  <2>1. CASE q = o
    BY <1>4, <2>1 DEF VersionSeen
  <2>2. CASE q # o
    <3>1. opener'[q] = opener[q] /\ VersionSeen(q)
      BY <1>2, <1>4, <2>2
    <3> QED BY <1>1, <3>1 DEF VersionSeen
  <2> QED BY <2>1, <2>2
<1> QED
  BY <1>3, <1>4, <1>5 DEF MigrationsInv

\* A write after which the tables still fit and tell.
LEMMA WritesFit ==
  ASSUME MigrationsInv, NEW o \in Openers, NEW statements, Writes(o, statements),
         HistoryInv',
         NEW U, Transaction(db.tables, statements) = After(U), Fits(19, U), Tells(U, stored', chosen')
  PROVE  MigrationsInv'
<1>1. opener[o].at = "open" /\ opener' = opener
  BY DEF Writes
<1>2. OpenersType /\ (\A q \in Openers : VersionSeen(q)) /\ FileInv
  BY DEF MigrationsInv
<1>3. db.version = 19
  BY <1>1, <1>2 DEF VersionSeen
<1>4. db' = [db EXCEPT !.tables = U]
  BY DEF Writes, After
<1>5. db' = [version |-> 19, tables |-> U]
  BY <1>2, <1>3, <1>4 DEF FileInv
<1>6. FileInv'
  BY <1>5 DEF FileInv
<1>7. OpenersType' /\ \A q \in Openers : VersionSeen(q)'
  BY <1>1, <1>2, <1>3, <1>5 DEF OpenersType, VersionSeen
<1> QED
  BY <1>6, <1>7 DEF MigrationsInv

\* A process that writes finds the latest schema.
LEMMA OpenFits ==
  ASSUME MigrationsInv, NEW o \in Openers, NEW statements, Writes(o, statements)
  PROVE  Fits(19, db.tables) /\ Tells(db.tables, stored, chosen)
BY DEF MigrationsInv, VersionSeen, FileInv, Writes

\* The history has one more entry.
LEMMA ToldOnce ==
  ASSUME IsStored(stored), NEW p \in Recorded, stored[p] = Null, NEW s, IsInfo(s),
         stored' = [stored EXCEPT ![p] = s]
  PROVE  IsToldOf(stored', stored, p, s) /\ IsStored(stored')
<1>1. stored' = [q \in Recorded |-> IF q = p THEN s ELSE stored[q]]
  BY DEF IsStored
<1> QED
  BY <1>1 DEF IsStored, IsToldOf

\* Writes keep the invariant.
LEMMA StoringFits ==
  ASSUME MigrationsInv, NEW o \in Openers, NEW p \in Recorded, NEW error \in Errors,
         StoresPaymentInfo(o, p, error)
  PROVE  MigrationsInv'
<1> DEFINE s == [Told(Latest, p, error) EXCEPT !.personal_note = Null]
<1>1. /\ stored[p] = Null /\ Writes(o, StorePaymentInfo(p, error))
      /\ stored' = [stored EXCEPT ![p] = s] /\ chosen' = chosen
  BY DEF StoresPaymentInfo
<1>2. IsInfo(s) /\ error \in DOMAIN FromOfferError
  BY NewInfoIs, ErrorsAssumption
<1>3. Fits(19, db.tables) /\ Tells(db.tables, stored, chosen)
  BY <1>1, OpenFits
<1>4. IsStored(stored) /\ chosen = [analytics |-> chosen.analytics, address |-> chosen.address]
  BY DEF MigrationsInv, HistoryInv
<1>5. IsToldOf(stored', stored, p, s) /\ IsStored(stored')
  <2> HIDE DEF s
  <2> QED BY <1>1, <1>2, <1>4, ToldOnce
<1>6. PICK U : /\ Transaction(db.tables, StorePaymentInfo(p, error)) = After(U)
               /\ Fits(19, U) /\ Tells(U, stored', chosen)
  BY <1>2, <1>3, <1>5, InfoStored
<1>7. HistoryInv'
  BY <1>1, <1>4, <1>5 DEF HistoryInv
<1> QED
  BY <1>1, <1>6, <1>7, WritesFit

LEMMA NoteFits ==
  ASSUME MigrationsInv, NEW o \in Openers, NEW p \in Recorded, UpdatesPersonalNote(o, p)
  PROVE  MigrationsInv'
<1> DEFINE s == [user_preferences |-> Null, exchange_rate |-> Null, offer |-> Null,
                 personal_note |-> <<"payments", "personal_note">>,
                 received_on |-> Null, received_lnurl_comment |-> Null]
           note == <<Insert("payments", NoteRow(p))>>
<1>1. /\ stored[p] = Null /\ Writes(o, note)
      /\ stored' = [stored EXCEPT ![p] = s] /\ chosen' = chosen
  BY DEF UpdatesPersonalNote, NoteRow
<1>2. IsInfo(s)
  BY DEF IsInfo
<1> HIDE DEF note
<1>3. Fits(19, db.tables) /\ Tells(db.tables, stored, chosen)
  BY <1>1, OpenFits
<1>4. IsStored(stored) /\ chosen = [analytics |-> chosen.analytics, address |-> chosen.address]
  BY DEF MigrationsInv, HistoryInv
<1>5. IsToldOf(stored', stored, p, s) /\ IsStored(stored')
  <2> HIDE DEF s
  <2> QED BY <1>1, <1>2, <1>4, ToldOnce
<1>6. PICK U : Transaction(db.tables, note) = After(U) /\ Fits(19, U) /\ Tells(U, stored', chosen)
  BY <1>3, <1>5, NoteStored DEF note
<1>7. HistoryInv'
  BY <1>1, <1>4, <1>5 DEF HistoryInv
<1> QED
  BY <1>1, <1>6, <1>7, WritesFit

LEMMA ConfigFits ==
  ASSUME MigrationsInv, NEW o \in Openers, NEW status \in {Zero, One}, AppendsAnalyticsConfig(o, status)
  PROVE  MigrationsInv'
<1> DEFINE config == <<Insert("analytics_config", [status |-> status])>>
<1>1. Writes(o, config) /\ chosen' = [chosen EXCEPT !.analytics = status] /\ stored' = stored
  BY DEF AppendsAnalyticsConfig
<1>2. IsStored(stored) /\ chosen = [analytics |-> chosen.analytics, address |-> chosen.address]
  BY DEF MigrationsInv, HistoryInv
<1>3. chosen' = [analytics |-> status, address |-> chosen.address]
  BY <1>1, <1>2
<1>4. chosen'.analytics = status /\ chosen'.address = chosen.address
  BY <1>3
<1> HIDE DEF config
<1>5. Fits(19, db.tables) /\ Tells(db.tables, stored, chosen)
  BY <1>1, OpenFits
<1>6. PICK U : Transaction(db.tables, config) = After(U) /\ Fits(19, U) /\ Tells(U, stored, chosen')
  BY <1>4, <1>5, ConfigStored DEF config
<1>7. HistoryInv'
  BY <1>1, <1>2, <1>3 DEF HistoryInv
<1> QED
  BY <1>1, <1>6, <1>7, WritesFit

\* In every state the tables are those of the version the file says, and tell what
\* the wallet was told; a process that is to migrate has seen that version, or the
\* file is at the latest; a store is open at the latest only.
THEOREM FilesFit == MigrationsSpec => []MigrationsInv
<1>1. MigrationsInit => MigrationsInv
  BY InitFits
<1>2. MigrationsInv /\ [MigrationsNext]_migrationVars => MigrationsInv'
  <2> SUFFICES ASSUME MigrationsInv, [MigrationsNext]_migrationVars
               PROVE  MigrationsInv'
    OBVIOUS
  <2>1. CASE UNCHANGED migrationVars
    BY <2>1 DEF migrationVars, MigrationsInv, OpenersType, VersionSeen, FileInv, HistoryInv
  <2>2. ASSUME NEW o \in Openers, LooksAtVersion(o)
        PROVE  MigrationsInv'
    BY <2>2, LooksFit
  <2>3. ASSUME NEW o \in Openers, ToLatest(o)
        PROVE  MigrationsInv'
    BY <2>3, ToLatestFits
  <2>4. ASSUME NEW o \in Openers, MigrationFails(o)
        PROVE  MigrationsInv'
    BY <2>4, FailureFits
  <2>5. ASSUME NEW o \in Openers, Closes(o)
        PROVE  MigrationsInv'
    BY <2>5, ClosingFits
  <2>6. ASSUME NEW o \in Openers, NEW p \in Recorded, NEW error \in Errors, StoresPaymentInfo(o, p, error)
        PROVE  MigrationsInv'
    BY <2>6, StoringFits
  <2>7. ASSUME NEW o \in Openers, NEW p \in Recorded, UpdatesPersonalNote(o, p)
        PROVE  MigrationsInv'
    BY <2>7, NoteFits
  <2>8. ASSUME NEW o \in Openers, NEW status \in {Zero, One}, AppendsAnalyticsConfig(o, status)
        PROVE  MigrationsInv'
    BY <2>8, ConfigFits
  <2> QED
    BY <2>1, <2>2, <2>3, <2>4, <2>5, <2>6, <2>7, <2>8 DEF MigrationsNext
<1> QED
  BY <1>1, <1>2, PTL DEF MigrationsSpec

\* The migrations fail a process only when another one migrated the file after it
\* had looked at its version: on every older version they all succeed, and at least
\* one of them fails on the latest.
THEOREM OnlyRacesDoFail == MigrationsSpec => []OnlyRacesFail
<1>1. MigrationsInv => OnlyRacesFail
  BY TheMigrations DEF MigrationsInv, VersionSeen, OnlyRacesFail
<1> QED
  BY <1>1, FilesFit, PTL

-----------------------------------------------------------------------------
(* Reading                                                                   *)

\* The file of an open store.
Reads ==
  /\ Fits(19, db.tables) /\ Tells(db.tables, stored, chosen)
  /\ IsStored(stored)

HasColumns(rows, cols) == \A i \in DOMAIN rows : DOMAIN rows[i] = cols

\* The rows an open store finds have the columns of the latest schema.
LEMMA LatestRows ==
  ASSUME Reads, NEW t \in AllTables
  PROVE  /\ RowsOf(db.tables, t) = db.tables[t].rows
         /\ HasColumns(RowsOf(db.tables, t), ColumnsOf(19, t))
         /\ Columns(db.tables, t) = ColumnsOf(19, t)
         /\ IsSeq(RowsOf(db.tables, t))
<1> DEFINE T == db.tables
<1>1. t \in DOMAIN T /\ IsTable(T[t], ColumnsOf(19, t), RequiredOf(19, t))
  BY LatestTables DEF Reads, Fits
<1>2. RowsOf(T, t) = T[t].rows
  BY <1>1 DEF RowsOf
<1>3. HasColumns(RowsOf(T, t), ColumnsOf(19, t))
  BY <1>1, <1>2 DEF IsTable, HasColumns
<1>4. Columns(T, t) = ColumnsOf(19, t)
  BY <1>1 DEF IsTable, Columns
<1>5. IsSeq(RowsOf(T, t))
  BY <1>1, <1>2 DEF IsTable
<1> QED
  BY <1>2, <1>3, <1>4, <1>5

\* A row of these rows.
IsRowIn(r, rows) == \E i \in DOMAIN rows : r = rows[i]

\* What a WHERE finds.
LEMMA RowsFound ==
  ASSUME Reads, NEW t \in AllTables, NEW c \in ColumnsOf(19, t), NEW value
  PROVE  \A r : r \in RowsWhere(t, c, value) <=>
                  IsRowIn(r, RowsOf(db.tables, t)) /\ Cell(r, c) = value
<1> DEFINE rows == RowsOf(db.tables, t)
<1>1. rows = db.tables[t].rows /\ HasColumns(rows, ColumnsOf(19, t))
  BY LatestRows
<1>2. \A r : r \in RowsWhere(t, c, value) <=> r \in Range(rows) /\ r[c] = value
  BY <1>1 DEF RowsWhere
<1> HIDE DEF rows
<1>3. \A r : r \in Range(rows) <=> IsRowIn(r, rows)
  BY DEF Range, IsRowIn
<1>4. \A r : IsRowIn(r, rows) => DOMAIN r = ColumnsOf(19, t)
  BY <1>1 DEF HasColumns, IsRowIn
<1>5. \A r : IsRowIn(r, rows) => Cell(r, c) = r[c]
  BY <1>4 DEF Cell
<1>6. \A r : r \in RowsWhere(t, c, value) <=> IsRowIn(r, rows) /\ Cell(r, c) = value
  BY <1>2, <1>3, <1>5
<1> QED
  BY <1>6 DEF rows

\* What a column of such a row holds.
LEMMA RowColumns ==
  ASSUME Reads, NEW t \in AllTables, NEW r, IsRowIn(r, RowsOf(db.tables, t))
  PROVE  \A c \in ColumnsOf(19, t) : Cell(r, c) = r[c]
<1>1. HasColumns(RowsOf(db.tables, t), ColumnsOf(19, t))
  BY LatestRows
<1>2. DOMAIN r = ColumnsOf(19, t)
  BY <1>1 DEF HasColumns, IsRowIn
<1> QED
  BY <1>2 DEF Cell

\* Hashes identify payments.
LEMMA SameHash == \A p, q : <<p>> = <<q>> => p = q
OBVIOUS

PaymentFound(p) == RowsWhere("payments", "hash", <<p>>)

\* The row that is found is the one of the payment, if it has one.
LEMMA PaymentRead ==
  ASSUME Reads, NEW p \in Recorded
  PROVE  /\ stored[p] = Null => PaymentFound(p) = {}
         /\ stored[p] # Null => PaymentFound(p) # {}
         /\ \A r \in PaymentFound(p) :
              IsRowIn(r, RowsOf(db.tables, "payments")) /\ PaymentRow(r, p, stored[p])
<1> DEFINE rows == RowsOf(db.tables, "payments")
<1>1. PaymentsTell(rows, stored)
  BY DEF Reads, Tells
<1>2. "payments" \in AllTables /\ "hash" \in ColumnsOf(19, "payments")
  BY DEF AllTables, ColumnsOf, PaymentColumns
<1>3. \A r : r \in PaymentFound(p) <=> IsRowIn(r, rows) /\ Cell(r, "hash") = <<p>>
  BY <1>2, RowsFound DEF PaymentFound
<1> HIDE DEF rows
<1>4. ASSUME NEW r \in PaymentFound(p)
      PROVE  IsRowIn(r, rows) /\ stored[p] # Null /\ PaymentRow(r, p, stored[p])
  <2>1. PICK i \in DOMAIN rows : r = rows[i] /\ Cell(r, "hash") = <<p>>
    BY <1>3 DEF IsRowIn
  <2>2. PICK q \in Recorded : Cell(r, "hash") = <<q>> /\ stored[q] # Null /\ PaymentRow(r, q, stored[q])
    BY <1>1, <2>1 DEF PaymentsTell
  <2>3. q = p
    BY <2>1, <2>2, SameHash
  <2> QED
    BY <1>3, <2>2, <2>3
<1>5. ASSUME stored[p] # Null
      PROVE  PaymentFound(p) # {}
  <2>1. PICK i \in DOMAIN rows : Cell(rows[i], "hash") = <<p>>
    BY <1>1, <1>5 DEF PaymentsTell
  <2>2. rows[i] \in PaymentFound(p)
    BY <1>3, <2>1 DEF IsRowIn
  <2> QED BY <2>2
<1> QED
  BY <1>4, <1>5 DEF rows

RatesFound(p) ==
  {r \in RowsWhere("exchange_rates_history", "snapshot_id", <<p>>) : r["fiat_currency"] = PaidIn}

\* The rates that are joined are the ones of the payment.
LEMMA RatesRead ==
  ASSUME Reads, NEW p \in Recorded, HasRates(stored[p])
  PROVE  /\ RatesFound(p) # {}
         /\ \A r \in RatesFound(p) :
              /\ r["rate"] = <<"exchange_rates_history", "rate">>
              /\ r["updated_at"] = <<"exchange_rates_history", "updated_at">>
<1> DEFINE t == "exchange_rates_history"
           rows == RowsOf(db.tables, t)
<1>1. RatesTell(rows, stored)
  BY DEF Reads, Tells
<1>2. t \in AllTables /\ {"snapshot_id", "fiat_currency", "rate", "updated_at"} \subseteq ColumnsOf(19, t)
  BY DEF AllTables, ColumnsOf, RateColumns
<1>3. \A r : r \in RowsWhere(t, "snapshot_id", <<p>>) <=> IsRowIn(r, rows) /\ Cell(r, "snapshot_id") = <<p>>
  BY <1>2, RowsFound
<1>4. \A r : IsRowIn(r, rows) =>
           /\ Cell(r, "fiat_currency") = r["fiat_currency"] /\ Cell(r, "rate") = r["rate"]
           /\ Cell(r, "updated_at") = r["updated_at"]
  BY <1>2, RowColumns
<1>5. \A r : r \in RatesFound(p) <=> r \in RowsWhere(t, "snapshot_id", <<p>>) /\ r["fiat_currency"] = PaidIn
  BY DEF RatesFound
<1> HIDE DEF rows, t
<1>6. ASSUME NEW r \in RatesFound(p)
      PROVE  /\ r["rate"] = <<"exchange_rates_history", "rate">>
             /\ r["updated_at"] = <<"exchange_rates_history", "updated_at">>
  <2>1. PICK i \in DOMAIN rows : r = rows[i]
    BY <1>3, <1>5 DEF IsRowIn
  <2>2. /\ Cell(r, "rate") = <<"exchange_rates_history", "rate">>
        /\ Cell(r, "updated_at") = <<"exchange_rates_history", "updated_at">>
    BY <1>1, <2>1 DEF RatesTell
  <2> QED
    BY <1>3, <1>4, <1>5, <2>2
<1>7. RatesFound(p) # {}
  <2>1. PICK i \in DOMAIN rows : Cell(rows[i], "snapshot_id") = <<p>>
    BY <1>1 DEF RatesTell
  <2>2. Cell(rows[i], "fiat_currency") = PaidIn
    BY <1>1, <2>1 DEF RatesTell
  <2>3. IsRowIn(rows[i], rows)
    BY <2>1 DEF IsRowIn
  <2>4. rows[i] \in RatesFound(p)
    BY <1>3, <1>4, <1>5, <2>1, <2>2, <2>3
  <2> QED BY <2>4
<1> QED
  BY <1>6, <1>7

OfferFound(p) == RowsWhere("offers", "payment_hash", <<p>>)

\* The offer that is joined is the one of the payment, if it has one.
LEMMA OfferRead ==
  ASSUME Reads, NEW p \in Recorded
  PROVE  /\ ~HasOffer(stored[p]) => OfferFound(p) = {}
         /\ HasOffer(stored[p]) => OfferFound(p) # {}
         /\ \A r \in OfferFound(p) :
              IsRowIn(r, RowsOf(db.tables, "offers")) /\ OfferRow(r, stored[p].offer)
<1> DEFINE rows == RowsOf(db.tables, "offers")
<1>1. OffersTell(rows, stored)
  BY DEF Reads, Tells
<1>2. "offers" \in AllTables /\ "payment_hash" \in ColumnsOf(19, "offers")
  BY DEF AllTables, ColumnsOf, OfferColumns
<1>3. \A r : r \in OfferFound(p) <=> IsRowIn(r, rows) /\ Cell(r, "payment_hash") = <<p>>
  BY <1>2, RowsFound DEF OfferFound
<1> HIDE DEF rows
<1>4. ASSUME NEW r \in OfferFound(p)
      PROVE  IsRowIn(r, rows) /\ HasOffer(stored[p]) /\ OfferRow(r, stored[p].offer)
  <2>1. PICK i \in DOMAIN rows : r = rows[i] /\ Cell(r, "payment_hash") = <<p>>
    BY <1>3 DEF IsRowIn
  <2>2. PICK q \in Recorded :
          Cell(r, "payment_hash") = <<q>> /\ HasOffer(stored[q]) /\ OfferRow(r, stored[q].offer)
    BY <1>1, <2>1 DEF OffersTell
  <2>3. q = p
    BY <2>1, <2>2, SameHash
  <2> QED
    BY <1>3, <2>2, <2>3
<1>5. ASSUME HasOffer(stored[p])
      PROVE  OfferFound(p) # {}
  <2>1. PICK i \in DOMAIN rows : Cell(rows[i], "payment_hash") = <<p>>
    BY <1>1, <1>5 DEF OffersTell
  <2>2. rows[i] \in OfferFound(p)
    BY <1>3, <2>1 DEF IsRowIn
  <2> QED BY <2>2
<1> QED
  BY <1>4, <1>5 DEF rows

ThePayment(p) == Joined(p).payments
TheRates(p) == Joined(p).exchange_rates_history
TheOffer(p) == Joined(p).offers

\* The columns by their index.
LEMMA Gets ==
  ASSUME NEW p
  PROVE  /\ Get(p, 0) = ThePayment(p)["timezone_id"]
         /\ Get(p, 1) = ThePayment(p)["timezone_utc_offset_secs"]
         /\ Get(p, 2) = ThePayment(p)["fiat_currency"]
         /\ Get(p, 3) = TheRates(p)["rate"]
         /\ Get(p, 4) = TheRates(p)["updated_at"]
         /\ Get(p, 5) = TheOffer(p)["pocket_id"]
         /\ Get(p, 6) = TheOffer(p)["fiat_currency"]
         /\ Get(p, 7) = TheOffer(p)["rate"]
         /\ Get(p, 8) = TheOffer(p)["exchanged_at"]
         /\ Get(p, 9) = TheOffer(p)["topup_value_minor_units"]
         /\ Get(p, 10) = TheOffer(p)["exchange_fee_minor_units"]
         /\ Get(p, 11) = TheOffer(p)["exchange_fee_rate_permyriad"]
         /\ Get(p, 12) = TheOffer(p)["error"]
         /\ Get(p, 13) = TheOffer(p)["topup_value_sats"]
         /\ Get(p, 14) = ThePayment(p)["personal_note"]
         /\ Get(p, 15) = ThePayment(p)["received_on"]
         /\ Get(p, 16) = ThePayment(p)["received_lnurl_comment"]
BY DEF Get, Selected, ThePayment, TheRates, TheOffer

\* A LEFT JOIN gives a row, or NULLs.
LEMMA OneOfIs ==
  ASSUME NEW rows, NEW t
  PROVE  /\ rows = {} => OneOf(rows, t) = Nulls(Columns(db.tables, t))
         /\ rows # {} => OneOf(rows, t) \in rows
BY DEF OneOf

\* What is joined.
LEMMA JoinedParts ==
  ASSUME NEW p
  PROVE  /\ ThePayment(p) = OneOf(PaymentFound(p), "payments")
         /\ TheOffer(p) = OneOf(OfferFound(p), "offers")
         /\ ThePayment(p)[NewName] = <<p>> /\ ThePayment(p)["fiat_currency"] = PaidIn =>
              TheRates(p) = OneOf(RatesFound(p), "exchange_rates_history")
<1>1. ThePayment(p) = OneOf(PaymentFound(p), "payments")
  BY DEF ThePayment, Joined, PaymentFound
<1>2. TheOffer(p) = OneOf(OfferFound(p), "offers")
  BY DEF TheOffer, Joined, OfferFound
<1>3. TheRates(p) =
        OneOf({r \in RowsWhere("exchange_rates_history", "snapshot_id", ThePayment(p)[NewName]) :
                 r["fiat_currency"] = ThePayment(p)["fiat_currency"]}, "exchange_rates_history")
  BY <1>1 DEF TheRates, Joined, PaymentFound, NewName
<1>4. ThePayment(p)[NewName] = <<p>> /\ ThePayment(p)["fiat_currency"] = PaidIn =>
        TheRates(p) = OneOf(RatesFound(p), "exchange_rates_history")
  BY <1>3 DEF RatesFound
<1> QED
  BY <1>1, <1>2, <1>4

\* A group of columns is there when all of them are.
LEMMA AllThere ==
  ASSUME NEW a, NEW b, NEW c
  PROVE  /\ a = Null => AllOf(<<a, b, c>>) = Null
         /\ a # Null /\ b # Null /\ c # Null => AllOf(<<a, b, c>>) = <<a, b, c>>
<1>1. Range(<<a, b, c>>) = {a, b, c}
  BY TripleRange
<1> DEFINE values == <<a, b, c>>
<1>2. AllOf(values) = IF Null \in {a, b, c} THEN Null ELSE values
  BY <1>1 DEF AllOf
<1> HIDE DEF values
<1>3. a = Null => AllOf(values) = Null
  BY <1>2
<1>4. a # Null /\ b # Null /\ c # Null => AllOf(values) = values
  BY <1>2
<1> QED
  BY <1>3, <1>4 DEF values

\* What the row of a payment gives.
LEMMA PaymentCells ==
  ASSUME Reads, NEW p \in Recorded, stored[p] # Null
  PROVE  /\ \/ /\ ThePayment(p)["timezone_id"] = <<"payments", "timezone_id">>
               /\ ThePayment(p)["timezone_utc_offset_secs"] = <<"payments", "timezone_utc_offset_secs">>
               /\ ThePayment(p)["fiat_currency"] = PaidIn
               /\ ThePayment(p)[NewName] = <<p>>
               /\ stored[p].user_preferences = Preferences
            \/ /\ ThePayment(p)["timezone_id"] = Null
               /\ ThePayment(p)["fiat_currency"] = Null
               /\ stored[p].user_preferences = Null
         /\ ThePayment(p)["personal_note"] = stored[p].personal_note
         /\ ThePayment(p)["received_on"] = stored[p].received_on
         /\ ThePayment(p)["received_lnurl_comment"] = stored[p].received_lnurl_comment
<1> DEFINE r == ThePayment(p)
<1>1. PaymentFound(p) # {}
  BY PaymentRead
<1>2. r \in PaymentFound(p)
  BY <1>1, JoinedParts, OneOfIs
<1>3. IsRowIn(r, RowsOf(db.tables, "payments")) /\ PaymentRow(r, p, stored[p])
  BY <1>2, PaymentRead
<1>4. "payments" \in AllTables /\ ColumnsOf(19, "payments") = PaymentColumns(19)
  BY DEF AllTables, ColumnsOf
<1>5. /\ "timezone_id" \in PaymentColumns(19) /\ "timezone_utc_offset_secs" \in PaymentColumns(19)
      /\ "fiat_currency" \in PaymentColumns(19) /\ NewName \in PaymentColumns(19)
      /\ "personal_note" \in PaymentColumns(19) /\ "received_on" \in PaymentColumns(19)
      /\ "received_lnurl_comment" \in PaymentColumns(19) /\ OldName \notin PaymentColumns(19)
  BY DEF PaymentColumns, NewName, OldName
<1> HIDE DEF r
<1>6. \A c \in PaymentColumns(19) : Cell(r, c) = r[c]
  BY <1>3, <1>4, RowColumns
<1>7. Cell(r, OldName) = Null
  <2>1. HasColumns(RowsOf(db.tables, "payments"), PaymentColumns(19))
    BY <1>4, LatestRows
  <2>2. DOMAIN r = PaymentColumns(19)
    BY <1>3, <2>1 DEF HasColumns, IsRowIn
  <2> QED BY <1>5, <2>2 DEF Cell
<1>8. Snapshot(r) = r[NewName]
  BY <1>5, <1>6, <1>7 DEF Snapshot
<1>9. /\ Cell(r, "timezone_id") = r["timezone_id"]
      /\ Cell(r, "timezone_utc_offset_secs") = r["timezone_utc_offset_secs"]
      /\ Cell(r, "fiat_currency") = r["fiat_currency"]
      /\ Cell(r, "personal_note") = r["personal_note"]
      /\ Cell(r, "received_on") = r["received_on"]
      /\ Cell(r, "received_lnurl_comment") = r["received_lnurl_comment"]
  BY <1>5, <1>6
<1>10. stored[p].user_preferences = Preferences \/ stored[p].user_preferences = Null
  BY DEF Reads, IsStored, IsInfo
<1> QED
  BY <1>3, <1>8, <1>9, <1>10 DEF PaymentRow, Preferences, r

\* The offer is read as it was stored.
LEMMA OfferReadBack ==
  ASSUME Reads, NEW p \in Recorded, stored[p] # Null
  PROVE  OfferFromRow(p) = stored[p].offer
<1> DEFINE r == TheOffer(p)
           offer == stored[p].offer
<1>1. "offers" \in AllTables /\ ColumnsOf(19, "offers") = OfferColumns(19)
  BY DEF AllTables, ColumnsOf
<1>2. CASE HasOffer(stored[p])
  <2>1. OfferFound(p) # {}
    BY <1>2, OfferRead
  <2>2. r \in OfferFound(p)
    BY <2>1, JoinedParts, OneOfIs
  <2>3. IsRowIn(r, RowsOf(db.tables, "offers")) /\ OfferRow(r, offer)
    BY <2>2, OfferRead
  <2> HIDE DEF r, offer
  <2>4. \A c \in OfferColumns(19) : Cell(r, c) = r[c]
    BY <1>1, <2>3, RowColumns
  <2>5. /\ "pocket_id" \in OfferColumns(19) /\ "fiat_currency" \in OfferColumns(19)
        /\ "rate" \in OfferColumns(19) /\ "exchanged_at" \in OfferColumns(19)
        /\ "topup_value_minor_units" \in OfferColumns(19)
        /\ "exchange_fee_minor_units" \in OfferColumns(19)
        /\ "exchange_fee_rate_permyriad" \in OfferColumns(19)
        /\ "topup_value_sats" \in OfferColumns(19) /\ "error" \in OfferColumns(19)
    BY DEF OfferColumns
  <2>6. /\ Cell(r, "pocket_id") = r["pocket_id"]
        /\ Cell(r, "fiat_currency") = r["fiat_currency"]
        /\ Cell(r, "rate") = r["rate"] /\ Cell(r, "exchanged_at") = r["exchanged_at"]
        /\ Cell(r, "topup_value_minor_units") = r["topup_value_minor_units"]
        /\ Cell(r, "exchange_fee_minor_units") = r["exchange_fee_minor_units"]
        /\ Cell(r, "exchange_fee_rate_permyriad") = r["exchange_fee_rate_permyriad"]
        /\ Cell(r, "topup_value_sats") = r["topup_value_sats"]
        /\ Cell(r, "error") = r["error"]
    BY <2>4, <2>5
  <2>7. /\ r["pocket_id"] # Null
        /\ offer = <<r["pocket_id"], r["fiat_currency"], r["rate"], r["exchanged_at"],
                     r["topup_value_minor_units"], r["exchange_fee_minor_units"],
                     r["exchange_fee_rate_permyriad"], r["topup_value_sats"], ToOfferError(r["error"])>>
    BY <2>3, <2>6 DEF OfferRow
  <2>8. /\ Get(p, 5) = r["pocket_id"] /\ Get(p, 6) = r["fiat_currency"] /\ Get(p, 7) = r["rate"]
        /\ Get(p, 8) = r["exchanged_at"] /\ Get(p, 9) = r["topup_value_minor_units"]
        /\ Get(p, 10) = r["exchange_fee_minor_units"] /\ Get(p, 11) = r["exchange_fee_rate_permyriad"]
        /\ Get(p, 12) = r["error"] /\ Get(p, 13) = r["topup_value_sats"]
    BY Gets DEF r
  <2>9. OfferFromRow(p) = offer
    BY <2>7, <2>8 DEF OfferFromRow
  <2> QED
    BY <2>9 DEF offer
<1>3. CASE ~HasOffer(stored[p])
  <2>1. OfferFound(p) = {}
    BY <1>3, OfferRead
  <2>2. r = Nulls(Columns(db.tables, "offers"))
    BY <2>1, JoinedParts, OneOfIs
  <2>3. Columns(db.tables, "offers") = OfferColumns(19)
    BY <1>1, LatestRows
  <2>4. "pocket_id" \in OfferColumns(19)
    BY DEF OfferColumns
  <2>5. Get(p, 5) = r["pocket_id"]
    BY Gets
  <2> HIDE DEF r
  <2>6. r["pocket_id"] = Null
    BY <2>2, <2>3, <2>4 DEF Nulls
  <2>7. OfferFromRow(p) = Null
    BY <2>5, <2>6 DEF OfferFromRow
  <2> QED
    BY <1>3, <2>7 DEF HasOffer
<1> QED
  BY <1>2, <1>3

\* And so is the payment.
LEMMA InfoReadBack ==
  ASSUME Reads, NEW p \in Recorded
  PROVE  RetrievePaymentInfo(p) = stored[p]
<1> DEFINE s == stored[p]
           r == ThePayment(p)
<1>1. CASE s = Null
  <2>1. PaymentFound(p) = {}
    BY <1>1, PaymentRead
  <2> QED BY <1>1, <2>1 DEF RetrievePaymentInfo, PaymentFound
<1>2. CASE s # Null
  <2>1. RetrievePaymentInfo(p) = LocalPaymentDataFromRow(p)
    <3>1. PaymentFound(p) # {}
      BY <1>2, PaymentRead
    <3> QED BY <3>1 DEF RetrievePaymentInfo, PaymentFound
  <2>2. s = [user_preferences |-> s.user_preferences, exchange_rate |-> s.exchange_rate,
             offer |-> s.offer, personal_note |-> s.personal_note, received_on |-> s.received_on,
             received_lnurl_comment |-> s.received_lnurl_comment]
        /\ \/ s.user_preferences = Preferences /\ s.exchange_rate = RateOf
           \/ s.user_preferences = Null /\ s.exchange_rate = Null
    BY <1>2 DEF Reads, IsStored, IsInfo
  <2>3. Preferences # Null /\ RateOf # Null /\ PaidIn # Null
    BY NotNull DEF Preferences, RateOf, PaidIn
  <2>4. OfferFromRow(p) = s.offer
    BY <1>2, OfferReadBack
  <2>5. /\ Get(p, 0) = r["timezone_id"] /\ Get(p, 1) = r["timezone_utc_offset_secs"]
        /\ Get(p, 2) = r["fiat_currency"]
        /\ Get(p, 3) = TheRates(p)["rate"] /\ Get(p, 4) = TheRates(p)["updated_at"]
        /\ Get(p, 14) = r["personal_note"] /\ Get(p, 15) = r["received_on"]
        /\ Get(p, 16) = r["received_lnurl_comment"]
    BY Gets
  <2>6. /\ Get(p, 14) = s.personal_note /\ Get(p, 15) = s.received_on
        /\ Get(p, 16) = s.received_lnurl_comment
    BY <1>2, <2>5, PaymentCells
  <2>7. /\ AllOf(<<Get(p, 0), Get(p, 1), Get(p, 2)>>) = s.user_preferences
        /\ AllOf(<<Get(p, 2), Get(p, 3), Get(p, 4)>>) = s.exchange_rate
    <3>1. CASE s.user_preferences = Preferences
      <4>1. /\ r["timezone_id"] = <<"payments", "timezone_id">>
            /\ r["timezone_utc_offset_secs"] = <<"payments", "timezone_utc_offset_secs">>
            /\ r["fiat_currency"] = PaidIn /\ r[NewName] = <<p>>
        BY <1>2, <2>3, <3>1, PaymentCells
      <4>2. TheRates(p) = OneOf(RatesFound(p), "exchange_rates_history")
        BY <4>1, JoinedParts
      <4>3. HasRates(s) /\ s.exchange_rate = RateOf
        BY <1>2, <2>2, <2>3, <3>1 DEF HasRates
      <4>4. TheRates(p) \in RatesFound(p)
        BY <4>2, <4>3, RatesRead, OneOfIs
      <4>5. /\ TheRates(p)["rate"] = <<"exchange_rates_history", "rate">>
            /\ TheRates(p)["updated_at"] = <<"exchange_rates_history", "updated_at">>
        BY <4>3, <4>4, RatesRead
      <4> HIDE DEF s, r
      <4>6. /\ Get(p, 0) = <<"payments", "timezone_id">>
            /\ Get(p, 1) = <<"payments", "timezone_utc_offset_secs">>
            /\ Get(p, 2) = PaidIn
            /\ Get(p, 3) = <<"exchange_rates_history", "rate">>
            /\ Get(p, 4) = <<"exchange_rates_history", "updated_at">>
        BY <2>5, <4>1, <4>5
      <4>7. Get(p, 0) # Null /\ Get(p, 1) # Null /\ Get(p, 2) # Null /\ Get(p, 3) # Null /\ Get(p, 4) # Null
        BY <2>3, <4>6, NotNull
      <4>8. /\ AllOf(<<Get(p, 0), Get(p, 1), Get(p, 2)>>) = <<Get(p, 0), Get(p, 1), Get(p, 2)>>
            /\ AllOf(<<Get(p, 2), Get(p, 3), Get(p, 4)>>) = <<Get(p, 2), Get(p, 3), Get(p, 4)>>
        BY <4>7, AllThere
      <4>9. /\ <<Get(p, 0), Get(p, 1), Get(p, 2)>> = Preferences
            /\ <<Get(p, 2), Get(p, 3), Get(p, 4)>> = RateOf
        BY <4>6 DEF Preferences, RateOf
      <4> QED BY <3>1, <4>3, <4>8, <4>9
    <3>2. CASE s.user_preferences # Preferences
      <4>1. s.user_preferences = Null /\ s.exchange_rate = Null
        BY <2>2, <3>2
      <4>2. r["timezone_id"] = Null /\ r["fiat_currency"] = Null
        BY <1>2, <2>3, <4>1, PaymentCells
      <4>3. Get(p, 0) = Null /\ Get(p, 2) = Null
        BY <2>5, <4>2
      <4>4. /\ AllOf(<<Get(p, 0), Get(p, 1), Get(p, 2)>>) = Null
            /\ AllOf(<<Get(p, 2), Get(p, 3), Get(p, 4)>>) = Null
        BY <4>3, AllThere
      <4> QED BY <4>1, <4>4
    <3> QED BY <3>1, <3>2
  <2> HIDE DEF s, r
  <2>8. LocalPaymentDataFromRow(p) = s
    BY <2>2, <2>4, <2>6, <2>7 DEF LocalPaymentDataFromRow
  <2> QED
    BY <2>1, <2>8 DEF s
<1> QED
  BY <1>1, <1>2

\* The last rows hold the choices.
LEMMA ChoicesReadBack ==
  ASSUME Reads
  PROVE  /\ LastOf("analytics_config", "status") = chosen.analytics
         /\ chosen.address # Null => LastOf("lightning_addresses", "enable_status") = chosen.address
<1> DEFINE configs == RowsOf(db.tables, "analytics_config")
           addresses == RowsOf(db.tables, "lightning_addresses")
<1>1. /\ "analytics_config" \in AllTables /\ "lightning_addresses" \in AllTables
      /\ "status" \in ColumnsOf(19, "analytics_config")
      /\ "enable_status" \in ColumnsOf(19, "lightning_addresses")
  BY DEF AllTables, ColumnsOf, AddressColumns
<1>2. /\ configs = db.tables["analytics_config"].rows /\ IsSeq(configs)
      /\ HasColumns(configs, ColumnsOf(19, "analytics_config"))
      /\ addresses = db.tables["lightning_addresses"].rows /\ IsSeq(addresses)
      /\ HasColumns(addresses, ColumnsOf(19, "lightning_addresses"))
  BY <1>1, LatestRows
<1>3. configs # <<>>
  BY <1>2 DEF Reads, Fits
<1>4. AnalyticsTell(configs, chosen) /\ AddressTells(addresses, chosen)
  BY DEF Reads, Tells
<1>5. /\ LastOf("analytics_config", "status") = Last(configs)["status"]
      /\ LastOf("lightning_addresses", "enable_status") = Last(addresses)["enable_status"]
  BY <1>2 DEF LastOf
<1> HIDE DEF configs, addresses
<1>6. ASSUME NEW rows, IsSeq(rows), rows # <<>>, NEW cols, HasColumns(rows, cols)
      PROVE  DOMAIN Last(rows) = cols /\ Last(rows) = rows[Len(rows)]
  <2>1. Len(rows) \in DOMAIN rows
    BY <1>6 DEF IsSeq
  <2> QED BY <2>1, <1>6 DEF HasColumns, Last
<1>7. Last(configs)["status"] = chosen.analytics
  <2>1. DOMAIN Last(configs) = ColumnsOf(19, "analytics_config") /\ Last(configs) = configs[Len(configs)]
    BY <1>2, <1>3, <1>6
  <2>2. Cell(Last(configs), "status") = chosen.analytics
    BY <1>3, <1>4, <2>1 DEF AnalyticsTell
  <2> QED BY <1>1, <2>1, <2>2 DEF Cell
<1>8. ASSUME chosen.address # Null
      PROVE  Last(addresses)["enable_status"] = chosen.address
  <2>1. addresses # <<>>
    BY <1>4, <1>8 DEF AddressTells
  <2>2. DOMAIN Last(addresses) = ColumnsOf(19, "lightning_addresses")
        /\ Last(addresses) = addresses[Len(addresses)]
    BY <1>2, <1>6, <2>1
  <2>3. Status(Last(addresses)) = chosen.address
    BY <1>4, <1>8, <2>1, <2>2 DEF AddressTells
  <2> QED BY <1>1, <2>2, <2>3 DEF Status
<1> QED
  BY <1>5, <1>7, <1>8

\* A statement that names columns of the latest schema, all required ones among them.
LEMMA StatementCan ==
  ASSUME Reads, NEW t \in AllTables, NEW cols, cols \subseteq ColumnsOf(19, t),
         RequiredOf(19, t) \subseteq cols, NEW p
  PROVE  Can(db.tables, Insert(t, RowOf(t, cols, p)))
<1> DEFINE T == db.tables
           row == RowOf(t, cols, p)
           s == Insert(t, row)
<1>1. DOMAIN row = cols
  BY DEF RowOf
<1>2. \A c \in cols : row[c] # Null
  BY NotNull DEF RowOf, Value
<1> HIDE DEF row
<1>3. s.do = "insert" /\ s.table = t /\ s.row = row
  BY DEF Insert
<1>4. Columns(T, t) = ColumnsOf(19, t)
  BY LatestRows
<1>5. \A c \in ColumnsOf(19, t) : T[t].default[c] = Required => c \in RequiredOf(19, t)
  BY LatestTables DEF Reads, Fits, IsTable
<1> HIDE DEF T, s
<1>6. Can(T, s)
  BY <1>1, <1>2, <1>3, <1>4, <1>5 DEF Can
<1> QED
  BY <1>6 DEF T, s, row

\* The statements on the other tables name columns of the latest schema, and all
\* that are required.
LEMMA StatementsFit ==
  \A s \in OtherStatements :
    /\ s[1] \in AllTables
    /\ s[2] \subseteq ColumnsOf(19, s[1]) /\ RequiredOf(19, s[1]) \subseteq s[2]
    /\ s[3] \subseteq ColumnsOf(19, s[1])
<1>1. \A s \in InvoiceStatements \cup RateStatements \cup CurrencyStatements :
    /\ s[1] \in AllTables
    /\ s[2] \subseteq ColumnsOf(19, s[1]) /\ RequiredOf(19, s[1]) \subseteq s[2]
    /\ s[3] \subseteq ColumnsOf(19, s[1])
  BY DEF InvoiceStatements, RateStatements, CurrencyStatements, AllTables, ColumnsOf, RequiredOf, InvoiceColumns
<1>2. \A s \in TopupStatements :
    /\ s[1] \in AllTables
    /\ s[2] \subseteq ColumnsOf(19, s[1]) /\ RequiredOf(19, s[1]) \subseteq s[2]
    /\ s[3] \subseteq ColumnsOf(19, s[1])
  BY DEF TopupStatements, AllTables, ColumnsOf, RequiredOf, TopupColumns
<1>3. \A s \in AnalyticsStatements \cup AddressStatements \cup HiddenStatements :
    /\ s[1] \in AllTables
    /\ s[2] \subseteq ColumnsOf(19, s[1]) /\ RequiredOf(19, s[1]) \subseteq s[2]
    /\ s[3] \subseteq ColumnsOf(19, s[1])
  BY DEF AnalyticsStatements, AddressStatements, HiddenStatements, AllTables, ColumnsOf, RequiredOf, AddressColumns
<1> QED
  BY <1>1, <1>2, <1>3 DEF OtherStatements

\* Whatever version of the library stored a payment, its rates, its offer, its note
\* or a choice, an open store reads it as it was, and the statements on the other
\* tables find the columns they name.
THEOREM StoredIsRead == MigrationsSpec => []ReadsWhatWasStored
<1>1. MigrationsInv => ReadsWhatWasStored
  <2> SUFFICES ASSUME MigrationsInv, IsOpen
               PROVE  /\ \A p \in Recorded : RetrievePaymentInfo(p) = stored[p]
                      /\ LastOf("analytics_config", "status") = chosen.analytics
                      /\ chosen.address # Null => LastOf("lightning_addresses", "enable_status") = chosen.address
                      /\ \A s \in OtherStatements :
                           /\ Can(db.tables, Insert(s[1], RowOf(s[1], s[2], <<>>)))
                           /\ s[3] \subseteq Columns(db.tables, s[1])
    BY DEF ReadsWhatWasStored
  <2>1. Reads
    BY DEF MigrationsInv, IsOpen, VersionSeen, FileInv, HistoryInv, Reads
  <2>2. ASSUME NEW s \in OtherStatements
        PROVE  /\ Can(db.tables, Insert(s[1], RowOf(s[1], s[2], <<>>)))
               /\ s[3] \subseteq Columns(db.tables, s[1])
    BY <2>1, StatementsFit, StatementCan, LatestRows
  <2> QED
    BY <2>1, <2>2, InfoReadBack, ChoicesReadBack
<1> QED
  BY <1>1, FilesFit, PTL
=============================================================================
