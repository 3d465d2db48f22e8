--------------------------- MODULE ExchangeRates ---------------------------
(***************************************************************************)
(* Exchange rates: the task that fetches them, the rows that survive a     *)
(* restart, the list in memory that everything else reads, and the         *)
(* snapshots that are stored with payments.                                *)
(*                                                                         *)
(* An iteration asks the service, writes the rows of the answer one by one *)
(* under the DataStore mutex and then, under another, replaces the list in *)
(* memory.  A payment takes the list and is stored afterwards, with a      *)
(* snapshot whose key is the current second.  Every answer of the service  *)
(* is taken to list every currency: a currency it stopped listing would    *)
(* keep its row and be gone from memory.                                   *)
(***************************************************************************)
EXTENDS RepeatingTask, Naturals

CONSTANTS
  Currencies,
  Payments,    \* payments that are stored with a snapshot
  MaxQuote,    \* bound: how often the service changes its quotes
  MaxSeconds   \* bound: where the clock stops

ASSUME RatesAssumption == MaxQuote \in Nat /\ MaxSeconds \in Nat

VARIABLES
  quotes,     \* the service's list of quotes, numbered; 0 is empty
  answer,     \* the list each task's request was answered with
  saved,       \* table exchange_rates: the list each currency's rate is from
  rates,      \* the rates in memory, likewise
  unwritten,  \* history: currencies of which the last write of a row failed
  seconds,    \* the clock
  history,    \* table exchange_rates_history: quotes by second and currency
  payment     \* the payments: the rates taken for each, the second it is stored at

rateVars == <<taskVars, quotes, answer, saved, rates, unwritten, seconds, history, payment>>

-----------------------------------------------------------------------------
RateSteps == {"asking", "answered", "persisted"}

QuotesOf(list) == [c \in Currencies |-> list]

NoQuotes == QuotesOf(0)

Listed(q) == {c \in Currencies : q[c] # 0}

Unpaid == [at |-> "none", taken |-> NoQuotes, second |-> 0]

RatesInit ==
  /\ TaskInit
  /\ quotes = 0
  /\ answer = [t \in Tasks |-> 0]
  /\ saved = NoQuotes
  /\ rates = NoQuotes
  /\ unwritten = {}
  /\ seconds = 0
  /\ history = [s \in 0..MaxSeconds |-> NoQuotes]
  /\ payment = [p \in Payments |-> Unpaid]

RatesKept == UNCHANGED <<quotes, seconds, history, payment>>

-----------------------------------------------------------------------------
(* The node's life.                                                          *)

\* Mutant: the rows are not read at the start.
StartsEmpty == NoQuotes

\* TaskManager::new reads the rows.
Loaded == saved

RatesForeground(t) ==
  /\ Spawn(t)
  /\ rates' = IF Up THEN rates ELSE Loaded
  /\ UNCHANGED <<answer, saved, unwritten>> /\ RatesKept

RatesBackground ==
  /\ StopAll
  /\ UNCHANGED <<answer, saved, rates, unwritten>> /\ RatesKept

\* The rows once some of an answer's are replaced.
Overwritten(t, some) == [c \in Currencies |-> IF c \in some THEN answer[t] ELSE saved[c]]

\* A process that dies among the writes of an answer leaves some of its rows.
RatesCrash ==
  /\ TasksDie
  /\ \/ UNCHANGED saved
     \/ \E t \in Tasks, some \in SUBSET Currencies :
          At(t, "answered") /\ saved' = Overwritten(t, some)
  /\ rates' = NoQuotes
  /\ answer' = [t \in Tasks |-> 0]
  /\ payment' = [p \in Payments |-> IF payment[p].at = "taken" THEN Unpaid ELSE payment[p]]
  /\ UNCHANGED <<quotes, unwritten, seconds, history>>

-----------------------------------------------------------------------------
(* An iteration of the task.                                                 *)

RatesTick(t) ==
  /\ TickTo(t, "asking")
  /\ UNCHANGED <<answer, saved, rates, unwritten>> /\ RatesKept

RatesStop(t) ==
  /\ Stops(t)
  /\ UNCHANGED <<answer, saved, rates, unwritten>> /\ RatesKept

Quoted(t) ==
  /\ Step(t, "asking", "answered")
  /\ quotes # 0
  /\ answer' = [answer EXCEPT ![t] = quotes]
  /\ UNCHANGED <<saved, rates, unwritten>> /\ RatesKept

QueryFails(t) ==
  /\ Step(t, "asking", "waiting")
  /\ UNCHANGED <<answer, saved, rates, unwritten>> /\ RatesKept

\* Mutant: the first error ends the writing, unnoticed.
NoneWritten(failed) == IF failed = {} THEN Currencies ELSE {}

\* Each row is written on its own; an error is logged.
Written(failed) == Currencies \ failed

Persist(t) ==
  /\ Step(t, "answered", "persisted")
  /\ \E failed \in SUBSET Currencies :
       /\ saved' = Overwritten(t, Written(failed))
       /\ unwritten' = failed
  /\ UNCHANGED <<answer, rates>> /\ RatesKept

\* The list in memory is replaced as a whole.
Publish(t) ==
  /\ Step(t, "persisted", "waiting")
  /\ rates' = QuotesOf(answer[t])
  /\ answer' = [answer EXCEPT ![t] = 0]
  /\ UNCHANGED <<saved, unwritten>> /\ RatesKept

RatesStep(t) ==
  RatesTick(t) \/ RatesStop(t) \/ Quoted(t) \/ QueryFails(t) \/ Persist(t) \/ Publish(t)

-----------------------------------------------------------------------------
(* Payments.  Support::store_payment_info takes a copy of the list and then  *)
(* locks the DataStore.                                                      *)

TakeRates(p) ==
  /\ Up
  /\ payment[p].at = "none"
  /\ payment' = [payment EXCEPT ![p] = [at |-> "taken", taken |-> rates, second |-> 0]]
  /\ UNCHANGED <<taskVars, quotes, answer, saved, rates, unwritten, seconds, history>>

\* Mutant: a later snapshot of the second replaces the earlier one.
Replaced(old, new) == IF new # 0 THEN new ELSE old

\* UNIQUE (snapshot_id, fiat_currency) ON CONFLICT IGNORE.
Inserted(old, new) == IF old # 0 THEN old ELSE new

StorePayment(p) ==
  /\ payment[p].at = "taken"
  /\ history' = [history EXCEPT ![seconds] =
                   [c \in Currencies |-> Inserted(@[c], payment[p].taken[c])]]
  /\ payment' = [payment EXCEPT ![p].at = "stored", ![p].second = seconds]
  /\ UNCHANGED <<taskVars, quotes, answer, saved, rates, unwritten, seconds>>

\* The rates a stored payment is shown with.  With an empty list it refers to
\* no snapshot.
Recorded(p) ==
  IF payment[p].taken = NoQuotes THEN NoQuotes ELSE history[payment[p].second]

-----------------------------------------------------------------------------
(* The service and the clock.                                                *)

QuotesChange ==
  /\ quotes < MaxQuote
  /\ quotes' = quotes + 1
  /\ UNCHANGED <<taskVars, answer, saved, rates, unwritten, seconds, history, payment>>

SecondPasses ==
  /\ seconds < MaxSeconds
  /\ seconds' = seconds + 1
  /\ UNCHANGED <<taskVars, quotes, answer, saved, rates, unwritten, history, payment>>

RatesNext ==
  \/ \E t \in Tasks : RatesForeground(t) \/ RatesStep(t)
  \/ RatesBackground \/ RatesCrash
  \/ \E p \in Payments : TakeRates(p) \/ StorePayment(p)
  \/ QuotesChange \/ SecondPasses

-----------------------------------------------------------------------------
\* The rates of a single task's iterations, read back from rows it could write.
InOrder(c) == ~overlap /\ c \notin unwritten

(* TaskManager::start_exchange_rate_update writes the rows and then the list *)
(* in memory.  Between iterations the rows a restart would read hold what     *)
(* the app is shown, whatever crashes came before.                           *)
RatesPersisted ==
  LET Between == \E t \in Tasks : At(t, "persisted")
  IN  Up /\ ~Between => \A c \in Currencies : InOrder(c) => saved[c] = rates[c]

(* The rate the app is shown, or would be shown after a restart, is never    *)
(* replaced by an older one: not by a restart and not by a late answer.      *)
Shown == IF Up THEN rates ELSE saved

RatesForward ==
  [][\A c \in Currencies : InOrder(c)' => Shown'[c] >= Shown[c]]_rateVars

(* insert_exchange_rate_snapshot keys a snapshot with the second.  A payment *)
(* that is the first of its second is stored with the rates taken for it,    *)
(* and no later one changes a rate that is on record.                        *)
RecordedRates ==
  [][\A p \in Payments :
       /\ payment[p].at = "stored" =>
            \A c \in Listed(Recorded(p)) : Recorded(p)'[c] = Recorded(p)[c]
       /\ payment'[p].at = "stored" /\ payment[p].at # "stored"
            /\ (\A q \in Payments \ {p} :
                  payment[q].at = "stored" => payment[q].second # seconds) =>
            Recorded(p)' = payment[p].taken]_rateVars

RatesSpec == RatesInit /\ [][RatesNext]_rateVars
=============================================================================
