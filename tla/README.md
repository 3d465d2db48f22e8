# A TLA+ model of the lipa-lightning-lib (3L)

3L is the Rust library behind the lipa wallet. `LightningNode` wraps the Breez SDK (which owns
keys, channels and payments) and adds what the SDK does not have: a SQLite file with what the
wallet knows about payments, a remote backup of that file, lightning addresses, fiat topups,
background tasks and a list of activities. This directory models those additions, checks them
with TLC and proves the most important properties with TLAPS.

Paths below are relative to the repository root; `PROJECT.json` maps every definition to its lines.

## 1. Inventory

### Components

| component | code | state it keeps | operations |
|---|---|---|---|
| Data store | `src/data_store.rs`, `src/migrations.rs` | SQLite file `db2.db3`, its copy, `backup_status` in memory | one method per write or read, each under `Arc<Mutex<DataStore>>` |
| Remote backup | `src/backup.rs`, `src/recovery.rs` | object at the backup service | copy, upload, recover |
| Task manager | `src/task_manager.rs`, `src/async_runtime.rs` | task handles; cached rates, LSP fees, health | `foreground`, `background`, five repeating tasks |
| Payment rows | `data_store.rs`, `lightning/*.rs`, `support.rs` | tables payments, offers, created_invoices | create, pay, withdraw, personal note |
| Fiat topup | `src/fiat_topup.rs` | topup row; offers at the service and the backend | register, reset, list, collect, dismiss |
| Lightning addresses | `lightning_address.rs`, `phone_number.rs`, `config.rs` | table lightning_addresses; status at the backend | register, verify, feature flag |
| Activities | `src/activities.rs`, `activity.rs` | none | list, get |
| Actions required | `src/actions_required.rs` | hidden items | list, dismiss, hide |
| Notification handling | `src/notification_handling.rs` | a DataStore and SDK of its own on the same files | payment received, swaps, lnurl-pay request |
| Onchain | `src/onchain/*.rs` | none (SDK) | swaps, reverse swaps, channel closes |
| Amounts and fees | `amount.rs`, `lightning/mod.rs`, `receive_limits.rs`, `support.rs` | none | rounding, LSP fee, limits |
| Configuration | `src/config.rs`, `node_config.rs` | rows and cached preferences | setters |
| Analytics, events | `analytics.rs`, `event.rs`, `callbacks.rs` | configuration | report, call back |
| Parser, phone numbers | `parser/src/*.rs`, `phone_number.rs` | none | parse an address or a number while it is typed, convert between them |
| Recipients | `lib.rs`, `payment.rs` | none | list of those paid before |
| Keys, logger, errors | the rest | none | pure functions and plumbing |

### How they interact

* Calls of the app arrive on any thread. There is no lock around an operation: a method takes the
  DataStore mutex for one read or write, releases it, calls the SDK or a service, takes it again.
* `foreground()` and `background()` ask running tasks to stop and start new ones without waiting.
* `handle_notification` runs beside the node, typically in another process, with its own DataStore
  on the same file. Only SQLite orders the two.
* Services (backup, addresses, topups, health, rates) are reached over the network: a request may
  be refused, be lost, be applied with its answer lost, or arrive after its sender gave up.
* The app hears of events through `EventsCallback`, called from SDK and task threads.

### What is hard about it

Two task generations at once; a flag that says what is backed up, lowered after an await; two
processes on one file; several writes that belong together, each a transaction of its own; state
read, then a request, then a write; crashes at any of these points; lists put together from sources
read one after the other; limits and cut-offs. What makes each component correct is stated by the
properties of section 3; `hazards` in `PROJECT.json` gives the line where each may go wrong.

## 2. The modules

| module | models | extends |
|---|---|---|
| `Backup` | data store flag, backup task, upload, crash, loss of the device, recovery, second process | |
| `PaymentData` | tables payments, offers, created_invoices under create, pay, withdraw, collect, note | |
| `Addresses` | register, verify, set_feature_flag; table and backend | |
| `RepeatingTask` | how repeating tasks start, stop and overlap | |
| `HealthStatus` | the health check task and its callback | `RepeatingTask` |
| `ExchangeRates` | the rates task, its rows and its list in memory, the snapshots stored with payments | `RepeatingTask` |
| `LspFees` | the task that caches the LSP's terms | `RepeatingTask` |
| `NodeStart` | `LightningNode::new` step by step, recovery, new installs, preferences in memory and as rows | |
| `Activities` | `list` and `get`, and the world they read | |
| `InvoiceRequest` | what a payer and the owner of an address may rely on (abstract) | |
| `PaymentWait` | `wait_for_payment`: the deadline, the rounds, the SDK's events | |
| `LnurlPay` | the handler of lnurl-pay requests; implements `InvoiceRequest` | instance of `Addresses` |
| `Notifications` | `handle_notification` from its arrival to its result | `PaymentWait`, `LnurlPay` |
| `Amounts` | rounding, routing fees, LSP fee, receive limits (operators) | |
| `BreezServices` | channels, closes, swaps and payments, as the SDK's mock keeps them | |
| `Onchain` | determine_resolving_fees, swap, prepare_sweep, sweep for closed channels and failed swaps | `BreezServices`, `Amounts` |
| `Lightning` | what is affordable, receivable, clearable, and what comes of it | `Onchain` |
| `ActionsRequired` | the list of items that wait for the user, and the hidden ones | `Lightning` |
| `FiatTopup` | registration, offers, collection, and the list of uncompleted offers | |
| `Tables`, `Migrations` | as much of SQLite as is needed; the 19 migrations, opening a file of any version, the statements of `DataStore` and its row readers | |
| `Parser`, `PhoneNumbers` | the two parsers, and the conversion between phone numbers and addresses (operators) | |
| `InputField` | a field that is typed into, erased and cut as the parser's errors say | `PhoneNumbers` |
| `Recipients` | the list of recipients paid before | `PhoneNumbers` |
| `BackupProofs`, `PaymentDataProofs`, `AddressesProofs`, `HealthStatusProofs`, `NotificationsProofs`, `NodeProofs`, `ActivitiesProofs`, `OnchainProofs` | theorems; `PaymentDataProofs` is about `PaymentData` and `Migrations`, `AddressesProofs` about `Addresses` and `InputField`, `NodeProofs` about `NodeStart`, `LspFees` and `ExchangeRates`, `OnchainProofs` about all that `MCOnchain` holds | the above, `TLAPS` |
| `MC*` | instances for TLC; `MCNode`, `MCOnchain`, `MCAddresses` and `MCPaymentData` each hold components that share little, a behaviour being about one of them | the above |

**Backup.** A database is the set of changes it has absorbed (`db`, `file` for the copy, `remote`),
or absent, or torn. `FlaggedWrite` is any writer that raises `backup_status`; `TopupWrite` the two
that do not (`store_fiat_topup_info`, `clear_fiat_topup_info`); `NotificationWrite` the other
process, which has neither the node's mutex nor its flag. The iteration of
`start_backup_local_db` is `Tick` (look at the flag), `CopyBegin`/`CopyEnd` (mutex held),
`UploadBegin` (`fs::read` without the mutex), `ServerApply`, `Finish` (flag lowered), with a failure
beside each. A request given up may arrive later (`stray`). `Crash`, `LoseFiles`, `Recover` and
`RecoverInterrupted` complete the life of a wallet. Four history variables say what a flag vouches for:
`due` are the flagged changes committed while no task was between the start of its copy and the lowering of
the flag (`Holding`), and all that a copy found which was made with the flag up and no other task there;
`exposed` are those of them that an upload, abandoned before they were due, left without;
`late` says that the object the service keeps is one that arrived late; `overlap` that two generations were alive together.

**PaymentData.** Each operation is a `call` of a thread at a named step; the steps are the writes
of the code in its order. `StoreInfo` does what the schema does: a row stored again is replaced,
with its note. Failed writes are logged and ignored in `store_payment_info` (history `failed`),
and end the operation elsewhere; `Killed` ends it anywhere (history `cut`).

**Addresses.** `SetFeatureFlag` picks its addresses from the table (`Candidates`), asks the backend
and writes (`Stores`, or `StoresPart` when SQLite refuses a row); with no candidates it succeeds at
once. A call is `alone` on an address when no other call worked on it meanwhile; `blurred` is the
history of addresses whose status no caller can tell (lost answer, failed row, overlap, late
request).

**RepeatingTask, HealthStatus.** `Spawn` and `StopAll` are `restart()` with the foreground and the
background periods. A task notices `stop` between iterations only. An iteration of the health task
is request, `Compare`, `Store`, `CallBack`, with the lock released between them. `overlap` records
that two generations were alive at once.

**Activities.** Every event takes a moment of its own and an activity is the moment it was created,
so "the latest k" is a set and needs no sequence: `Latest`. `List` takes the SDK's payments,
`ReadRows` the created invoices, `Partition` does multiplexing, sorting, the cut at
`LookForPending` and the truncation, `ReadSwap` adds the swap in progress. `Get` and `ReadRow` look
up one. Amounts, and rows skipped as corrupted, are left out.

**ExchangeRates.** The service's lists are numbered, so "older" is a comparison. An iteration is
request, `Persist` (rows one by one, each write may fail; history `unwritten`), `Publish` (the list in
memory, under another mutex). `RatesForeground` of a node that is not up reads the rows
(`TaskManager::new`). A payment is `TakeRates` and later `StorePayment`, whose snapshot is keyed by
the second, with the table's `ON CONFLICT IGNORE` (`Inserted`). A crash may fall between two rows.

**LspFees.** One answer is cached in two steps, under two mutexes; either kind of terms may be
missing in it and is then left as it was (history `lacking`).

**NodeStart.** The database is the rows of each preference, the last of which counts. `OpenStore`,
`LoadPreferences` (stores the default currency when there is none), `ConnectSdk`, `StartTasks`,
`RegisterWebhook` are the steps of `LightningNode::new`; `StartFails` may follow each. The backup task
runs from `StartTasks` on, before `new` has returned. Recovery is `BeginRecovery` (refused over a
file), `FetchBackup`, `WriteDatabase` or `WriteFails` (a file torn or empty). `NotificationOpens` is
the other process, which creates the database like the node does. `SetPreference` keeps the order of
the code: `set_fiat_currency` stores and then caches, `set_analytics_config` the other way round.
`bypassed` is the history of a database made empty while a backup was waiting to be recovered.

**Notifications, PaymentWait, LnurlPay.** `at` is where `handle_notification` is: toggle, database,
SDK, dispatch. `wait` is where `wait_for_payment` is: `Look` asks the SDK, `TakeEvent` and `NoEvent` end
the round, `TakeWhileSyncing` waits for `Synced` without a timeout. The SDK learns of payments
(`IsPending`, `Completes`), sends events in any order among others, or disconnects. Time passes only
while the loop is blocked or the SDK starts: the handler runs as soon as it can. `lnurl` is where
the lnurl-pay handler is: fee, address check, webhook, invoice, rates, row, submission, each question a
step that may fail. Beside it `Addresses` takes its own steps on the same table, other payments
use up the inbound liquidity, and the process may be ended.

**Amounts, BreezServices, Onchain, Lightning.** `Amounts` has the arithmetic with the code's rounding;
`Minus` is the difference of unsigned integers that a release build does not check (`Width` for 2^64).
A call of `Onchain` is a `goal` at a step; `determine_resolving_fees` asks for the address,
the rate and the amounts one after the other, `swap` and `sweep` ask again. `disturbed` records what of
the world changed since the last answer, so that a property can say "unless the world changed".
`Lightning` asks (`AskPayment`, `AskReceive`, `AskClear`) and then pays, receives, clears.
Any question may go without an answer: `CallFails` ends the call then, except where the code takes the failure for
an answer (`Tolerated`): no address means no offer to swap (`AskAddress`), a failed rate or preparation means that
there is no way to resolve the funds (`NothingFound`).

**ActionsRequired, FiatTopup.** `List` is `list_refundables`, the trial of one hidden swap after the other, the balance
and, for hidden closes, `determine_resolving_fees` of `Onchain`. A trial that fails leaves the item out of a list that
goes on and succeeds (`TryHiddenSwap`, `ListHiddenCloses`); `unanswered` keeps which ones that were. In `FiatTopup` a
collection is `Withdraw`, `HideOffer`, `StoreClaim`, each of which may fail; a failed `HideOffer` may have hidden the
offer all the same and ends the call before the claim is stored (`AfterFailedHide`). Beside it run the list's two questions.

**Migrations.** The file is its `user_version` and its tables, each with its rows and the default of each
column, so that a statement fails for the reasons SQLite has (a table or column that is there or not,
`NOT NULL` without a value). `to_latest` reads the version (`LooksAtVersion`) and then runs all that is
pending with the new version in one transaction (`ToLatest`, or `MigrationFails`, rolled back). It
begins with a file of any version, filled as the library of that version did (`OldFile`), and has two processes
open it. A value names the column it was first written to, so a swapped column shows. What a
statement of `DataStore` inserts and reads is written out by column, `retrieve_payment_info` by index.

**Parser, PhoneNumbers, InputField.** Characters are classes (a letter, a digit, a blank, a foreign one, and
each one the grammar names); a parser is an operator that returns where it stopped. Positions count
characters, the code's count bytes. `Type`, `Erase` and `CutOff` change the field; the verdict is always
of the text there is. The crate `phonenumber` is a table of the numbers that are valid.

### External assumptions

What is not in this repository is modelled from how the code uses it: `create_backup` replaces the
object; the service of a topup offer accepts one invoice; assigning an address again returns the
one there is, and may or may not enable it when it was disabled; the SDK lists the latest payments
first and has one swap in progress at most. (The mock of the SDK sorts ascending; the code sorts
again and says "latest".) `BreezServices` follows `mock/breez-sdk`, with four differences that the
real service has: each swap has its own address, the fee rate changes, a sweep leaves the reserve
behind, and a reverse swap above the maximum is refused, which the doc of `prepare_clear_wallet`
(`onchain/reverse_swap.rs:73`) says of it and the mock does not do. `SwapperFee` is any natural; the runs use
the mock's `SWAPPER_ROUTING_FEE_SAT`, 150, and `MinReverse` 1000, the minimum of its swaps. An answer of the rates service lists every
currency: if it stopped listing one, that currency's row would stay while it is gone from memory, and a restart
would show the old rate again. Where the code asks the SDK several questions
to prepare one transaction (address check, fee, node info), the model asks them in one step, `AskPrepare` and
`PrepareSwap`; the rate, the amounts and the opening fee are asked in steps of their own. The SDK goes on to send synced events, and tells with an invoice whether it opens a channel.

## 3. The runs

| run | instance | states | shows |
|---|---|---|---|
| `backup` | 3 changes (one of topup data), 2 tasks, 1 late upload | 1,337,894 | what a lowered flag vouches for, and the two ways the remote copy loses it |
| `backup_live` | 1 change, 2 tasks, 1 late upload | 44,161 | what was written reaches the remote copy |
| `payments` | 2 own hashes, 1 foreign, 1 note and a blank one, 1 offer, 2 threads; or files of 20 versions, 2 processes, 2 payments, an offer without an error and with one, 3 rows of settings | 1,293,290 | rows, labels and invoices stay together; what any version stored is read as it was; any file can be opened |
| `payments_notes` | 1 payment, 1 note, 1 thread | violation | the note on a failed payment is erased by the next attempt to pay it |
| `addresses` | one lightning address, two phone numbers, 2 threads, 1 late request; or 3 characters typed after each of 12 beginnings, 3 numbers in 3 countries, 3 payments to 3 recipients | 1,548,012 | table and backend agree; success means set; what the parsers say on the way fits what they say in the end |
| `health` | 2 tasks, 2 statuses | 2,378 | the app is told of changes, once, and in the end |
| `activities` | 5 moments, leeway 1, lists of 1 and 2, invoices that live 2 moments | 1,052,825 | what is listed is consistent and complete within the limits |
| `notifications` | one notification of any kind, 2 payments, 2 swaps, 1 reverse swap, a deadline of 2 rounds of 2 ticks | 1,210,816 | what user and payer are told is true; the handler ends |
| `notifications_swap` | as above | violation | a reverse swap is answered with "the swap could not be found" |
| `node` | 2 tasks, 2 currencies, 2 payments, 2 threads, 4 choices | 959,429 | memory, database and backup agree; nothing goes back |
| `onchain` | 2 payments of 3 amounts, 2 swaps of 2 amounts, 2 fee rates, 2 offers | 3,799,856 | what is offered or promised succeeds, and where it does not; what a list leaves out |
| `onchain_fee` | as above | violation | an opening fee is shown for a deposit that opens no channel |

Type invariants are proved for `Backup`, `PaymentData`, `Addresses`, `HealthStatus` and `Activities`
(section 4) and not checked again; the run `notifications` checks the one that spans most modules.

Properties, and what each would catch:

* `CompleteMeansBackedUp`: while the flag is lowered the remote copy holds what is `due`. A change committed
  *during* an upload, by the other process or by the topup writers is due only after the next copy that can
  confirm it, as the code lowers the flag without looking at it again. Two things take a due change out again under
  a lowered flag, and the property names them: an upload that was abandoned before the change was due and arrives
  late (`late`, `exposed`), and an object that tasks of two generations tore. `RemoteKeepsBackedUp` is its
  counterpart over time: whatever is uploaded next, by tasks of any generation and from whichever copy,
  nothing else takes a due change out of the remote copy.
* `TornOnlyByOverlap`: a torn object needs two task generations (`fs::read` of the copy is not locked).
* `RemoteCatchesUp` (liveness): a failing copy or upload is retried until what is due is in the remote copy, and a restart
  heals every gap of the flag, because `DataStore::new` raises it. The ways out are lost files, a torn object and,
  for what is exposed, an upload that arrives late: the flag stays lowered over both.
* `InvoiceHasInfo`, `HiddenIsLabelled`, `LabelIsRight`, `LabelStays`: every invoice kept has its
  payment row; a topup that was hidden is attached to the payment that claims it; no other payment
  carries it and nothing takes it away. Exceptions are exactly failed writes and killed processes.
* `Agreement`, `OkMeansSet`: see the comments in `Addresses`.
* `KeptIsTold`, `CallsAreNews`, `AppLearns`: the status kept is the one the app was called with,
  every call is news, and the app ends up with the status the services settle on, as long as no two
  generations overlapped.
* `PaidIsNotAwaited`, `LatestShown`, `PendingShown`: a payment the SDK knew when a call began is never
  shown as an unpaid invoice; the completed activities are the latest; nothing pending is left out;
  each up to the limit at which the code gives up, which the property spells out.

* `NotificationIsTrue`: a notification of success is of something that happened, whichever of event
  and look-up the handler heard of it. `MissedOnlyLate`: a payment reported as not received came in the
  last round before the deadline, or later, or with an event without details and a late sync. The
  property spells out all the ways in which the loop can miss a payment in time.
* `InvoiceIsSafe`: the invoice a payer holds opens no channel, and its address was enabled while the
  request was handled, however `set_feature_flag` and other payments interleave. `AnswersPayer`: the
  handler implements `InvoiceRequest`, with `recorded` as "the row is stored, or its write was refused".
* `HandlerReturns` (liveness): the handler ends although its wait for a synced event has no timeout.
* `RatesPersisted`, `RatesForward`: between iterations the rows hold what the app is shown, and what it
  is shown never goes back to older rates, not by a restart or a crash among the rows. Exceptions are
  exactly overlapping tasks and failed writes. `RecordedRates`: a payment's rates on record never
  change; the first payment of a second has the rates that were taken for it (later ones of the same
  second get the first one's).
* `PairIsOneAnswer`: whatever the other kind's fate, terms the last answer had are the ones cached.
* `PreferenceStored`: what the node goes by is what it will go by after a restart, unless a call failed
  half way or two calls met. `ChoicesKept`: no choice is dropped from the backup or
  the database by starts, recoveries and crashes, unless an empty database got ahead of the
  recovery (see the observations below).
* `DepositWithinLimits`: what `swap` sends is within the swap's limits and worth more than the channel it
  may open, although amounts are subtracted without a check. `OfferedSwapSucceeds`: a swap that was
  offered is refused only in the one case the code's two calculations differ in, the reserve.
* `PromisesKept`: a payment called affordable, receivable or a wallet called clearable is so, with
  the highest fee the SDK may pay and the code's rounding, unless the channels changed. One case is refused, and the
  property gives its bounds: clearing a wallet whose balance is above the minimum by less than the swapper's fee.
* `HiddenItemsReturn`: a list leaves out only what was hidden with the same amount and either cannot be
  recovered at the rate of the moment or could not be tried, because a request about it failed (`unanswered`).
* `ClaimedNotListed`: the filter of the list looks at the latest payments only. It is enough for every offer that was known as
  claimed when the service was asked, however many payments came since, because a collection hides an offer
  before it stores the claim and stores none when hiding failed. What becomes known between the two questions is listed
  once more only if its payment is no longer among the latest.
* `IncompleteCanBecomeValid`: what is called incomplete is the beginning of something valid
  (`parser/src/lib.rs:17`). `ErrorsStay`: what was refused is refused at the same place whatever is typed
  after it. `CutIsAccepted`: after the cut the errors ask for, nothing is left to cut. `NumbersAgree`:
  the parser that follows the typing never refuses the beginning of a number that the final one
  accepts, and the address of a number is valid and leads back to it. `RecentFirst`: recipients are
  listed once each, by their latest payment, although the code sorts twice with a `dedup` in between.
* `ReadsWhatWasStored`: in an open store every statement of the code finds its columns, and a payment,
  an offer and its error, a note and a choice are read as they were stored, by whichever version.
  `OnlyRacesFail`: migrations fail a process only when another one migrated after it had looked. The
  loser of such a race is stopped by the clash of its first statement or, if only the last migration is
  pending, by the misspelt `exchange_rates_history_snaphot_id` it copies from, which is gone by then.

Three runs end in a violation. Each quotes a sentence of the documentation that the code does not
keep (see `findings`): personal notes are erased by a second `store_payment_info`; a notification of a
reverse swap, while a swap is in progress, ends in `InProgressSwapNotFound` and the reverse swap is not
claimed; the fee shown with an offer to swap is computed from millisatoshi taken for satoshi
(`onchain/mod.rs:58`). The trace of `payments_notes` has one thread and three steps: a payment fails, the
user puts a note on it, and `pay_open_amount`, paying its invoice again, stores the row anew before it does anything else.

### Observations

Not refuted by a run of their own, met while modelling:

* `set_feature_flag` succeeds without asking the backend when the table has no candidates
  (`config.rs:88`); callbacks may be made twice for one event by two generations of tasks
  (`task_manager.rs:297`); a pending payment older than `LookForPending` is not listed
  (`activities.rs:79`).
* `recover_lightning_node` looks for the file first and writes it after the download. A node or a
  notification that opens the database in between, or a start that fails after `DataStore::new`, leaves
  an empty one, which recovery then refuses to replace or which is replaced with what was written to it.
* `determine_clear_wallet_feasibility` counts a share for routing on top of the minimum and not the swapper's
  fee. With the mock's numbers a wallet of 1015 to 1149 sat is said to be in range and `pay_onchain` refuses it
  (`onchain/reverse_swap.rs:48`).
* "The item will reappear once ... onchain-fees go down enough" (`actions_required.rs:138`, `:151`) does not hold while
  requests fail: an error of the trial, whatever its cause, leaves the hidden item out of a list that succeeds.
* `set_analytics_config` caches the setting before it stores it: if the write fails the caller gets an
  error and the setting holds until the next start.
* `store_fiat_topup_info` and `clear_fiat_topup_info` do not raise the backup flag.
* If `hide_topup` fails after the withdrawal, `request_collection` returns before the claim is stored. Such an offer,
  paid but neither hidden nor claimed, is listed again.
* `ReceiveAmountLimits` compares with the whole inbound liquidity, `calculate_lsp_fee` with the largest
  single payment (`receive_limits.rs:17`): they differ when there are several channels.
* The offer to swap closed channels' funds does not count the 546 satoshi that `swap` subtracts
  (`OfferedSwapSucceeds` has the case). As msats are taken for satoshi, an offer below the
  opening fee times 1000 is practically never made.
* `channel_closes.rs:218` subtracts dust limit and fee from an unsigned balance without a check; the
  wrapped result is above every limit of a swap, so it is refused.
* The mock's `redeem_swap` passes satoshi where msats are received.

### Bounds

Two tasks or threads are enough for every pair of steps to interleave, and a third generation adds
no new pair. One late request is enough to overtake. Three changes give one of each class and
two of the class that can be split by a backup. In `Activities` five moments reach every limit at a
leeway of one: a list of two is cut with three payments. In `Notifications` the deadline is two rounds,
so there is a first round, a last one, and time after it (`MaxTime` 6); two queued events
(`MaxEvents`) are one before and one that matters; the address table has one address and one thread,
as the handler asks for one address only. In `ExchangeRates` two quotes and two seconds make one list
older and one snapshot later than the other; in `LspFees` three lists tell the last one from any two
cached; in `NodeStart` four choices are two defaults and a change of each kind, or two of one. In
`Onchain` the amounts lie on both sides of each limit: 1,100 and 27,000 sat around the minimum and
maximum of a swap with and without fee and reserve, 30,000,000 msats above what a channel takes,
499,000 msats below the opening fee, 1,600,000 above it: less that fee,
1,100 sat, it fills a wallet above the minimum for clearing by less than the swapper's fee; `MaxReverse` 20,000 sat is below what one payment of 30,000,000 fills; fee rates 1 and
15 let 1,100 sat be recovered and not. `Width` is 2^30, above all sums, so that only a real
wrap-around wraps. In `FiatTopup` a list looks at the `Latest` 2 of 4 payments, so that a claim leaves
the window.

In `InputField` what is pasted reaches the middle of each kind of label, so three more characters reach its end
and go beyond. In `Migrations` one payment claims a topup and one does not, and a third row about
analytics follows the default and a change by either process.

`MaxStray`, `MaxLate`, `MaxTime`, `MaxEvents`, `MaxQuote`, `MaxSeconds`, `MaxChoices`, `MaxPayments`,
`MaxSwaps`, `MaxOffers`, `MaxReceived`, `MaxTyped`, `MaxClock`, `MaxConfigs` are the only bounds; they end the counting, never the calls, so
deadlock is checked in every run. Symmetry is used in `backup`, `payments`, `addresses` and `node`,
which have no liveness properties.

### Fairness

`Backup!Fairness`: the app is started again and returns to the foreground at some time (weak);
tokio polls ready tasks and `select!` picks at random among ready branches, so neither a tick nor a
stop request is passed over forever (strong); a step that competes with an error, a crash or the
mutex is not beaten forever (strong) - without it a service that is down forever refutes anything.
No fairness is put on writes, on the app's use or on failures. `HealthStatus!Fairness` is the same for its task.
`NotificationsFairness`: the handler runs when it can (weak), time passes (strong: events come in
between), and a connected SDK goes on to send synced events, as it does with every block (strong).
No payment, event of a payment or answer of a service is promised.

## 4. The proofs

All for arbitrary constants, under the named assumptions of the modules (`BackupAssumption`: topup
changes are changes; `PaymentDataAssumption`: own and foreign hashes are apart, `None` and `Blank` are no notes
or offers; `AddressesAssumption`: phone numbers are addresses; `HealthAssumption`: `None` is no status).

* `BackupProofs`: `TypeCorrect`; `CompleteIsSafe` and `RemoteNeverRegresses` from the inductive
  invariant `Settled`, which follows a due change from the database to the copy, to what a task has read and to what the
  service stored: nothing past the copy lacks one, and an abandoned upload lacks exposed ones only.
  `NoTornBackup` from `Alone` ("without overlap one task is alive, and it reads finished copies").
  The two need `Alone` too: nothing torn is uploaded without overlap.
* `PaymentDataProofs`: `TypeCorrect`, `InvoicesAreShown`, `NoClaimLost`, `NoFalseClaim`, `LabelsStay`.
  `IInv` adds to the checked invariants where a thread may be in which operation: `CallsFit` (a call
  on an offer works on the invoice the service was given), `CallsApart` (no two calls on one offer),
  `CallsProgress` (what each step has behind it), `WithdrawnOnce`. None of the checked invariants is
  inductive without them: a thread about to label must be known to carry the right offer.
  Its second part is about `Migrations`: `FilesFit`, `OnlyRacesDoFail` and `StoredIsRead`, for any payments, claims,
  errors and processes. `Fits` says that tables have the columns, the required ones and the defaults of a
  version's schema (`ColumnsOf`, `RequiredOf`), `Tells` that their rows hold what the wallet was told, no
  less and no more. Every migration leads from one version to the next (`Leads`: tables that fit and tell are
  taken to tables that fit and tell the same; `Migration01` to `Migration19`, the last by `CopyAndReplace`), so all that is
  pending succeeds on the version that was looked at (`AllMigrationsLead`), for a file filled by any
  version (`OldFileFits`, `OldTablesTell`). On the latest schema every migration but `ResetFundsMigration07` fails
  (`Fails01` to `Fails19`), and the one after that does: the loser of a race changes nothing (`LateMigrationFails`).
  `VersionSeen` ties what a process has seen to the version of the file. With `Reads`, a statement
  finds its columns, a row leads back to its payment, and the columns `retrieve_payment_info` takes by index
  are what was stored (`InfoReadBack`, `ChoicesReadBack`). Assumed are `MigrationsAssumption` (finitely many payments, some of which claim
  a topup) and `ErrorsAssumption` (errors of an offer are those the code knows).
* `AddressesProofs`: `TypeCorrect`, `TableAgrees`, `SuccessMeansSet`, from three strengthenings:
  calls that hold an address alone are apart, what was applied is at the backend, and what was not
  asked for already has the wanted status.
  Its second part is about `InputField`: `ErrorsDoStay`, `CutsAreAccepted`,
  `IncompleteMayBecomeValid` and `NumbersDoAgree`, for texts of any length. The invariant `FieldTyped` only says
  what a verdict is about; the work is in the parsers. `Alike` says that two texts agree up to a
  place and stop alike there; a parser makes the same of both (`MovedReads` and the lemmas named `Alike...`), which
  gives `ErrorsStay` and `CutIsAccepted`. `RunGoesOn`, `AddressCompletes` and `CodeCompletes` write down the
  ending that makes an incomplete text valid. For `NumbersAgree`, `DigitsAppended` and `PrefixOfAccepted` follow the
  digits, `AnyUsername` and `PlusReplaced` the way to an address and back. The host of an address and the digits
  are recursive functions: `Least`, a minimal counterexample among the naturals, takes the place of induction.
  Assumed are `PhoneNumbersAssumption` (a number begins with the code of its country; what lipa appends makes an
  address of any name) and `InputFieldAssumption` (what is pasted is a text; some country is allowed).
* `HealthStatusProofs`: `TypeCorrect`, `StatusIsTold`, `NoRepeatedCalls`, from `OneTask` (without overlap one task is
  alive) and `Undisturbed` (what it compared still holds when it stores and calls).

* `NotificationsProofs`: `TypeCorrect`, `NotifiesTruly`, `MissesOnlyLate`, `InvoicesAreSafe`, and
  `AnswersThePayer`, the refinement of `InvoiceRequest`. `IInv` has one part per module: `WaitInv` (what is
  known as complete or announced was paid; a round that has not found the payment ends within `Period`
  of the moment it began, which bounds how late a missed payment was), `AnswerInv` (at each step of the
  lnurl-pay handler, what of fee, check, invoice and row is behind it), `HandlerInv` (which
  kind of notification may be at which step, and whose hash is waited for). A step of the handler that
  writes the row is `Record`, a submission is `Issue` or `Refuse` or a stutter, all others stutter.
  Assumed are `WaitAssumption` and `NotificationsAssumption`: bounds are naturals, each swap has a
  hash, swaps and reverse swaps have different addresses.
* `NodeProofs`, in three parts. `TermsOfOneAnswer`, from `OneTask`, `HoldsLast` (between its steps the task
  holds the list that came last) and `CachedLast` (terms of another list are cached only until it reaches
  them). `RowsAreShown`, `RatesGoForward`, `RecordsAreKept`: `AnswersAreNew` says that an answer is as new as
  anything it may replace, `RowsAhead` that rows and list differ only between the two writes (so a crash
  there leaves newer rows, not older ones), `SecondsUsed` that a second has snapshots only of a payment
  stored in it. `PreferencesAreStored`, `ChoicesAreKept`: the heart is `RecoveryIsAlone`, unless an empty
  database gets ahead, there is none while a recovery is under way, so no node runs and no backup is taken,
  and what was fetched is still the last backup when it is written. `InStep` describes the one call that
  sets a preference after its first step; it is needed because the two preferences are stored and cached
  in opposite orders.
* `ActivitiesProofs`: `ActivitiesTypes`, `PaidAreNotAwaited`, `LatestAreShown`, `PendingAreShown`, for lists of any
  length. The call reads three times, so `ActivitiesInv` says what each answer still means at a later
  step: `History` and `AnswerIsPast` (it is how things were at a moment before, and what has become of it
  since follows from it: `Follows`), `RowsAreLast` (the rows hold every invoice of then that may still be paid,
  and the last of the expired ones), `CutIsRight` (the properties from the cut on), `GetMissed`. The limits are
  cardinalities of sets of moments: `RankOrders`, `RanksDiffer`, `CutToLimit` and `LatestAreAbove` say once
  what "the latest k" is.
* `OnchainProofs`, over everything that `MCOnchain` holds (`FundsSpec`): `FundsAreTyped`, `PromisesAreKept`,
  `HiddenItemsDoReturn`, `DepositsAreWithinLimits`, `OfferedSwapsSucceed`, and `ClaimedAreNotListed` of `FiatTopup`.
  `ResolveInv` says what is known at each step of `determine_resolving_fees` and `swap`: `AmountInv` (the amount
  asked for is still there), `DetermineInv` (no swap is in progress once it was told so, what was prepared can be, and what is
  offered stands until the world changes), `SwapInv` (the limits have been checked before the opening fee is
  asked for, and that before the transaction is sent), `SwapsFit`. `PromiseInv` carries a promise from the question to the
  attempt; `FeasibleIsCleared` has the arithmetic of clearing, for any swapper fee. `ListInv` says what the list has
  established of each hidden swap: yet to be tried, or `LeftOut`. For `ClaimedNotListed`, `CollectInv` (what is known as
  claimed is hidden, and so is what a collection is about to claim), `FoundInv` (what was known then was not found) and
  `WindowHoldsLatest`. Sums over channels are folds, of which tlapm knows the definition only: `Least`, a
  minimal counterexample among the naturals, takes the place of induction. The two theorems on swaps have
  the premise `[]AmountsFit`: the balances stay below `Width`, as 21 million bitcoin stay below 2^64.

The remaining assumptions say what the code's constants are: bounds are naturals (`WaitAssumption`,
`RatesAssumption`, `FeesAssumption`, `StartAssumption`, `ActivitiesAssumption`, `FiatTopupAssumption`), amounts, fees and
limits are naturals below `Width` (`AmountsAssumption`, `BreezServicesAssumption`, `OnchainAssumption`,
`LightningAssumption`), limits and fee of the swapper are naturals (`SwapperAssumption`: nothing is assumed of how they relate), each swap has a hash and an address of its own
(`NotificationsAssumption`). TLC evaluates all of them in the runs.

Only model-checked: the liveness properties (`RemoteCatchesUp`, `AppLearns`, `HandlerReturns`), as liveness
under fairness and ENABLED are out of the prover's reach; and `RecentFirst` of `Recipients`,
whose model sorts and filters with `SortSeq` and `SelectSeq`, which tlapm does not expand.
The library's theorems for induction take an operator as a parameter, which no
prover here can instantiate; where a proof needs induction on a length, a minimal counterexample does. The properties of the violation runs are
refuted, not proved.

## 5. Not modelled

Keys, encryption, authentication, `sanitize_input.rs` and `invoice_details.rs` (functions without state),
logging, errors and generated bindings, the services themselves, the command line example and
the test helpers. The sync task and most of the facade forward to the SDK and keep nothing. Analytics
reports are fire and forget. Amounts of fiat currency and the wording of notifications are left out.
Of each partly modelled component `PROJECT.json` says what is missing.

## 6. Plan

1. Done: the modules of section 2, and proofs of every safety property of a run that passes, except
   those on data named at the end of section 4.
2. An abstract `RemoteStore` (a durable set that only grows, up to the exceptions stated) refined by
   `Backup`, and an abstract register refined by `HealthStatus` without overlap.
3. Lemmas on the operators of `Amounts` that do not need a fold, for every width; the shape of a list of
   recipients (each once), which needs no induction.
4. A module on events: `EventsCallback` under two task generations, and the reports of `analytics.rs`.
