----------------------------- MODULE Migrations -----------------------------
(***************************************************************************)
(* The database file over the versions of the library.                     *)
(*                                                                         *)
(* DataStore::new brings the file it opens to the schema the code was      *)
(* written for, by the migrations the file has not seen yet.  The file may *)
(* be of any age: the app was updated, or an old backup was recovered.     *)
(* After an update the node and the process that handles notifications     *)
(* may both open it, each having read its version before the other's       *)
(* migration.                                                              *)
(***************************************************************************)
EXTENDS Tables

CONSTANTS
  Openers,  \* processes that open the database
  Recorded,   \* payments, by their hash
  Claims,   \* those that claim a topup offer
  Errors,   \* bound: errors of the offers claimed by new payments
  MaxConfigs  \* bound: rows about analytics

ASSUME MigrationsAssumption == IsFiniteSet(Recorded) /\ Claims \subseteq Recorded

VARIABLES
  db,      \* the file: its user_version and its tables
  opener,  \* where each process is, and the version it read
  stored,  \* history: what the wallet was told of each payment
  chosen   \* history: the choice about analytics, the status of the address

migrationVars == <<db, opener, stored, chosen>>

-----------------------------------------------------------------------------
(* The migrations, each a list of statements.                                *)

Stamped == [id |-> Null, updated_at |-> Now]

Init01 ==
  <<CreateTable("payments", {"hash", "timezone_id", "timezone_utc_offset_secs", "fiat_currency"},
                Nulls({"exchange_rates_history_snaphot_id"})),
    CreateTable("exchange_rates_history", {"snapshot_id", "fiat_currency", "rate", "updated_at"},
                Nulls({"id"})),
    CreateTable("offers", {"payment_hash"},
                Nulls({"pocket_id", "fiat_currency", "rate", "exchanged_at", "topup_value_minor_units",
                       "exchange_fee_minor_units", "exchange_fee_rate_permyriad"})),
    CreateTable("exchange_rates", {"fiat_currency", "rate"}, [updated_at |-> Now])>>

FundsMigrationStatus02 ==
  <<CreateTable("funds_migration_status", {"status"}, Stamped),
    Insert("funds_migration_status", [status |-> Zero])>>

OfferErrorMessage03 == <<AddColumn("offers", "error", Null)>>

CreatedInvoices04 == <<CreateTable("created_invoices", {"hash", "invoice"}, Nulls({"id"}))>>

FiatTopupInfo05 ==
  <<CreateTable("fiat_topup_info",
      {"order_id", "created_at", "debitor_iban", "creditor_reference", "creditor_iban",
       "creditor_bank_name", "creditor_bank_street", "creditor_bank_postal_code",
       "creditor_bank_town", "creditor_bank_country", "creditor_bank_bic", "creditor_name",
       "creditor_street", "creditor_postal_code", "creditor_town", "creditor_country", "currency"},
      Nulls({}))>>

OpeningFees06 == <<AddColumn("created_invoices", "channel_opening_fees", Null)>>

ResetFundsMigration07 == <<Insert("funds_migration_status", [status |-> Zero])>>

TopupValue08 == <<AddColumn("offers", "topup_value_sats", Null)>>

InvoiceExpiry09 == <<AddColumn("created_invoices", "invoice_expiry_timestamp", Zero)>>

AnalyticsConfig10 ==
  <<CreateTable("analytics_config", {"status"}, Stamped),
    Insert("analytics_config", [status |-> Zero])>>

Webhook11 == <<CreateTable("webhook_base_url", {"url"}, Stamped)>>

LightningAddresses12 == <<CreateTable("lightning_addresses", {"address"}, [registered_at |-> Now])>>

PersonalNote13 == <<AddColumn("payments", "personal_note", Null)>>

LnurlPayReceiveData14 ==
  <<AddColumn("payments", "received_on", Null), AddColumn("payments", "received_lnurl_comment", Null)>>

EnableStatus15 == <<AddColumn("lightning_addresses", "enable_status", Zero)>>

HiddenChannelCloses16 ==
  <<CreateTable("hidden_channel_close_amount", {"amount_sat"}, [id |-> Null, inserted_at |-> Now])>>

HiddenFailedSwaps17 ==
  <<CreateTable("hidden_failed_swaps", {"swap_address"}, [id |-> Null, inserted_at |-> Now])>>

FiatCurrency18 ==
  <<CreateTable("fiat_currency", {"fiat_currency"}, [id |-> Null, inserter_at |-> Now])>>

\* Mutant: the columns of the SELECT in another order than those of the INSERT.
Swapped19 ==
  <<"hash", "timezone_id", "timezone_utc_offset_secs", "fiat_currency",
    "exchange_rates_history_snaphot_id", "received_on", "personal_note", "received_lnurl_comment">>

\* The table of payments had a misspelt column.
Copied19 ==
  <<"hash", "timezone_id", "timezone_utc_offset_secs", "fiat_currency",
    "exchange_rates_history_snaphot_id", "personal_note", "received_on", "received_lnurl_comment">>

PaymentOptionalFields19 ==
  <<CreateTable("payments_new", {"hash"},
                Nulls({"timezone_id", "timezone_utc_offset_secs", "fiat_currency",
                       "exchange_rates_history_snapshot_id", "personal_note", "received_on",
                       "received_lnurl_comment"})),
    Copy("payments_new",
         <<"hash", "timezone_id", "timezone_utc_offset_secs", "fiat_currency",
           "exchange_rates_history_snapshot_id", "personal_note", "received_on",
           "received_lnurl_comment">>,
         "payments", Copied19),
    Drop("payments"),
    Rename("payments_new", "payments")>>

\* Mutant: what a later migration alters is created after it.
LateAddresses ==
  <<Init01, FundsMigrationStatus02, OfferErrorMessage03, CreatedInvoices04, FiatTopupInfo05,
    OpeningFees06, ResetFundsMigration07, TopupValue08, InvoiceExpiry09, AnalyticsConfig10,
    Webhook11, PersonalNote13, LnurlPayReceiveData14, EnableStatus15, LightningAddresses12,
    HiddenChannelCloses16, HiddenFailedSwaps17, FiatCurrency18, PaymentOptionalFields19>>

migrations ==
  <<Init01, FundsMigrationStatus02, OfferErrorMessage03, CreatedInvoices04, FiatTopupInfo05,
    OpeningFees06, ResetFundsMigration07, TopupValue08, InvoiceExpiry09, AnalyticsConfig10,
    Webhook11, LightningAddresses12, PersonalNote13, LnurlPayReceiveData14, EnableStatus15,
    HiddenChannelCloses16, HiddenFailedSwaps17, FiatCurrency18, PaymentOptionalFields19>>

Latest == Len(migrations)

\* The tables T after the migrations from one version to a later one.
Migrate(T, from, to) ==
  LET after[v \in from..to] ==
        IF v = from THEN [ok |-> TRUE, tables |-> T] ELSE Run(after[v - 1], migrations[v])
  IN  after[to]

-----------------------------------------------------------------------------
(* The statements of DataStore.                                              *)

\* A value names the table and the column it was first written to; what a row is found
\* by is the hash.
Keys == {"hash", "payment_hash", "snapshot_id",
         "exchange_rates_history_snapshot_id", "exchange_rates_history_snaphot_id"}

Value(t, c, p) == IF c \in Keys THEN <<p>> ELSE <<t, c>>

\* The rates of a payment are in its currency.
RowOf(t, columns, p) ==
  [c \in columns |-> IF t = "exchange_rates_history" /\ c = "fiat_currency"
                     THEN Value("payments", c, p)
                     ELSE Value(t, c, p)]

FromOfferError ==
  [none |-> Null, Unknown |-> <<"a message">>, NoRoute |-> <<"no_route">>,
   InvoiceExpired |-> <<"invoice_expired">>, Unexpected |-> <<"error">>,
   ThresholdExceeded |-> <<"threshold_exceeded">>, OrderInactive |-> <<"order_inactive">>,
   CompaniesUnsupported |-> <<"companies_unsupported">>,
   CountryUnsupported |-> <<"country_unsupported">>,
   OtherRiskDetected |-> <<"other_risk_detected">>,
   CustomerRequested |-> <<"customer_requested">>,
   AccountNotMatching |-> <<"account_not_matching">>, PayoutExpired |-> <<"payout_expired">>]

ASSUME ErrorsAssumption == Errors \subseteq DOMAIN FromOfferError

ToOfferError(code) ==
  CASE code = Null -> "none"
    [] code = <<"no_route">> -> "NoRoute"
    [] code = <<"invoice_expired">> -> "InvoiceExpired"
    [] code = <<"error">> -> "Unexpected"
    [] code = <<"threshold_exceeded">> -> "ThresholdExceeded"
    [] code = <<"order_inactive">> -> "OrderInactive"
    [] code = <<"companies_unsupported">> -> "CompaniesUnsupported"
    [] code = <<"country_unsupported">> -> "CountryUnsupported"
    [] code = <<"other_risk_detected">> -> "OtherRiskDetected"
    [] code = <<"customer_requested">> -> "CustomerRequested"
    [] code = <<"account_not_matching">> -> "AccountNotMatching"
    [] code = <<"payout_expired">> -> "PayoutExpired"
    [] OTHER -> "Unknown"

StorePaymentInfo(p, error) ==
  <<Insert("exchange_rates_history",
           RowOf("exchange_rates_history", {"snapshot_id", "fiat_currency", "rate", "updated_at"}, p)),
    Insert("payments",
           RowOf("payments", {"hash", "timezone_id", "timezone_utc_offset_secs", "fiat_currency",
                            "exchange_rates_history_snapshot_id", "received_on",
                            "received_lnurl_comment"}, p))>>
  \o IF p \notin Claims THEN <<>> ELSE
     <<Insert("offers",
              Over([error |-> FromOfferError[error]],
                   RowOf("offers", {"payment_hash", "pocket_id", "fiat_currency", "rate", "exchanged_at",
                                    "topup_value_minor_units", "exchange_fee_minor_units",
                                    "exchange_fee_rate_permyriad", "topup_value_sats"}, p)))>>

\* retrieve_payment_info: what it selects, by index.
Selected ==
  <<<<"payments", "timezone_id">>, <<"payments", "timezone_utc_offset_secs">>,
    <<"payments", "fiat_currency">>, <<"exchange_rates_history", "rate">>,
    <<"exchange_rates_history", "updated_at">>, <<"offers", "pocket_id">>,
    <<"offers", "fiat_currency">>, <<"offers", "rate">>, <<"offers", "exchanged_at">>,
    <<"offers", "topup_value_minor_units">>, <<"offers", "exchange_fee_minor_units">>,
    <<"offers", "exchange_fee_rate_permyriad">>, <<"offers", "error">>,
    <<"offers", "topup_value_sats">>, <<"payments", "personal_note">>,
    <<"payments", "received_on">>, <<"payments", "received_lnurl_comment">>>>

RowsWhere(t, c, value) == {r \in Range(db.tables[t].rows) : r[c] = value}

\* The rows of the three tables that belong to payment p; a LEFT JOIN gives NULLs for
\* the one that is missing.
OneOf(rows, t) == IF rows = {} THEN Nulls(Columns(db.tables, t)) ELSE CHOOSE r \in rows : TRUE

Joined(p) ==
  LET payment == OneOf(RowsWhere("payments", "hash", <<p>>), "payments")
      rates == {r \in RowsWhere("exchange_rates_history", "snapshot_id",
                                payment["exchange_rates_history_snapshot_id"]) :
                  r["fiat_currency"] = payment["fiat_currency"]}
      offer == RowsWhere("offers", "payment_hash", <<p>>)
  IN  [payments |-> payment,
       exchange_rates_history |-> OneOf(rates, "exchange_rates_history"),
       offers |-> OneOf(offer, "offers")]

\* row.get(i).
Get(p, i) == Joined(p)[Selected[i + 1][1]][Selected[i + 1][2]]

\* A tuple of columns that is there only when all of them are.
AllOf(values) == IF Null \in Range(values) THEN Null ELSE values

OfferFromRow(p) ==
  IF Get(p, 5) = Null THEN Null ELSE
    <<Get(p, 5), Get(p, 6), Get(p, 7), Get(p, 8), Get(p, 9), Get(p, 10), Get(p, 11), Get(p, 13),
      ToOfferError(Get(p, 12))>>

LocalPaymentDataFromRow(p) ==
  [user_preferences |-> AllOf(<<Get(p, 0), Get(p, 1), Get(p, 2)>>),
   exchange_rate |-> AllOf(<<Get(p, 2), Get(p, 3), Get(p, 4)>>),
   offer |-> OfferFromRow(p),
   personal_note |-> Get(p, 14),
   received_on |-> Get(p, 15),
   received_lnurl_comment |-> Get(p, 16)]

RetrievePaymentInfo(p) ==
  IF RowsWhere("payments", "hash", <<p>>) = {} THEN Null ELSE LocalPaymentDataFromRow(p)

\* The other tables: what is inserted, and what else is read or updated.
InvoiceStatements ==
  {<<"created_invoices",
     {"hash", "invoice", "channel_opening_fees", "invoice_expiry_timestamp"}, {"id"}>>}

RateStatements == {<<"exchange_rates", {"fiat_currency", "rate", "updated_at"}, {}>>}

TopupStatements ==
  {<<"fiat_topup_info",
     {"order_id", "created_at", "debitor_iban", "creditor_reference", "creditor_iban",
      "creditor_bank_name", "creditor_bank_street", "creditor_bank_postal_code",
      "creditor_bank_town", "creditor_bank_country", "creditor_bank_bic", "creditor_name",
      "creditor_street", "creditor_postal_code", "creditor_town", "creditor_country",
      "currency"}, {}>>}

AnalyticsStatements == {<<"analytics_config", {"status"}, {"id", "updated_at"}>>}

AddressStatements == {<<"lightning_addresses", {"address", "enable_status"}, {"registered_at"}>>}

HiddenStatements ==
  {<<"hidden_channel_close_amount", {"amount_sat"}, {"id"}>>,
   <<"hidden_failed_swaps", {"swap_address"}, {}>>}

CurrencyStatements == {<<"fiat_currency", {"fiat_currency"}, {"id"}>>}

OtherStatements ==
  InvoiceStatements \cup RateStatements \cup TopupStatements \cup AnalyticsStatements
  \cup AddressStatements \cup HiddenStatements \cup CurrencyStatements

-----------------------------------------------------------------------------
(* Files of any age.                                                         *)

TablesOf(v) == Migrate(<<>>, 0, v).tables

\* What a version of the library that knew the tables T stored of a payment, and the
\* user's note on it.
OldRow(T, t, p, error) ==
  LET row == RowOf(t, Columns(T, t) \ {"id"}, p)
  IN  IF "error" \in DOMAIN row THEN [row EXCEPT !["error"] = FromOfferError[error]] ELSE row

OldRows(T, t, payments, error) == [i \in DOMAIN payments |-> OldRow(T, t, payments[i], error)]

OldAddress(T, status) ==
  IF "enable_status" \in Columns(T, "lightning_addresses")
  THEN [address |-> <<"address">>, enable_status |-> status]
  ELSE [address |-> <<"address">>]

\* The file of a wallet with these payments, claims and choices.
OldFile(v, payments, claims, error, c) ==
  LET T == TablesOf(v)
      rows == [t \in DOMAIN T |->
                 CASE t \in {"payments", "exchange_rates_history"} -> OldRows(T, t, payments, error)
                   [] t = "offers" -> OldRows(T, t, claims, error)
                   [] t = "analytics_config" -> <<[status |-> c.analytics]>>
                   [] t = "lightning_addresses" -> <<OldAddress(T, c.address)>>
                   [] OTHER -> <<>>]
  IN  [version |-> v, tables |-> [t \in DOMAIN T |-> WithRows(T[t], rows[t])]]

From(v, first, value) == IF v >= first THEN value ELSE Null

\* What the wallet knew of a payment then.
Told(v, p, error) ==
  [user_preferences |->
     <<<<"payments", "timezone_id">>, <<"payments", "timezone_utc_offset_secs">>,
       <<"payments", "fiat_currency">>>>,
   exchange_rate |->
     <<<<"payments", "fiat_currency">>, <<"exchange_rates_history", "rate">>,
       <<"exchange_rates_history", "updated_at">>>>,
   offer |->
     IF p \notin Claims THEN Null ELSE
       <<<<"offers", "pocket_id">>, <<"offers", "fiat_currency">>, <<"offers", "rate">>,
         <<"offers", "exchanged_at">>, <<"offers", "topup_value_minor_units">>,
         <<"offers", "exchange_fee_minor_units">>, <<"offers", "exchange_fee_rate_permyriad">>,
         From(v, 8, <<"offers", "topup_value_sats">>), IF v >= 3 THEN error ELSE "none">>,
   personal_note |-> From(v, 13, <<"payments", "personal_note">>),
   received_on |-> From(v, 14, <<"payments", "received_on">>),
   received_lnurl_comment |-> From(v, 14, <<"payments", "received_lnurl_comment">>)]

MigrationsInit ==
  /\ \E v \in 0..Latest, payments \in SetToAllKPermutations(Recorded),
        claims \in SetToAllKPermutations(Claims), error \in DOMAIN FromOfferError,
        analytics, address \in {Zero, One} :
       /\ v = 0 => payments = <<>>
       /\ ToSet(claims) = ToSet(payments) \cap Claims
       /\ v < 10 => analytics = Zero
       /\ v < 15 => address = Zero
       /\ chosen = [analytics |-> analytics, address |-> IF v < 12 THEN Null ELSE address]
       /\ stored = [p \in Recorded |-> IF p \in ToSet(payments) THEN Told(v, p, error) ELSE Null]
       /\ db = OldFile(v, payments, claims, error, chosen)
  /\ opener = [o \in Openers |-> [at |-> "closed", seen |-> 0]]

-----------------------------------------------------------------------------
(* DataStore::new.                                                           *)

Goes(o, at) == opener' = [opener EXCEPT ![o].at = at]

\* to_latest reads the version outside of its transaction.
LooksAtVersion(o) ==
  /\ opener[o].at \in {"closed", "refused"}
  /\ opener' = [opener EXCEPT ![o] =
       [at |-> IF db.version = Latest THEN "open" ELSE "migrating", seen |-> db.version]]
  /\ UNCHANGED <<db, stored, chosen>>

\* All that is pending, and the new version, in one transaction.
Migrated(o) == Migrate(db.tables, opener[o].seen, Latest)

ToLatest(o) ==
  /\ opener[o].at = "migrating" /\ Migrated(o).ok
  /\ db' = [version |-> Latest, tables |-> Migrated(o).tables]
  /\ Goes(o, "open")
  /\ UNCHANGED <<stored, chosen>>

\* "Failed to migrate the db": the caller may try again.
MigrationFails(o) ==
  /\ opener[o].at = "migrating" /\ ~Migrated(o).ok
  /\ Goes(o, "refused")
  /\ UNCHANGED <<db, stored, chosen>>

\* The process ends, in the middle of a transaction too, or the disk fails it.
Closes(o) ==
  /\ opener[o].at \in {"migrating", "open"}
  /\ Goes(o, "closed")
  /\ UNCHANGED <<db, stored, chosen>>

-----------------------------------------------------------------------------
(* Writes of an open store.                                                  *)

Writes(o, statements) ==
  /\ opener[o].at = "open"
  /\ LET x == Transaction(db.tables, statements)
     IN  x.ok /\ db' = [db EXCEPT !.tables = x.tables]
  /\ UNCHANGED opener

\* For the first time: the row that is stored again is the subject of PaymentData.
StoresPaymentInfo(o, p, error) ==
  /\ stored[p] = Null
  /\ Writes(o, StorePaymentInfo(p, error))
  /\ stored' = [stored EXCEPT ![p] = [Told(Latest, p, error) EXCEPT !.personal_note = Null]]
  /\ UNCHANGED chosen

\* update_personal_note inserts a row when there is none to update (updating is the
\* subject of PaymentData).
UpdatesPersonalNote(o, p) ==
  /\ stored[p] = Null
  /\ Writes(o, <<Insert("payments", RowOf("payments", {"personal_note", "hash"}, p))>>)
  /\ stored' = [stored EXCEPT ![p] =
       [user_preferences |-> Null, exchange_rate |-> Null, offer |-> Null,
        personal_note |-> <<"payments", "personal_note">>,
        received_on |-> Null, received_lnurl_comment |-> Null]]
  /\ UNCHANGED chosen

AppendsAnalyticsConfig(o, status) ==
  /\ status # chosen.analytics
  /\ Writes(o, <<Insert("analytics_config", [status |-> status])>>)
  /\ Len(db.tables["analytics_config"].rows) < MaxConfigs
  /\ chosen' = [chosen EXCEPT !.analytics = status]
  /\ UNCHANGED stored

MigrationsNext ==
  \E o \in Openers :
    \/ LooksAtVersion(o) \/ ToLatest(o) \/ MigrationFails(o) \/ Closes(o)
    \/ \E p \in Recorded, error \in Errors : StoresPaymentInfo(o, p, error)
    \/ \E p \in Recorded : UpdatesPersonalNote(o, p)
    \/ \E status \in {Zero, One} : AppendsAnalyticsConfig(o, status)

MigrationsSpec == MigrationsInit /\ [][MigrationsNext]_migrationVars

-----------------------------------------------------------------------------
(* Properties                                                                *)

IsOpen == \E o \in Openers : opener[o].at = "open"

LastOf(t, c) == Last(db.tables[t].rows)[c]

\* Whatever version of the library stored a payment, an offer, a note or a choice, an
\* open store reads it as it was: no migration and no race of two processes loses,
\* swaps or resets a column, and no statement of the code asks for one that is not there.
ReadsWhatWasStored ==
  IsOpen =>
    /\ \A p \in Recorded : RetrievePaymentInfo(p) = stored[p]
    /\ LastOf("analytics_config", "status") = chosen.analytics
    /\ chosen.address # Null => LastOf("lightning_addresses", "enable_status") = chosen.address
    /\ \A s \in OtherStatements :
         /\ Can(db.tables, Insert(s[1], RowOf(s[1], s[2], <<>>)))
         /\ s[3] \subseteq Columns(db.tables, s[1])

\* A file of any age can be opened: the migrations fail a process only if another one
\* migrated the file after it had looked, and it succeeds when it looks again.
OnlyRacesFail ==
  \A o \in Openers : opener[o].at = "refused" => opener[o].seen < db.version /\ db.version = Latest
=============================================================================
