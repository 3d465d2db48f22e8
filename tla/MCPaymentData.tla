--------------------------- MODULE MCPaymentData ---------------------------
(***************************************************************************)
(* The rows of payments: written by operations that interleave, or found   *)
(* in a file of any version that the node and the handler of notifications *)
(* open.  A behaviour is about one of the two.                             *)
(***************************************************************************)
EXTENDS PaymentData, Migrations

VARIABLE checked  \* what this behaviour is about

\* Threads, own invoices, offers and processes are interchangeable.
Symmetry ==
  Permutations(Threads) \cup Permutations(Own) \cup Permutations(Offers)
  \cup Permutations(Openers)

\* Of two payments in the file one claims a topup.
MCRecorded == {"paid", "topup"}
MCClaims == {"topup"}

MCInit ==
  /\ Init /\ MigrationsInit
  /\ checked \in {"rows", "file"}
  /\ checked = "rows" => db.version = 0

MCNext ==
  \/ checked = "rows" /\ Next /\ UNCHANGED <<migrationVars, checked>>
  \/ checked = "file" /\ MigrationsNext /\ UNCHANGED <<vars, checked>>

MCSpec == MCInit /\ [][MCNext]_<<vars, migrationVars, checked>>
=============================================================================
