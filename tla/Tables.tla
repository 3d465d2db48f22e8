------------------------------- MODULE Tables -------------------------------
(***************************************************************************)
(* As much of SQLite as migrations need.  A table is the rows it has and   *)
(* what each column holds when an INSERT does not say; a row is a function *)
(* of the columns.  Values are tuples of strings.                          *)
(***************************************************************************)
EXTENDS SequencesExt

Null == <<>>
Required == <<"required">>    \* NOT NULL without a default
Now == <<"now">>              \* CURRENT_TIMESTAMP
Zero == <<"0">>
One == <<"1">>

Nulls(columns) == [c \in columns |-> Null]

\* A function on one argument, and a function with what another one adds to it.
Only(c, value) == [x \in {c} |-> value]

Over(f, g) == [x \in DOMAIN f \cup DOMAIN g |-> IF x \in DOMAIN f THEN f[x] ELSE g[x]]

\* The statements.
CreateTable(t, required, optional) ==
  [do |-> "create", table |-> t,
   default |-> Over([c \in required |-> Required], optional)]

AddColumn(t, c, default) ==
  [do |-> "add", table |-> t, column |-> c, default |-> default]

Insert(t, row) == [do |-> "insert", table |-> t, row |-> row]

\* INSERT INTO t (into) SELECT columns FROM from.
Copy(t, into, from, columns) ==
  [do |-> "copy", table |-> t, from |-> from,
   source |-> [c \in Range(into) |-> columns[CHOOSE i \in DOMAIN into : into[i] = c]]]

Drop(t) == [do |-> "drop", table |-> t]

Rename(t, to) == [do |-> "rename", table |-> t, to |-> to]

Columns(T, t) == IF t \in DOMAIN T THEN DOMAIN T[t].default ELSE {}

\* What lets a statement succeed on the tables T.
Can(T, s) ==
  \/ s.do = "create" /\ s.table \notin DOMAIN T
  \/ s.do = "add" /\ s.table \in DOMAIN T /\ s.column \notin Columns(T, s.table)
  \/ /\ s.do = "insert"
     /\ DOMAIN s.row \subseteq Columns(T, s.table)
     /\ \A c \in Columns(T, s.table) :
          T[s.table].default[c] = Required => c \in DOMAIN s.row /\ s.row[c] # Null
  \/ /\ s.do = "copy"
     /\ DOMAIN s.source \subseteq Columns(T, s.table)
     /\ Range(s.source) \subseteq Columns(T, s.from)
  \/ s.do = "drop" /\ s.table \in DOMAIN T
  \/ s.do = "rename" /\ s.table \in DOMAIN T /\ s.to \notin DOMAIN T

Without(T, t) == [u \in DOMAIN T \ {t} |-> T[u]]

\* A table whose every row has one more column.
Widened(table, c, default) ==
  [default |-> Over(Only(c, default), table.default),
   rows |-> [i \in DOMAIN table.rows |-> Over(Only(c, default), table.rows[i])]]

WithRows(table, rows) ==
  [table EXCEPT !.rows = @ \o [i \in DOMAIN rows |-> Over(rows[i], table.default)]]

\* The tables after a statement that succeeds.
Result(T, s) ==
  CASE s.do = "create" -> Over(Only(s.table, [default |-> s.default, rows |-> <<>>]), T)
    [] s.do = "add" -> [T EXCEPT ![s.table] = Widened(@, s.column, s.default)]
    [] s.do = "insert" -> [T EXCEPT ![s.table] = WithRows(@, <<s.row>>)]
    [] s.do = "copy" ->
         [T EXCEPT ![s.table] =
            WithRows(@, [i \in DOMAIN T[s.from].rows |->
                           [c \in DOMAIN s.source |-> T[s.from].rows[i][s.source[c]]]])]
    [] s.do = "drop" -> Without(T, s.table)
    [] s.do = "rename" -> Over(Only(s.to, T[s.table]), Without(T, s.table))

Execute(x, s) ==
  IF x.ok /\ Can(x.tables, s) THEN [x EXCEPT !.tables = Result(@, s)] ELSE [x EXCEPT !.ok = FALSE]

\* A transaction is rolled back as a whole when one of its statements fails.
Run(x, statements) ==
  LET after[n \in 0..Len(statements)] ==
        IF n = 0 THEN x ELSE Execute(after[n - 1], statements[n])
  IN  after[Len(statements)]

Transaction(T, statements) == Run([ok |-> TRUE, tables |-> T], statements)
=============================================================================
