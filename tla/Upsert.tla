------------------------------- MODULE Upsert -------------------------------
(***************************************************************************)
(* upsert_all of postgresql/utils.py: one multi-row                        *)
(*   INSERT ... ON CONFLICT (unique_columns) DO UPDATE                     *)
(*     SET col = COALESCE(EXCLUDED.col, table.col) RETURNING ...           *)
(* per call, committed by the call itself.  Every writer of the system     *)
(* reaches the database through it.                                        *)
(*                                                                         *)
(* A table is a function from the keys present (the unique columns of a    *)
(* row) to its other columns; a batch is a sequence of rows                *)
(* [key, cols], cols being a function from the columns the Python dict     *)
(* names to their values.  A batch is all or nothing: an error of any row  *)
(* is caught, rolled back and reported only by an empty result.            *)
(***************************************************************************)
EXTENDS Naturals, Sequences

CONSTANT Null       \* SQL NULL and Python None

KeysOf(rows) == {rows[i].key : i \in DOMAIN rows}

\* Two rows of one batch with the same key: PostgreSQL refuses to update a
\* row a second time in one command.
DuplicateKey(rows) ==
    \E i, j \in DOMAIN rows : i # j /\ rows[i].key = rows[j].key

\* The columns of the statement are those of the first dict; a later dict
\* that lacks one of them makes the statement impossible to compile.
Ragged(rows) ==
    \E i \in DOMAIN rows : ~ (DOMAIN rows[1].cols \subseteq DOMAIN rows[i].cols)

\* The statement is executed and committed.  "dbOk" is FALSE when the database
\* fails the call, or a constraint of the table refuses a row.
Accepted(rows, dbOk) ==
    rows # <<>> /\ ~DuplicateKey(rows) /\ ~Ragged(rows) /\ dbOk

\* Mutant: the last writer wins, NULL or not.
Overwrite(new, old) == new

Coalesce(new, old) == IF new = Null THEN old ELSE new

\* EXCLUDED.col: a column no dict names is NULL.
Excluded(rows, i, c) ==
    IF c \in DOMAIN rows[1].cols THEN rows[i].cols[c] ELSE Null

Current(table, k, c) == IF k \in DOMAIN table THEN table[k][c] ELSE Null

RowIndex(rows, k) == CHOOSE i \in DOMAIN rows : rows[i].key = k

\* The table after an accepted batch, "Cols" being its updatable columns.
Merge(table, rows, Cols) ==
    [k \in DOMAIN table \cup KeysOf(rows) |->
        IF k \in KeysOf(rows)
        THEN [c \in Cols |-> Coalesce(Excluded(rows, RowIndex(rows, k), c),
                                      Current(table, k, c))]
        ELSE table[k]]

UpsertAll(table, rows, Cols, dbOk) ==
    IF Accepted(rows, dbOk) THEN Merge(table, rows, Cols) ELSE table

\* The same for a table of which only the keys matter.
UpsertKeys(keys, rows, dbOk) ==
    IF Accepted(rows, dbOk) THEN keys \cup KeysOf(rows) ELSE keys

-----------------------------------------------------------------------------
(***************************************************************************)
(* A batch collected in a dict of Python dicts, as the importer does: a    *)
(* function from keys to columns.  Every row names the same columns, and   *)
(* no key comes twice.                                                     *)
(***************************************************************************)
MergeDict(table, dict, Cols) ==
    [k \in DOMAIN table \cup DOMAIN dict |->
        IF k \in DOMAIN dict
        THEN [c \in Cols |-> Coalesce(IF c \in DOMAIN dict[k] THEN dict[k][c] ELSE Null,
                                      Current(table, k, c))]
        ELSE table[k]]

UpsertDict(table, dict, Cols, dbOk) ==
    IF DOMAIN dict # {} /\ dbOk THEN MergeDict(table, dict, Cols) ELSE table

=============================================================================
