-------------------------------- MODULE Tables --------------------------------
(*****************************************************************************)
(* Tables of the SQLite database.  A table with a primary key is a function  *)
(* from the keys that have a row to the rows: SELECT applies it, the DOMAIN  *)
(* is the set of keys present, and the statements that write it are these.   *)
(*****************************************************************************)

\* The table with no row.
NoRows == [k \in {} |-> {}]

\* INSERT of a new key, UPDATE of an existing one, or the upsert of both.
Put(table, key, row) ==
  [k \in DOMAIN table \cup {key} |-> IF k = key THEN row ELSE table[k]]

\* The rows of new, over those the table had.
Merge(table, new) ==
  [k \in DOMAIN table \cup DOMAIN new |->
     IF k \in DOMAIN new THEN new[k] ELSE table[k]]

\* DELETE of the rows of keys, those without a row included.
Remove(table, keys) == [k \in DOMAIN table \ keys |-> table[k]]

\* The keys of table are drawn from keys and its rows from rows.
IsTable(table, keys, rows) ==
  DOMAIN table \subseteq keys /\ table \in [DOMAIN table -> rows]
===============================================================================
