------------------------------ MODULE MoveTable ------------------------------
(***************************************************************************)
(* aptos_std::table: a finite map kept in global storage.  A table is a     *)
(* function whose domain is the set of keys that have an entry.  The same   *)
(* map models the global storage of one resource type, keyed by address     *)
(* (move_to = add, exists<T> = contains).                                   *)
(*                                                                         *)
(* add aborts on a key that is present; borrow, borrow_mut and remove abort *)
(* on a key that is absent.  An abort undoes the whole transaction, so it   *)
(* is the guard of the action that makes the call, never a value here.      *)
(***************************************************************************)
EXTENDS Integers

\* table::new
new == [key \in {} |-> key]

\* table::contains
contains(table, key) == key \in DOMAIN table

\* table::add, for a key that has no entry
add(table, key, val) ==
  [k \in DOMAIN table \cup {key} |-> IF k = key THEN val ELSE table[k]]

\* table::borrow_mut followed by a write, for a key that has an entry
write(table, key, val) == [table EXCEPT ![key] = val]

\* table::remove, for a key that has an entry
remove(table, key) == [k \in DOMAIN table \ {key} |-> table[k]]

\* The type Table<K, V>.
IsTable(table, K, V) ==
  /\ DOMAIN table \subseteq K
  /\ table \in [DOMAIN table -> V]
=============================================================================
