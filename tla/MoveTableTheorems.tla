-------------------------- MODULE MoveTableTheorems --------------------------
(***************************************************************************)
(* What the operations on tables return and preserve, for every table.      *)
(***************************************************************************)
EXTENDS MoveTable, TLAPS

(* table::new gives a table without entries.                                *)
LEMMA NewTable ==
  ASSUME NEW K, NEW V
  PROVE  IsTable(new, K, V) /\ DOMAIN new = {}
  BY DEF new, IsTable

(* table::add gives a table with one more entry and the others unchanged.   *)
LEMMA AddToTable ==
  ASSUME NEW K, NEW V, NEW table, IsTable(table, K, V),
         NEW key \in K, NEW val \in V
  PROVE  /\ IsTable(add(table, key, val), K, V)
         /\ DOMAIN add(table, key, val) = DOMAIN table \cup {key}
         /\ add(table, key, val)[key] = val
         /\ \A k \in DOMAIN table : k # key => add(table, key, val)[k] = table[k]
  BY DEF add, IsTable

(* A write through table::borrow_mut keeps the keys and the other entries.  *)
LEMMA WriteToTable ==
  ASSUME NEW K, NEW V, NEW table, IsTable(table, K, V),
         NEW key \in DOMAIN table, NEW val \in V
  PROVE  /\ IsTable(write(table, key, val), K, V)
         /\ DOMAIN write(table, key, val) = DOMAIN table
         /\ write(table, key, val)[key] = val
         /\ \A k \in DOMAIN table : k # key => write(table, key, val)[k] = table[k]
  BY DEF write, IsTable

(* table::remove takes out one entry and keeps the others.                  *)
LEMMA RemoveFromTable ==
  ASSUME NEW K, NEW V, NEW table, IsTable(table, K, V), NEW key
  PROVE  /\ IsTable(remove(table, key), K, V)
         /\ DOMAIN remove(table, key) = DOMAIN table \ {key}
         /\ \A k \in DOMAIN table : k # key => remove(table, key)[k] = table[k]
  BY DEF remove, IsTable
=============================================================================
