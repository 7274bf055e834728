----------------------------- MODULE TableNatives -----------------------------
(***************************************************************************)
(* The natives behind tables (table-natives/src/lib.rs) with the counter    *)
(* that TableWithLength keeps on top of them.  A session caches every entry *)
(* it touches as a GlobalValue, works on the cache, and turns it into a     *)
(* change set when its transaction commits.  Gas is charged after the work  *)
(* is done, so a native that fails has changed the cache; the session is    *)
(* then discarded.                                                          *)
(***************************************************************************)
EXTENDS NativeSession, MoveTable

CONSTANTS
  Key, Value,
  NoValue,     \* stands in an entry of the cache that has no value
  MaxTables    \* bound: the tables a session may create

ASSUME TableConstants ==
  /\ NoValue \notin Value
  /\ IsFiniteSet(Key)
  /\ MaxTables \in Nat

VARIABLES
  store,          \* what the resolver reads: the entries in storage
  lengths,        \* TableWithLength.length of the tables in storage, by handle
  new_tables,     \* TableData.new_tables, in the order of creation
  removed_tables, \* TableData.removed_tables
  content,        \* TableData.tables: the cached entries
  length,         \* the lengths as the running session has changed them
  given           \* history: every handle ever returned

tableSession == <<new_tables, removed_tables, content, length>>
tableVars == <<store, lengths, sessionVars, given, tableSession>>

\* The handle is a hash of the session's hash and the number of tables the
\* session has made; the hash is taken to be free of collisions.
Handle == [txn: TxnHash, n: 0 .. MaxTables - 1]
Entry == Handle \X Key

\* GlobalValue of the Move VM.  "clean" and "dirty" are Cached.
GlobalValue ==
  [is: {"none", "deleted"}, val: {NoValue}] \cup
  [is: {"fresh", "clean", "dirty"}, val: Value]

exists(gv) == gv.is \in {"fresh", "clean", "dirty"}

\* GlobalValue::move_to, on a value that does not exist
move_to(gv, val) == [is |-> IF gv.is = "none" THEN "fresh" ELSE "dirty", val |-> val]

\* GlobalValue::move_from, on a value that exists
move_from(gv) == [is |-> IF gv.is = "fresh" THEN "none" ELSE "deleted", val |-> NoValue]

\* A write through the reference of GlobalValue::borrow_global
write_ref(gv, val) == [is |-> IF gv.is = "fresh" THEN "fresh" ELSE "dirty", val |-> val]

\* GlobalValue::into_effect
into_effect(gv) ==
  CASE gv.is = "fresh"   -> "New"
    [] gv.is = "dirty"   -> "Modify"
    [] gv.is = "deleted" -> "Delete"
    [] OTHER             -> "None"

\* Fault: what is loaded is cached like something new.
load_fresh(entry) ==
  IF entry \in DOMAIN content THEN content[entry]
  ELSE IF entry \in DOMAIN store THEN [is |-> "fresh", val |-> store[entry]]
  ELSE [is |-> "none", val |-> NoValue]

\* Reads storage only for an entry that the session has not touched yet.
get_or_create_global_value(entry) ==
  IF entry \in DOMAIN content THEN content[entry]
  ELSE IF entry \in DOMAIN store THEN [is |-> "clean", val |-> store[entry]]
  ELSE [is |-> "none", val |-> NoValue]

cache_entry(entry, gv) ==
  content' = [e \in DOMAIN content \cup {entry} |-> IF e = entry THEN gv ELSE content[e]]
-----------------------------------------------------------------------------
TableInit ==
  /\ store = new /\ lengths = new
  /\ SessionInit
  /\ new_tables = <<>> /\ removed_tables = {} /\ content = new /\ length = new
  /\ given = {}

\* NativeTableContext::new, for a session with a hash of its own
start_tables(hash) ==
  /\ open_session(hash) /\ length' = lengths
  /\ UNCHANGED <<store, lengths, given, new_tables, removed_tables, content>>

\* The end of a native that has done its work: the gas is charged, and the
\* caller goes on with counted as the lengths; or there is not enough gas.
charge_table(counted) ==
  \/ status' = "running" /\ length' = counted
  \/ status' = "failed" /\ UNCHANGED length

\* Fault: the tables that were made and destroyed again are not counted.
new_handle_recounting ==
  [txn |-> txn, n |-> Cardinality({i \in DOMAIN new_tables : new_tables[i] \notin removed_tables})]

\* Fault: the number of tables is read after the new one is inserted.
new_handle_inserted_first == [txn |-> txn, n |-> Len(new_tables) + 1]

new_handle == [txn |-> txn, n |-> Len(new_tables)]

\* table_with_length::new
native_new_table_handle ==
  /\ status = "running" /\ Len(new_tables) < MaxTables
  /\ \/ /\ new_tables' = Append(new_tables, new_handle)
        /\ given' = given \cup {new_handle}
        /\ length' = add(length, new_handle, 0)
        /\ UNCHANGED status
     \/ /\ status' = "failed"
        /\ UNCHANGED <<new_tables, given, length>>
  /\ UNCHANGED <<store, lengths, used, txn, removed_tables, content>>

tableCall == UNCHANGED <<store, lengths, used, txn, given, new_tables, removed_tables>>

\* Fault: an entry that was removed before is not counted.
native_add_box_uncounted(handle, key, val) ==
  LET gv == get_or_create_global_value(<<handle, key>>) IN
  /\ status = "running" /\ handle \in DOMAIN length
  /\ \/ /\ ~ exists(gv)
        /\ cache_entry(<<handle, key>>, move_to(gv, val))
        /\ charge_table(IF gv.is = "deleted" THEN length ELSE [length EXCEPT ![handle] = @ + 1])
     \/ /\ exists(gv)
        /\ cache_entry(<<handle, key>>, gv)
        /\ status' = "failed" /\ UNCHANGED length
  /\ tableCall

\* table_with_length::add; aborts with ALREADY_EXISTS
native_add_box(handle, key, val) ==
  LET gv == get_or_create_global_value(<<handle, key>>) IN
  /\ status = "running" /\ handle \in DOMAIN length
  /\ \/ /\ ~ exists(gv)
        /\ cache_entry(<<handle, key>>, move_to(gv, val))
        /\ charge_table([length EXCEPT ![handle] = @ + 1])
     \/ /\ exists(gv)
        /\ cache_entry(<<handle, key>>, gv)
        /\ status' = "failed" /\ UNCHANGED length
  /\ tableCall

\* table_with_length::borrow, or borrow_mut and a write of val through the
\* reference; aborts with NOT_FOUND.  The write comes after the charge.
native_borrow_box(handle, key, written) ==
  LET gv == get_or_create_global_value(<<handle, key>>) IN
  /\ status = "running" /\ handle \in DOMAIN length
  /\ \/ /\ exists(gv)
        /\ UNCHANGED status
        /\ \/ cache_entry(<<handle, key>>, gv)
           \/ \E val \in written : cache_entry(<<handle, key>>, write_ref(gv, val))
     \/ /\ cache_entry(<<handle, key>>, gv)
        /\ status' = "failed"
  /\ UNCHANGED length
  /\ tableCall

\* table_with_length::contains
native_contains_box(handle, key) ==
  /\ status = "running" /\ handle \in DOMAIN length
  /\ cache_entry(<<handle, key>>, get_or_create_global_value(<<handle, key>>))
  /\ charge_table(length)
  /\ tableCall

\* table_with_length::remove; aborts with NOT_FOUND
native_remove_box(handle, key) ==
  LET gv == get_or_create_global_value(<<handle, key>>) IN
  /\ status = "running" /\ handle \in DOMAIN length
  /\ \/ /\ exists(gv)
        /\ cache_entry(<<handle, key>>, move_from(gv))
        /\ charge_table([length EXCEPT ![handle] = @ - 1])
     \/ /\ ~ exists(gv)
        /\ cache_entry(<<handle, key>>, gv)
        /\ status' = "failed" /\ UNCHANGED length
  /\ tableCall

\* Fault: whoever has the table may destroy it.
native_destroy_any_box(handle) ==
  /\ status = "running" /\ handle \in DOMAIN length
  /\ removed_tables' = removed_tables \cup {handle}
  /\ length' = remove(length, handle)
  /\ UNCHANGED <<store, lengths, used, txn, status, given, new_tables, content>>

\* table_with_length::destroy_empty, which lets only an empty table through,
\* and drop_unchecked_box, which does nothing.
native_destroy_empty_box(handle) ==
  /\ status = "running" /\ handle \in DOMAIN length
  /\ length[handle] = 0
  /\ \/ /\ removed_tables' = removed_tables \cup {handle}
        /\ length' = remove(length, handle)
        /\ UNCHANGED status
     \/ /\ status' = "failed"
        /\ UNCHANGED <<removed_tables, length>>
  /\ UNCHANGED <<store, lengths, used, txn, given, new_tables, content>>
-----------------------------------------------------------------------------

\* One operation for every cached entry that has an effect.
into_change_set ==
  [e \in {e \in DOMAIN content : into_effect(content[e]) # "None"} |->
    [op |-> into_effect(content[e]), val |-> content[e].val]]

\* What storage is after a change set.
apply_entries(changes) ==
  [e \in {e \in DOMAIN store \cup DOMAIN changes :
            e \in DOMAIN changes => changes[e].op # "Delete"} |->
    IF e \in DOMAIN changes THEN changes[e].val ELSE store[e]]

\* The session's data is consumed or dropped.
end_tables ==
  /\ close_session
  /\ new_tables' = <<>> /\ removed_tables' = {} /\ content' = new /\ length' = new
  /\ UNCHANGED given

\* The transaction commits: the change set and the Move values take effect.
commit_tables ==
  /\ status = "running"
  /\ store' = apply_entries(into_change_set) /\ lengths' = length
  /\ end_tables

\* A native, the Move code or the serialization at the end of the session has
\* failed, and nothing of the session takes effect.
discard_tables ==
  /\ status \in {"running", "failed"}
  /\ UNCHANGED <<store, lengths>>
  /\ end_tables

TableCall ==
  \/ native_new_table_handle
  \/ \E handle \in DOMAIN length :
       \/ native_destroy_empty_box(handle)
       \/ \E key \in Key :
            \/ \E val \in Value : native_add_box(handle, key, val)
            \/ native_borrow_box(handle, key, Value)
            \/ native_contains_box(handle, key)
            \/ native_remove_box(handle, key)

TableNext == (\E hash \in TxnHash : start_tables(hash)) \/ TableCall \/ commit_tables \/ discard_tables

TableSpec == TableInit /\ [][TableNext]_tableVars
-----------------------------------------------------------------------------
\* Types of the state.
TableTypeOK ==
  /\ IsTable(store, Entry, Value)
  /\ IsTable(lengths, Handle, Int) /\ IsTable(length, Handle, Int)
  /\ SessionTypeOK
  /\ new_tables \in Seq(Handle) /\ Len(new_tables) <= MaxTables
  /\ removed_tables \subseteq Handle
  /\ IsTable(content, Entry, GlobalValue)
  /\ given \subseteq Handle

\* The change set of a session fits storage at any moment at which it could be
\* taken: it creates only what is not stored, and modifies and deletes only
\* what is.  The operation is derived from a cached status that add, remove and
\* write have changed in any order (GlobalValue, into_change_set).
ChangeSetFits ==
  status = "running" =>
    \A e \in DOMAIN into_change_set : into_change_set[e].op = "New" <=> e \notin DOMAIN store

\* The entries of a table, as the session sees them and as storage has them.
SeenKeys(handle) == {key \in Key : exists(get_or_create_global_value(<<handle, key>>))}
StoredKeys(handle) == {key \in Key : <<handle, key>> \in DOMAIN store}

\* The counters of TableWithLength count the entries that the natives have, in
\* storage and in a session.  destroy_empty relies on it: natives cannot tell
\* whether a table is empty.
LengthsCount ==
  /\ \A handle \in DOMAIN lengths : lengths[handle] = Cardinality(StoredKeys(handle))
  /\ status = "running" =>
       \A handle \in DOMAIN length : length[handle] = Cardinality(SeenKeys(handle))

\* No entry stays in storage when its table has been destroyed, and no entry
\* waits there for a table that is yet to be created.
NoOrphans == \A e \in DOMAIN store : e[1] \in DOMAIN lengths

\* The tables that storage has, and those of the session.
StoredTables ==
  [h \in DOMAIN lengths |-> [key \in StoredKeys(h) |-> store[<<h, key>>]]]
SeenTables ==
  [h \in DOMAIN length |->
    [key \in SeenKeys(h) |-> get_or_create_global_value(<<h, key>>).val]]

Store == INSTANCE TableStore WITH
  committed <- StoredTables,
  current   <- IF status = "running" THEN SeenTables ELSE StoredTables,
  spent     <- given

\* The session cache with its change set implements transactions on plain
\* tables: a session reads its own writes over storage, takes effect as a whole
\* or not at all, and no handle is given out twice.
ImplementsStore == Store!StoreSpec
=============================================================================
